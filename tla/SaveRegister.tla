---------------------------- MODULE SaveRegister ----------------------------
(***************************************************************************)
(* What the save system promises its callers: every file index is an       *)
(* atomic register.  An operation on a file (a save, a deletion, the mark  *)
(* of a fresh card) either takes effect as a whole or, when power is lost  *)
(* before it ends, has either taken effect as a whole or not at all.       *)
(* No operation ever shows a value nobody wrote, an older value than the   *)
(* current one, or a change of another file, and none that ends while      *)
(* there is power fails to take effect.                                    *)
(***************************************************************************)
CONSTANTS Files,    \* the file indices of gSaveFileEEPROMAddresses in use
          Values,   \* what a read may return
          NoReq     \* no operation is under way

VARIABLES store,    \* the value a read of each file returns
          req,      \* the operation under way: its file and its value
          power     \* "on" or "off"

regVars == <<store, req, power>>

Requests == [file : Files, val : Values]

RegInit == /\ store \in [Files -> Values]
           /\ req = NoReq
           /\ power = "off"

PowerOn == /\ power = "off"
           /\ power' = "on"
           /\ UNCHANGED <<store, req>>

Begin(r) == /\ req = NoReq
            /\ req' = r
            /\ UNCHANGED <<store, power>>

TakeEffect == store' = [store EXCEPT ![req.file] = req.val]

End == /\ req # NoReq
       /\ TakeEffect
       /\ req' = NoReq
       /\ UNCHANGED power

PowerLoss == /\ power = "on"
             /\ power' = "off"
             /\ UNCHANGED store \/ (req # NoReq /\ TakeEffect)
             /\ req' = NoReq

RegNext == \/ PowerOn
           \/ \E r \in Requests : Begin(r)
           \/ End
           \/ PowerLoss

RegSpec == RegInit /\ [][RegNext]_regVars
=============================================================================
