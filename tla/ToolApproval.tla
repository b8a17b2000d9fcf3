---------------------------- MODULE ToolApproval ----------------------------
(***************************************************************************)
(* What the MCP tool baseline promises, without saying how it is stored.   *)
(*                                                                         *)
(* For every tool (a key "client|server|tool" of the code) there is at     *)
(* most one approved description, bound to the identity the server had     *)
(* when it was approved.  Only three things may change it: a tool that has *)
(* no approval yet is inventoried, a tool whose server was re-pointed is   *)
(* inventoried again under the new identity, and the whole baseline is     *)
(* discarded.  In particular a changed description alone never does.       *)
(***************************************************************************)
CONSTANTS Keys,      \* the tools
          Hashes,    \* description fingerprints
          Ids,       \* server identities: a command or a URL
          NoHash,    \* "no approval"
          NoId

VARIABLE approved    \* tool |-> its approved [hash, id]

Approval == [hash : Hashes \cup {NoHash}, id : Ids \cup {NoId}]

NoApproval == [hash |-> NoHash, id |-> NoId]

Init == approved = [k \in Keys |-> NoApproval]

\* One scan publishes what it inventoried: any number of tools at once.
Inventory ==
    /\ approved' \in [Keys -> Approval]
    /\ \A k \in Keys :
          \/ approved'[k] = approved[k]
          \/ approved[k] = NoApproval
          \/ /\ approved'[k].hash \in Hashes
             /\ approved'[k].id # approved[k].id

\* The baseline is deleted or damaged: every tool is unknown again.
Discard == approved' = [k \in Keys |-> NoApproval]

Next == Inventory \/ Discard

Spec == Init /\ [][Next]_approved
=============================================================================
