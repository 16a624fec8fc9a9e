----------------------------- MODULE MCSavedState -----------------------------
(* Settings, rights of three actions and of one process for TLC. *)
EXTENDS SavedState, TLC

CONSTANTS
  store, body, v0, v1, root, alice, rootgroup, usergroup, csr,
  updateAction, updateProcess, test

MCDefaultSettings == [k \in Keys |-> v0]
MCCommandLines == {[k \in Keys |-> NotGiven],
                   [k \in Keys |-> IF k = store THEN v1 ELSE NotGiven]}
MCUpdates == {updateAction, updateProcess}
MCActions == MCUpdates \cup {test}
MCReleases == {MCUpdates, MCActions}
MCGroupsOf == (root :> {rootgroup}) @@ (alice :> {usergroup})
MCOwners == {[user |-> alice, group |-> usergroup]}
MCModes == {{}, {"user", "group", "other"}}

=============================================================================
