---------------------------- MODULE MCFileStore ----------------------------
(***************************************************************************)
(* Values for the constants of FileStore, for the model checker.           *)
(***************************************************************************)
EXTENDS FileStore, TLC

CONSTANTS root, alice, bob, i1, i2, i3, small, big

MCGroupsOf == [u \in Users |-> IF u = root THEN Groups ELSE {UserGroup}]

MCSizeOf == [c \in Contents |-> IF c = small THEN 1 ELSE 2]

Unlimited == [storeSize |-> 100, fileSize |-> 100, fileCount |-> 100]

\* Every user may keep sizes of 2 in 2 files.
SmallQuota == [storeSize |-> 2, fileSize |-> 2, fileCount |-> 2]

NoQuota == [u \in Users |-> Unlimited]
MCQuota == [u \in Users |-> IF u = root THEN Unlimited ELSE SmallQuota]

\* Modes: readable by all and writable by the group; closed to everyone.
SharedMode == [user |-> Rights, group |-> Rights, other |-> {"Read"}]
ReadOnlyMode == [user |-> {"Read"}, group |-> {}, other |-> {}]

OneMode == {DefaultMode}
OneShared == {SharedMode}
SharingModes == {DefaultMode, SharedMode, ReadOnlyMode}

IdSymmetry == Permutations(Ids)
=============================================================================
