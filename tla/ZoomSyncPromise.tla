--------------------------- MODULE ZoomSyncPromise ---------------------------
(* ZoomSync implements SyncPromise: a row shows its status and its video,  *)
(* and news is what the account is owed.                                   *)
EXTENDS ZoomSync

Promise == INSTANCE SyncPromise WITH
  MayLose <- (Restarts \/ Disconnects),
  status <- [r \in Recordings |-> row[r].status],
  video <- [r \in Recordings |-> row[r].video],
  owed <- news

(* Whatever chains of awaits overlap, the log as the account sees it moves *)
(* as promised: a completion or a failure is never entered without owing   *)
(* the account word of it, a completion never twice in a row, a row never  *)
(* forgets its video or disappears but by unlinking, and word is lost only *)
(* by a restart, a missing connection or an upload without an account.     *)
KeepsPromise == Promise!PromiseSpec
==============================================================================
