------------------------------ MODULE Directory ------------------------------
(* The organization's directory: groups and users of the identity provider,  *)
(* copied into org_directory (directory_sync_service.py) whenever an         *)
(* administrator logs on (sso.py) or asks for it (admin_services.py).  A     *)
(* sync reads page after page, remembers in its session which rows it will   *)
(* insert, change and delete, and writes them all in one commit.             *)
EXTENDS Naturals, Sequences

CONSTANTS
  Syncs,       \* syncs that may be under way at once
  Pages,       \* the provider's listing: pages of groups, then pages of users
  GroupPages,  \* how many pages are of groups
  MaxSyncs,    \* bounds of the instance: syncs begun,
  MaxChanges   \* entries that join or leave

Entries == UNION {Pages[i] : i \in DOMAIN Pages}

ASSUME DirectoryAssumption ==
  /\ Pages \in Seq(SUBSET Entries)
  /\ GroupPages \in 0 .. Len(Pages)
  /\ \A i, j \in DOMAIN Pages : i # j => Pages[i] \cap Pages[j] = {}

VARIABLES
  listed,     \* the entries the provider has
  directory,  \* org_directory: the commit that inserted an entry's row, 0 for no row
  sync,       \* the syncs
  begun, changes,
  commits     \* syncs committed, with the one before

dvars == <<listed, directory, sync, begun, changes, commits>>

(* found: the entries read and the row each had, 0 if it had none; stale: the *)
(* rows to delete.  For the properties, failed: a page was not read, changed: *)
(* entries that joined or left since the start, since: the commits seen.      *)
NoSync == [pc |-> "idle", page |-> 1, found |-> <<>>, stale |-> <<>>,
           failed |-> FALSE, changed |-> {}, since |-> 0]

(* Rows there are to begin with are of a sync of long ago. *)
DirectoryInit ==
  /\ listed \in SUBSET Entries
  /\ directory \in [Entries -> {0, 1}]
  /\ sync = [s \in Syncs |-> NoSync]
  /\ begun = 0
  /\ changes = 0
  /\ commits = 1

Read(s) == DOMAIN sync[s].found

-----------------------------------------------------------------------------
(* External: an entry joins or leaves the organization. *)
Change(e) ==
  /\ changes < MaxChanges /\ changes' = changes + 1
  /\ listed' = IF e \in listed THEN listed \ {e} ELSE listed \union {e}
  /\ sync' = [s \in Syncs |-> IF sync[s] = NoSync THEN NoSync
                              ELSE [sync[s] EXCEPT !.changed = @ \union {e}]]
  /\ UNCHANGED <<directory, begun, commits>>

(* sync_from_google, once it has an access token. *)
BeginSync(s) ==
  /\ sync[s] = NoSync
  /\ begun < MaxSyncs /\ begun' = begun + 1
  /\ sync' = [sync EXCEPT ![s].pc = "read"]
  /\ UNCHANGED <<listed, directory, changes, commits>>

(* The rows found once those of more entries have been looked up. *)
RowsFound(s, here) ==
  [e \in Read(s) \union here |-> IF e \in Read(s) THEN sync[s].found[e] ELSE directory[e]]

(* _sync_groups, _sync_users: a page is read, and each of its entries looked *)
(* up (_upsert_entry).                                                       *)
ReadPage(s) ==
  /\ sync[s].pc = "read" /\ sync[s].page <= Len(Pages)
  /\ sync' = [sync EXCEPT ![s].page = @ + 1,
                          ![s].found = RowsFound(s, Pages[sync[s].page] \cap listed)]
  /\ UNCHANGED <<listed, directory, begun, changes, commits>>

(* A page that cannot be read is taken for the last one of its kind. *)
PageFails(s) ==
  /\ sync[s].pc = "read" /\ sync[s].page <= Len(Pages)
  /\ sync' = [sync EXCEPT
       ![s].page = IF @ <= GroupPages THEN GroupPages + 1 ELSE Len(Pages) + 1,
       ![s].failed = TRUE]
  /\ UNCHANGED <<listed, directory, begun, changes, commits>>

(* _delete_stale: the rows of entries not read, unless nothing was read. *)
StaleRows(s) ==
  IF Read(s) = {} THEN <<>>
  ELSE [e \in {x \in Entries \ Read(s) : directory[x] # 0} |-> directory[e]]

SelectStale(s) ==
  /\ sync[s].pc = "read" /\ sync[s].page = Len(Pages) + 1
  /\ sync' = [sync EXCEPT ![s].pc = "commit", ![s].stale = StaleRows(s), ![s].since = commits]
  /\ UNCHANGED <<listed, directory, begun, changes, commits>>

(* The commit updates the rows found, which have to be there still, and      *)
(* inserts the others, whose addresses are unique; a row to delete may be    *)
(* gone already.                                                             *)
RowsFitBlindly(s) == TRUE
RowsFit(s) == \A e \in Read(s) : sync[s].found[e] = directory[e]

CommitSync(s) ==
  /\ sync[s].pc = "commit"
  /\ RowsFit(s)
  /\ commits' = commits + 1
  /\ directory' = [e \in Entries |->
       IF e \in Read(s) /\ sync[s].found[e] = 0 THEN commits'
       ELSE IF e \in DOMAIN sync[s].stale /\ sync[s].stale[e] = directory[e] THEN 0
       ELSE directory[e]]
  /\ sync' = [sync EXCEPT ![s] = NoSync]
  /\ UNCHANGED <<listed, begun, changes>>

(* Otherwise nothing of the sync is written. *)
CommitSyncFails(s) ==
  /\ sync[s].pc = "commit"
  /\ ~RowsFit(s)
  /\ sync' = [sync EXCEPT ![s] = NoSync]
  /\ UNCHANGED <<listed, directory, begun, changes, commits>>

DirectoryNext ==
  \/ \E e \in Entries : Change(e)
  \/ \E s \in Syncs : BeginSync(s) \/ ReadPage(s) \/ PageFails(s) \/ SelectStale(s)
                      \/ CommitSync(s) \/ CommitSyncFails(s)

DirectorySpec == DirectoryInit /\ [][DirectoryNext]_dvars

-----------------------------------------------------------------------------
Committed(s) == sync[s].pc = "commit" /\ sync'[s] = NoSync /\ commits' = commits + 1

(* However syncs overlap and entries come and go, a sync that read every     *)
(* page leaves a row of each entry the provider listed throughout it, and no *)
(* row of an entry the provider listed at no time of it, unless another sync *)
(* committed after it had chosen the rows to delete.                         *)
WholeSyncsAgree ==
  [][\A s \in Syncs : Committed(s) /\ ~sync[s].failed /\ Read(s) # {} =>
       \A e \in Entries \ sync[s].changed :
         IF e \in listed THEN directory'[e] # 0
         ELSE sync[s].since = commits => directory'[e] = 0]_dvars

(* A sync deletes the rows of entries the provider has no more, and keeps    *)
(* those of entries that it lists throughout.                                *)
OnlyStaleIsDeleted ==
  [][\A s \in Syncs : Committed(s) =>
       \A e \in listed \ sync[s].changed : directory[e] # 0 => directory'[e] # 0]_dvars
=============================================================================
