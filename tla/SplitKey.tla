------------------------------ MODULE SplitKey ------------------------------
(* Secrets split between the control plane and the gateway: share_1 in the   *)
(* row of secrets (crud_secret.py, vault.py), share_2 in the gateway's store *)
(* (main.py, share_storage.py), where it lives for a day, and the gateway    *)
(* putting the two together for a request (secret_injection.py).  A split is *)
(* named by a number: two shares make the secret when they are of one split. *)
EXTENDS Naturals

CONSTANTS
  SecretNames,
  StoreRequests,   \* requests storing a secret, each in a thread
  DeleteRequests,  \* requests deleting one
  MaxSplits,       \* bounds of the instance: secrets split,
  MaxLost          \* calls to the gateway that get no answer

VARIABLES
  row,      \* secrets: the split whose share_1 the row holds, 0 for no row
  share,    \* the gateway: the split whose share_2 it holds, 0 for none
  store,    \* the requests storing
  deletion, \* the requests deleting
  reading,  \* a request being given its secret
  delayed,  \* shares sent, unanswered, and not yet arrived
  splits,   \* splits made
  lost,
  clashed,  \* names stored when a row existed or another store was not over
  leaked    \* names with a call to the gateway that failed or was given up

kvars == <<row, share, store, deletion, reading, delayed, splits, lost, clashed, leaked>>

NoStore  == [name |-> "none", split |-> 0, pc |-> "idle"]
NoDelete == [name |-> "none", pc |-> "idle"]
NoRead   == [name |-> "none", one |-> 0, two |-> 0, pc |-> "idle"]

SplitKeyInit ==
  /\ row = [n \in SecretNames |-> 0]
  /\ share = [n \in SecretNames |-> 0]
  /\ store = [q \in StoreRequests |-> NoStore]
  /\ deletion = [d \in DeleteRequests |-> NoDelete]
  /\ reading = NoRead
  /\ delayed = {}
  /\ splits = 0
  /\ lost = 0
  /\ clashed = {}
  /\ leaked = {}

Storing(n)  == {q \in StoreRequests : store[q].name = n}
Deleting(n) == {d \in DeleteRequests : deletion[d].name = n}
Delayed(n)  == {m \in delayed : m.name = n}
Settled(n)  == Storing(n) = {} /\ Deleting(n) = {} /\ Delayed(n) = {}

(* A call to the gateway gets no answer. *)
NoAnswer(n) ==
  /\ lost < MaxLost /\ lost' = lost + 1
  /\ leaked' = leaked \union {n}

-----------------------------------------------------------------------------
(* create_secret splits the value. *)
SplitSecret(q, n) ==
  /\ store[q] = NoStore
  /\ splits < MaxSplits
  /\ splits' = splits + 1
  /\ store' = [store EXCEPT ![q] = [name |-> n, split |-> splits + 1, pc |-> "send"]]
  /\ clashed' = IF row[n] # 0 \/ ~Settled(n) THEN clashed \union {n} ELSE clashed
  /\ UNCHANGED <<row, share, deletion, reading, delayed, lost, leaked>>

(* _send_share_to_gateway, receive_share, store_share: share_2 replaces the  *)
(* one of that name.                                                         *)
SendShare(q) ==
  /\ store[q].pc = "send"
  /\ share' = [share EXCEPT ![store[q].name] = store[q].split]
  /\ store' = [store EXCEPT ![q].pc = "insert"]
  /\ UNCHANGED <<row, deletion, reading, delayed, splits, lost, clashed, leaked>>

(* No answer from the gateway: the request gives up, and the share may still *)
(* arrive.                                                                   *)
SendFailsUnnoticed(q) ==
  /\ store[q].pc = "send"
  /\ NoAnswer(store[q].name)
  /\ store' = [store EXCEPT ![q].pc = "insert"]
  /\ UNCHANGED <<row, share, deletion, reading, delayed, splits, clashed>>
SendFails(q) ==
  /\ store[q].pc = "send"
  /\ NoAnswer(store[q].name)
  /\ delayed' \in {delayed, delayed \union {[name |-> store[q].name, split |-> store[q].split]}}
  /\ store' = [store EXCEPT ![q] = NoStore]
  /\ UNCHANGED <<row, share, deletion, reading, splits, clashed>>

ShareArrives(m) ==
  /\ m \in delayed
  /\ delayed' = delayed \ {m}
  /\ share' = [share EXCEPT ![m.name] = m.split]
  /\ UNCHANGED <<row, store, deletion, reading, splits, lost, clashed, leaked>>

(* The row is inserted; the name is unique, so with a row in place the       *)
(* insertion fails and the request with it.                                  *)
Inserted(n, split) == IF row[n] = 0 THEN split ELSE row[n]
InsertRow(q) ==
  /\ store[q].pc = "insert"
  /\ row' = [row EXCEPT ![store[q].name] = Inserted(store[q].name, store[q].split)]
  /\ store' = [store EXCEPT ![q] = NoStore]
  /\ UNCHANGED <<share, deletion, reading, delayed, splits, lost, clashed, leaked>>

(* The control plane dies between the share and the row. *)
StoreDies(q) ==
  /\ store[q].pc = "insert"
  /\ NoAnswer(store[q].name)
  /\ store' = [store EXCEPT ![q] = NoStore]
  /\ UNCHANGED <<row, share, deletion, reading, delayed, splits, clashed>>

-----------------------------------------------------------------------------
(* delete_secret: the row must be there, *)
BeginDelete(d, n) ==
  /\ deletion[d] = NoDelete
  /\ row[n] # 0
  /\ deletion' = [deletion EXCEPT ![d] = [name |-> n, pc |-> "share"]]
  /\ clashed' = IF Storing(n) # {} \/ Delayed(n) # {} THEN clashed \union {n} ELSE clashed
  /\ UNCHANGED <<row, share, store, reading, delayed, splits, lost, leaked>>

(* then the gateway's share goes: it may be gone already, or the gateway may *)
(* not be reached, and the deletion goes on; an error of the gateway ends it. *)
ShareAfterDeleteKept(n) == share[n]
ShareAfterDelete(n) == 0
DeleteShare(d) ==
  LET n == deletion[d].name IN
  /\ deletion[d].pc = "share"
  /\ \/ /\ share' = [share EXCEPT ![n] = ShareAfterDelete(n)]
        /\ deletion' = [deletion EXCEPT ![d].pc = "row"]
        /\ UNCHANGED <<lost, leaked>>
     \/ /\ NoAnswer(n)
        /\ deletion' \in {[deletion EXCEPT ![d].pc = "row"], [deletion EXCEPT ![d] = NoDelete]}
        /\ UNCHANGED share
  /\ UNCHANGED <<row, store, reading, delayed, splits, clashed>>

(* and the row last, if it is still there. *)
DeleteRow(d) ==
  /\ deletion[d].pc = "row"
  /\ row' = [row EXCEPT ![deletion[d].name] = 0]
  /\ deletion' = [deletion EXCEPT ![d] = NoDelete]
  /\ UNCHANGED <<share, store, reading, delayed, splits, lost, clashed, leaked>>

-----------------------------------------------------------------------------
(* _reassemble_secret, or get_secret_with_value: share_1 first. *)
ReadRow(n) ==
  /\ reading.pc # "one"
  /\ reading' = IF row[n] = 0 THEN NoRead
                ELSE [name |-> n, one |-> row[n], two |-> 0, pc |-> "one"]
  /\ UNCHANGED <<row, share, store, deletion, delayed, splits, lost, clashed, leaked>>

(* then share_2: without it there is no secret. *)
ReadShare ==
  /\ reading.pc = "one"
  /\ reading' = IF share[reading.name] = 0 THEN NoRead
                ELSE [reading EXCEPT !.two = share[reading.name], !.pc = "both"]
  /\ UNCHANGED <<row, share, store, deletion, delayed, splits, lost, clashed, leaked>>

(* A day passes for a share the gateway keeps. *)
ShareExpires(n) ==
  /\ share[n] # 0
  /\ share' = [share EXCEPT ![n] = 0]
  /\ UNCHANGED <<row, store, deletion, reading, delayed, splits, lost, clashed, leaked>>

SplitKeyNext ==
  \/ \E q \in StoreRequests, n \in SecretNames : SplitSecret(q, n)
  \/ \E q \in StoreRequests : SendShare(q) \/ SendFails(q) \/ InsertRow(q) \/ StoreDies(q)
  \/ \E m \in delayed : ShareArrives(m)
  \/ \E d \in DeleteRequests, n \in SecretNames : BeginDelete(d, n)
  \/ \E d \in DeleteRequests : DeleteShare(d) \/ DeleteRow(d)
  \/ \E n \in SecretNames : ReadRow(n) \/ ShareExpires(n)
  \/ ReadShare

SplitKeySpec == SplitKeyInit /\ [][SplitKeyNext]_kvars

-----------------------------------------------------------------------------
(* Where stores, deletions and answers of one name never overlapped and no   *)
(* store met a row, the two shares of a name are of one split, whatever the  *)
(* order of failures, expiries and retries.                                  *)
SharesMatch ==
  \A n \in SecretNames :
    row[n] # 0 /\ share[n] # 0 /\ Settled(n) /\ n \notin clashed => row[n] = share[n]

(* No share is left at the gateway for a name the control plane does not     *)
(* know, unless a call about that name failed or overlapped another.         *)
NoShareWithoutRow ==
  \A n \in SecretNames :
    share[n] # 0 /\ Settled(n) /\ n \notin (clashed \union leaked) => row[n] # 0

(* A request is given shares of two splits only if the row it read first has *)
(* been replaced since, or the name's stores overlapped.                     *)
ReadsAreWhole ==
  reading.pc = "both" /\ reading.one # reading.two =>
    \/ row[reading.name] # reading.one
    \/ reading.name \in clashed

(* "Store or update a secret in the vault": once storing is over, the shares *)
(* of a name make a secret.                                                  *)
StoredSecretsReassemble ==
  \A n \in SecretNames :
    row[n] # 0 /\ share[n] # 0 /\ Settled(n) => row[n] = share[n]
=============================================================================
