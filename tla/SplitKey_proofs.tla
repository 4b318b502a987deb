--------------------------- MODULE SplitKey_proofs ---------------------------
(***************************************************************************)
(* Proofs about SplitKey: for any number of secrets, requests, losses and  *)
(* delays, the shares kept under a name are of one split, none is left     *)
(* behind, and a reader gets the two of one secret.  All three need to     *)
(* know what a request in progress excludes, and that splits are never     *)
(* used twice.                                                             *)
(***************************************************************************)
EXTENDS SplitKey, TLAPS

SplitKeyTypes ==
  /\ row \in [SecretNames -> Nat]
  /\ share \in [SecretNames -> Nat]
  /\ store \in [StoreRequests ->
       {NoStore} \cup [name : SecretNames, split : Nat \ {0}, pc : {"send", "insert"}]]
  /\ deletion \in [DeleteRequests ->
       {NoDelete} \cup [name : SecretNames, pc : {"share", "row"}]]
  /\ reading \in {NoRead} \cup
       [name : SecretNames, one : Nat \ {0}, two : Nat, pc : {"one", "both"}]
  /\ delayed \subseteq [name : SecretNames, split : Nat \ {0}]
  /\ splits \in Nat

\* The requests in progress.
Stores(q)  == store[q] # NoStore
Deletes(d) == deletion[d] # NoDelete

\* A name that never clashed is stored alone, over no row; and while a share
\* may still arrive, nothing is stored.
StoresAlone ==
  \A q \in StoreRequests : Stores(q) /\ store[q].name \notin clashed =>
    LET n == store[q].name IN
    /\ row[n] = 0
    /\ \A p \in StoreRequests : Stores(p) /\ store[p].name = n => p = q
    /\ \A d \in DeleteRequests : Deletes(d) => deletion[d].name # n
    /\ \A m \in delayed : m.name # n
    /\ store[q].pc = "insert" => share[n] \in {0, store[q].split}

LateSharesFindNoRow ==
  \A m \in delayed : m.name \notin clashed => row[m.name] = 0

RowsMatch ==
  \A n \in SecretNames : row[n] # 0 /\ n \notin clashed => share[n] \in {0, row[n]}

\* Where no call failed either: a share without a row is of a request about to
\* insert it, nothing is about to arrive, and a deletion that has passed the
\* gateway left no share.
SharesAccountedFor ==
  \A n \in SecretNames \ (clashed \cup leaked) :
    /\ share[n] # 0 /\ row[n] = 0 =>
         \E q \in StoreRequests : Stores(q) /\ store[q].name = n /\ store[q].pc = "insert"
    /\ \A m \in delayed : m.name # n
    /\ \A d \in DeleteRequests :
         Deletes(d) /\ deletion[d].name = n /\ deletion[d].pc = "row" => share[n] = 0

\* A split is in one place: numbered, stored by one request, and neither in a
\* row nor with a reader before that request inserts it.
SplitsAreNew ==
  /\ \A q \in StoreRequests : Stores(q) =>
       /\ store[q].split <= splits
       /\ \A p \in StoreRequests : Stores(p) /\ store[p].split = store[q].split => p = q
       /\ \A n \in SecretNames : row[n] # store[q].split
       /\ reading.one # store[q].split
  /\ \A n \in SecretNames : row[n] <= splits
  /\ reading.one <= splits

SplitKeyInv ==
  /\ SplitKeyTypes
  /\ StoresAlone
  /\ LateSharesFindNoRow
  /\ RowsMatch
  /\ SharesAccountedFor
  /\ SplitsAreNew
  /\ ReadsAreWhole

LEMMA SplitKeyInitHolds == SplitKeyInit => SplitKeyInv
BY DEF SplitKeyInit, SplitKeyInv, SplitKeyTypes, StoresAlone, LateSharesFindNoRow, RowsMatch,
       SharesAccountedFor, SplitsAreNew, ReadsAreWhole, Stores, Deletes, NoStore, NoDelete, NoRead

\* Nothing is under way for a settled name.
LEMMA SettledFacts ==
  ASSUME NEW n \in SecretNames, Settled(n)
  PROVE  /\ \A q \in StoreRequests : store[q].name # n
         /\ \A d \in DeleteRequests : deletion[d].name # n
         /\ \A m \in delayed : m.name # n
BY DEF Settled, Storing, Deleting, Delayed

LEMMA SplitSecretStep ==
  ASSUME SplitKeyInv, NEW q \in StoreRequests, NEW n \in SecretNames, SplitSecret(q, n)
  PROVE  SplitKeyInv'
<1> DEFINE r == [name |-> n, split |-> splits + 1, pc |-> "send"]
<1> USE DEF SplitKeyInv
<1>1. /\ store' = [store EXCEPT ![q] = r] /\ store[q] = NoStore
      /\ splits' = splits + 1 /\ splits \in Nat
      /\ UNCHANGED <<row, share, deletion, reading, delayed, lost, leaked>>
  BY DEF SplitSecret, SplitKeyTypes
<1>2. clashed \subseteq clashed' /\ (n \notin clashed' => row[n] = 0 /\ Settled(n))
  BY DEF SplitSecret
<1>3. r \in [name : SecretNames, split : Nat \ {0}, pc : {"send", "insert"}]
      /\ r # NoStore /\ r.name = n /\ r.split = splits + 1 /\ r.pc = "send"
  BY <1>1 DEF NoStore
<1> HIDE DEF r
<1>4. \A p \in StoreRequests : store'[p] = IF p = q THEN r ELSE store[p]
  BY <1>1 DEF SplitKeyTypes
<1>5. SplitKeyTypes'
  BY <1>1, <1>3 DEF SplitKeyTypes
<1>6. StoresAlone'
  BY <1>1, <1>2, <1>3, <1>4, SettledFacts DEF StoresAlone, Stores, Deletes
<1>7. SplitsAreNew'
  BY <1>1, <1>3, <1>4 DEF SplitsAreNew, Stores, SplitKeyTypes, NoStore, NoRead
<1>8. SharesAccountedFor'
  BY <1>1, <1>2, <1>3, <1>4 DEF SharesAccountedFor, Stores, Deletes
<1> QED
  BY <1>1, <1>2, <1>5, <1>6, <1>7, <1>8 DEF LateSharesFindNoRow, RowsMatch, ReadsAreWhole

\* The share is taken in: the name is stored alone, or has clashed.
LEMMA SendShareStep ==
  ASSUME SplitKeyInv, NEW q \in StoreRequests, SendShare(q)
  PROVE  SplitKeyInv'
<1> DEFINE n == store[q].name
           r == [store[q] EXCEPT !.pc = "insert"]
<1> USE DEF SplitKeyInv
<1>1. /\ store[q].pc = "send" /\ store' = [store EXCEPT ![q] = r]
      /\ share' = [share EXCEPT ![n] = store[q].split]
      /\ UNCHANGED <<row, deletion, reading, delayed, splits, lost, clashed, leaked>>
  BY DEF SendShare
<1>2. /\ Stores(q) /\ n \in SecretNames /\ store[q].split \in Nat \ {0}
      /\ r \in [name : SecretNames, split : Nat \ {0}, pc : {"send", "insert"}]
      /\ r # NoStore /\ r.name = n /\ r.split = store[q].split /\ r.pc = "insert"
  BY <1>1 DEF SplitKeyTypes, Stores, NoStore
<1> HIDE DEF r
<1>3. /\ \A p \in StoreRequests : store'[p] = IF p = q THEN r ELSE store[p]
      /\ \A k \in SecretNames : share'[k] = IF k = n THEN store[q].split ELSE share[k]
  BY <1>1, <1>2 DEF SplitKeyTypes
<1>4. SplitKeyTypes'
  BY <1>1, <1>2 DEF SplitKeyTypes
<1>5. StoresAlone'
  BY <1>1, <1>2, <1>3 DEF StoresAlone, Stores, Deletes
<1>6. RowsMatch'
  BY <1>1, <1>2, <1>3 DEF RowsMatch, StoresAlone
<1>7. SharesAccountedFor'
  BY <1>1, <1>2, <1>3 DEF SharesAccountedFor, StoresAlone, Stores, Deletes
<1>8. SplitsAreNew'
  BY <1>1, <1>2, <1>3 DEF SplitsAreNew, Stores
<1> QED
  BY <1>1, <1>4, <1>5, <1>6, <1>7, <1>8 DEF LateSharesFindNoRow, ReadsAreWhole

\* A request that ends without a row: it gives up, or dies.
LEMMA GivesUp ==
  ASSUME SplitKeyInv, NEW q \in StoreRequests, Stores(q),
         store' = [store EXCEPT ![q] = NoStore],
         leaked' = leaked \cup {store[q].name},
         delayed' \in {delayed, delayed \cup {[name |-> store[q].name, split |-> store[q].split]}},
         UNCHANGED <<row, share, deletion, reading, splits, clashed>>
  PROVE  SplitKeyInv'
<1> DEFINE n == store[q].name
           m == [name |-> n, split |-> store[q].split]
<1> USE DEF SplitKeyInv
<1>1. n \in SecretNames /\ store[q].split \in Nat \ {0}
      /\ m \in [name : SecretNames, split : Nat \ {0}] /\ m.name = n
  BY DEF SplitKeyTypes, Stores, NoStore
<1> HIDE DEF m
<1>2. \A p \in StoreRequests : store'[p] = IF p = q THEN NoStore ELSE store[p]
  BY DEF SplitKeyTypes
<1>3. SplitKeyTypes'
  BY <1>1 DEF SplitKeyTypes, m
<1>4. \A l \in delayed' : l \in delayed \/ l.name = n
  BY <1>1 DEF m
<1>5. StoresAlone'
  BY <1>1, <1>2, <1>4 DEF StoresAlone, Stores, Deletes
<1>6. LateSharesFindNoRow'
  BY <1>1, <1>4 DEF LateSharesFindNoRow, StoresAlone
<1>7. SharesAccountedFor'
  BY <1>1, <1>2, <1>4 DEF SharesAccountedFor, Stores, Deletes
<1>8. SplitsAreNew'
  BY <1>2 DEF SplitsAreNew, Stores
<1> QED
  BY <1>3, <1>5, <1>6, <1>7, <1>8 DEF RowsMatch, ReadsAreWhole

LEMMA ShareArrivesStep ==
  ASSUME SplitKeyInv, NEW m \in delayed, ShareArrives(m)
  PROVE  SplitKeyInv'
<1> USE DEF SplitKeyInv
<1>1. /\ delayed' = delayed \ {m} /\ share' = [share EXCEPT ![m.name] = m.split]
      /\ UNCHANGED <<row, store, deletion, reading, splits, lost, clashed, leaked>>
  BY DEF ShareArrives
<1>2. m.name \in SecretNames /\ m.split \in Nat \ {0}
  BY DEF SplitKeyTypes
<1>3. \A k \in SecretNames : share'[k] = IF k = m.name THEN m.split ELSE share[k]
  BY <1>1 DEF SplitKeyTypes
<1>4. SplitKeyTypes'
  BY <1>1, <1>2 DEF SplitKeyTypes
<1>5. StoresAlone'
  BY <1>1, <1>2, <1>3 DEF StoresAlone, Stores, Deletes, SplitKeyTypes
<1>6. RowsMatch' /\ LateSharesFindNoRow'
  BY <1>1, <1>2, <1>3 DEF RowsMatch, LateSharesFindNoRow
<1>7. SharesAccountedFor'
  BY <1>1, <1>2, <1>3 DEF SharesAccountedFor, Stores, Deletes
<1> QED
  BY <1>1, <1>4, <1>5, <1>6, <1>7 DEF SplitsAreNew, Stores, ReadsAreWhole

LEMMA InsertRowStep ==
  ASSUME SplitKeyInv, NEW q \in StoreRequests, InsertRow(q)
  PROVE  SplitKeyInv'
<1> DEFINE n == store[q].name
<1> USE DEF SplitKeyInv
<1>1. /\ store[q].pc = "insert" /\ store' = [store EXCEPT ![q] = NoStore]
      /\ row' = [row EXCEPT ![n] = Inserted(n, store[q].split)]
      /\ UNCHANGED <<share, deletion, reading, delayed, splits, lost, clashed, leaked>>
  BY DEF InsertRow
<1>2. Stores(q) /\ n \in SecretNames /\ store[q].split \in Nat \ {0}
  BY <1>1 DEF SplitKeyTypes, Stores, NoStore
<1>3. /\ \A p \in StoreRequests : store'[p] = IF p = q THEN NoStore ELSE store[p]
      /\ \A k \in SecretNames :
           row'[k] = IF k = n /\ row[n] = 0 THEN store[q].split ELSE row[k]
  BY <1>1, <1>2 DEF SplitKeyTypes, Inserted
<1>4. SplitKeyTypes'
  BY <1>1, <1>2 DEF SplitKeyTypes, Inserted
<1>5. StoresAlone'
  BY <1>1, <1>2, <1>3 DEF StoresAlone, Stores, Deletes, SplitKeyTypes
<1>6. LateSharesFindNoRow'
  BY <1>1, <1>2, <1>3 DEF LateSharesFindNoRow, StoresAlone, SplitKeyTypes
<1>7. RowsMatch'
  BY <1>1, <1>2, <1>3 DEF RowsMatch, StoresAlone
<1>8. SharesAccountedFor'
  BY <1>1, <1>2, <1>3 DEF SharesAccountedFor, Stores, Deletes
<1>9. SplitsAreNew'
  BY <1>1, <1>2, <1>3 DEF SplitsAreNew, Stores, SplitKeyTypes
<1>10. ReadsAreWhole'
  BY <1>1, <1>2, <1>3 DEF ReadsAreWhole, SplitsAreNew, SplitKeyTypes, NoRead
<1> QED
  BY <1>4, <1>5, <1>6, <1>7, <1>8, <1>9, <1>10

LEMMA UnansweredStoreStep ==
  ASSUME SplitKeyInv, NEW q \in StoreRequests, SendFails(q) \/ StoreDies(q)
  PROVE  SplitKeyInv'
<1>1. Stores(q) /\ store' = [store EXCEPT ![q] = NoStore]
      /\ leaked' = leaked \cup {store[q].name}
      /\ delayed' \in {delayed, delayed \cup {[name |-> store[q].name, split |-> store[q].split]}}
      /\ UNCHANGED <<row, share, deletion, reading, splits, clashed>>
  BY DEF SendFails, StoreDies, NoAnswer, Stores, NoStore
<1> QED
  BY <1>1, GivesUp

\* A deletion that begins while the name is being stored counts as a clash.
LEMMA BeginDeleteStep ==
  ASSUME SplitKeyInv, NEW d \in DeleteRequests, NEW n \in SecretNames, BeginDelete(d, n)
  PROVE  SplitKeyInv'
<1> DEFINE r == [name |-> n, pc |-> "share"]
<1> USE DEF SplitKeyInv
<1>1. /\ deletion' = [deletion EXCEPT ![d] = r]
      /\ clashed \subseteq clashed'
      /\ n \notin clashed' => \A q \in StoreRequests : store[q].name # n
      /\ UNCHANGED <<row, share, store, reading, delayed, splits, lost, leaked>>
  BY DEF BeginDelete, Storing
<1>2. r \in [name : SecretNames, pc : {"share", "row"}] /\ r.name = n /\ r.pc = "share"
  OBVIOUS
<1> HIDE DEF r
<1>3. \A e \in DeleteRequests : deletion'[e] = IF e = d THEN r ELSE deletion[e]
  BY <1>1 DEF SplitKeyTypes
<1>4. SplitKeyTypes'
  BY <1>1, <1>2 DEF SplitKeyTypes
<1>5. StoresAlone'
  BY <1>1, <1>2, <1>3 DEF StoresAlone, Stores, Deletes
<1>6. SharesAccountedFor'
  BY <1>1, <1>2, <1>3 DEF SharesAccountedFor, Stores, Deletes
<1> QED
  BY <1>1, <1>4, <1>5, <1>6
     DEF LateSharesFindNoRow, RowsMatch, SplitsAreNew, Stores, ReadsAreWhole

LEMMA DeleteShareStep ==
  ASSUME SplitKeyInv, NEW d \in DeleteRequests, DeleteShare(d)
  PROVE  SplitKeyInv'
<1> DEFINE n == deletion[d].name
<1> USE DEF SplitKeyInv
<1>1. /\ deletion[d].pc = "share"
      /\ UNCHANGED <<row, store, reading, delayed, splits, clashed>>
      /\ \/ /\ share' = [share EXCEPT ![n] = 0]
            /\ deletion' = [deletion EXCEPT ![d].pc = "row"]
            /\ leaked' = leaked
         \/ /\ leaked' = leaked \cup {n}
            /\ deletion' \in {[deletion EXCEPT ![d].pc = "row"], [deletion EXCEPT ![d] = NoDelete]}
            /\ share' = share
  BY DEF DeleteShare, ShareAfterDelete, NoAnswer
<1>2. Deletes(d) /\ n \in SecretNames
  BY <1>1 DEF SplitKeyTypes, Deletes, NoDelete
<1>3. /\ \A k \in SecretNames : share'[k] \in {share[k], 0}
      /\ \A k \in SecretNames : k # n => share'[k] = share[k]
      /\ n \notin leaked' => share'[n] = 0
      /\ leaked \subseteq leaked'
      /\ \A e \in DeleteRequests : Deletes(e)' =>
           Deletes(e) /\ deletion'[e].name = deletion[e].name
           /\ (deletion'[e].pc = deletion[e].pc \/ deletion'[e].name = n)
  BY <1>1, <1>2 DEF SplitKeyTypes, Deletes
<1>4. SplitKeyTypes'
  BY <1>1, <1>2 DEF SplitKeyTypes, Deletes
<1>5. StoresAlone'
  BY <1>1, <1>3 DEF StoresAlone, Stores, SplitKeyTypes
<1>6. SharesAccountedFor'
  BY <1>1, <1>3 DEF SharesAccountedFor, Stores
<1> QED
  BY <1>1, <1>3, <1>4, <1>5, <1>6
     DEF LateSharesFindNoRow, RowsMatch, SplitsAreNew, Stores, ReadsAreWhole

LEMMA DeleteRowStep ==
  ASSUME SplitKeyInv, NEW d \in DeleteRequests, DeleteRow(d)
  PROVE  SplitKeyInv'
<1> DEFINE n == deletion[d].name
<1> USE DEF SplitKeyInv
<1>1. /\ deletion[d].pc = "row" /\ row' = [row EXCEPT ![n] = 0]
      /\ deletion' = [deletion EXCEPT ![d] = NoDelete]
      /\ UNCHANGED <<share, store, reading, delayed, splits, lost, clashed, leaked>>
  BY DEF DeleteRow
<1>2. Deletes(d) /\ n \in SecretNames
  BY <1>1 DEF SplitKeyTypes, Deletes, NoDelete
<1>3. /\ \A k \in SecretNames : row'[k] = IF k = n THEN 0 ELSE row[k]
      /\ \A e \in DeleteRequests : deletion'[e] = IF e = d THEN NoDelete ELSE deletion[e]
  BY <1>1, <1>2 DEF SplitKeyTypes
<1>4. SplitKeyTypes'
  BY <1>1, <1>2 DEF SplitKeyTypes
<1>5. StoresAlone'
  BY <1>1, <1>3 DEF StoresAlone, Stores, Deletes, SplitKeyTypes
<1>6. SharesAccountedFor'
  BY <1>1, <1>2, <1>3 DEF SharesAccountedFor, Stores, Deletes
<1>7. SplitsAreNew'
  BY <1>1, <1>3 DEF SplitsAreNew, Stores, SplitKeyTypes
<1>8. ReadsAreWhole'
  BY <1>1, <1>3 DEF ReadsAreWhole, SplitKeyTypes, NoRead
<1> QED
  BY <1>1, <1>3, <1>4, <1>5, <1>6, <1>7, <1>8 DEF LateSharesFindNoRow, RowsMatch

LEMMA ReadingStep ==
  ASSUME SplitKeyInv, (\E n \in SecretNames : ReadRow(n)) \/ ReadShare
  PROVE  SplitKeyInv'
<1> USE DEF SplitKeyInv
<1>1. UNCHANGED <<row, share, store, deletion, delayed, splits, lost, clashed, leaked>>
  BY DEF ReadRow, ReadShare
<1>2. CASE reading' = NoRead
  <2>1. SplitKeyTypes'
    BY <1>1, <1>2 DEF SplitKeyTypes
  <2>2. reading'.one = 0 /\ reading'.pc = "idle"
    BY <1>2 DEF NoRead
  <2>3. SplitsAreNew' /\ ReadsAreWhole'
    BY <1>1, <2>2 DEF SplitsAreNew, SplitKeyTypes, Stores, NoStore, ReadsAreWhole
  <2> QED
    BY <1>1, <2>1, <2>3
       DEF StoresAlone, LateSharesFindNoRow, RowsMatch, SharesAccountedFor, Stores, Deletes
<1>3. CASE \E n \in SecretNames :
             row[n] # 0 /\ reading' = [name |-> n, one |-> row[n], two |-> 0, pc |-> "one"]
  <2>1. PICK n \in SecretNames :
          row[n] # 0 /\ reading' = [name |-> n, one |-> row[n], two |-> 0, pc |-> "one"]
    BY <1>3
  <2>2. SplitKeyTypes'
    BY <1>1, <2>1 DEF SplitKeyTypes
  <2>3. SplitsAreNew' /\ ReadsAreWhole'
    BY <1>1, <2>1 DEF SplitsAreNew, Stores, ReadsAreWhole
  <2> QED
    BY <1>1, <2>2, <2>3
       DEF StoresAlone, LateSharesFindNoRow, RowsMatch, SharesAccountedFor, Stores, Deletes
<1>4. CASE /\ reading.pc = "one" /\ share[reading.name] # 0
           /\ reading' = [reading EXCEPT !.two = share[reading.name], !.pc = "both"]
  <2>1. /\ reading.name \in SecretNames /\ reading.one \in Nat \ {0}
        /\ share[reading.name] \in Nat
        /\ reading' = [name |-> reading.name, one |-> reading.one,
                       two |-> share[reading.name], pc |-> "both"]
    <3>1. reading \in [name : SecretNames, one : Nat \ {0}, two : Nat, pc : {"one", "both"}]
      BY <1>4 DEF SplitKeyTypes, NoRead
    <3>2. share[reading.name] \in Nat
      BY <3>1 DEF SplitKeyTypes
    <3> QED
      BY <1>4, <3>1, <3>2
  <2>2. SplitKeyTypes'
    BY <1>1, <2>1 DEF SplitKeyTypes
  <2>3. SplitsAreNew'
    BY <1>1, <2>1 DEF SplitsAreNew, Stores
  <2>4. ReadsAreWhole'
    BY <1>1, <1>4, <2>1 DEF RowsMatch, ReadsAreWhole
  <2> QED
    BY <1>1, <2>2, <2>3, <2>4
       DEF StoresAlone, LateSharesFindNoRow, RowsMatch, SharesAccountedFor, Stores, Deletes
<1> QED
  BY <1>2, <1>3, <1>4 DEF ReadRow, ReadShare

LEMMA ShareExpiresStep ==
  ASSUME SplitKeyInv, NEW n \in SecretNames, ShareExpires(n)
  PROVE  SplitKeyInv'
<1> USE DEF SplitKeyInv
<1>1. /\ share' = [share EXCEPT ![n] = 0]
      /\ UNCHANGED <<row, store, deletion, reading, delayed, splits, lost, clashed, leaked>>
  BY DEF ShareExpires
<1>2. \A k \in SecretNames : share'[k] = IF k = n THEN 0 ELSE share[k]
  BY <1>1 DEF SplitKeyTypes
<1>3. SplitKeyTypes'
  BY <1>1 DEF SplitKeyTypes
<1>4. StoresAlone' /\ SharesAccountedFor'
  BY <1>1, <1>2 DEF StoresAlone, SharesAccountedFor, Stores, Deletes, SplitKeyTypes
<1> QED
  BY <1>1, <1>2, <1>3, <1>4
     DEF LateSharesFindNoRow, RowsMatch, SplitsAreNew, Stores, ReadsAreWhole

LEMMA SplitKeyStep == SplitKeyInv /\ [SplitKeyNext]_kvars => SplitKeyInv'
<1> SUFFICES ASSUME SplitKeyInv, [SplitKeyNext]_kvars PROVE SplitKeyInv'
  OBVIOUS
<1>1. CASE \E q \in StoreRequests, n \in SecretNames : SplitSecret(q, n)
  BY <1>1, SplitSecretStep
<1>2. CASE \E q \in StoreRequests : SendShare(q) \/ SendFails(q) \/ InsertRow(q) \/ StoreDies(q)
  BY <1>2, SendShareStep, UnansweredStoreStep, InsertRowStep
<1>3. CASE \E m \in delayed : ShareArrives(m)
  BY <1>3, ShareArrivesStep
<1>4. CASE \E d \in DeleteRequests, n \in SecretNames : BeginDelete(d, n)
  BY <1>4, BeginDeleteStep
<1>5. CASE \E d \in DeleteRequests : DeleteShare(d) \/ DeleteRow(d)
  BY <1>5, DeleteShareStep, DeleteRowStep
<1>6. CASE \E n \in SecretNames : ReadRow(n) \/ ShareExpires(n)
  BY <1>6, ReadingStep, ShareExpiresStep
<1>7. CASE ReadShare
  BY <1>7, ReadingStep
<1>8. CASE UNCHANGED kvars
  BY <1>8 DEF kvars, SplitKeyInv, SplitKeyTypes, StoresAlone, LateSharesFindNoRow, RowsMatch,
     SharesAccountedFor, SplitsAreNew, ReadsAreWhole, Stores, Deletes
<1> QED
  BY <1>1, <1>2, <1>3, <1>4, <1>5, <1>6, <1>7, <1>8 DEF SplitKeyNext

(* What holds of stored secrets in every reachable state: what a request in  *)
(* progress excludes, and that a split is never used twice.                  *)
THEOREM SplitKeyInvariance == SplitKeySpec => []SplitKeyInv
  BY SplitKeyInitHolds, SplitKeyStep, PTL DEF SplitKeySpec

(* A stored secret whose requests never overlapped makes a whole: the shares *)
(* the control plane and the gateway keep of it are of one split, whatever   *)
(* calls between the two were lost or came late.                             *)
THEOREM SharesOfOneSplit == SplitKeySpec => []SharesMatch
<1>1. SplitKeyInv => SharesMatch
  BY DEF SplitKeyInv, RowsMatch, SharesMatch
<1> QED
  BY <1>1, SplitKeyInvariance, PTL

(* The gateway keeps no share of a name the control plane has no row for,    *)
(* once nothing is under way and if no call about that name failed.          *)
THEOREM NoShareLeftBehind == SplitKeySpec => []NoShareWithoutRow
<1>1. SplitKeyInv => NoShareWithoutRow
  BY SettledFacts DEF SplitKeyInv, SharesAccountedFor, NoShareWithoutRow
<1> QED
  BY <1>1, SplitKeyInvariance, PTL

(* A request that reads the row and then the gateway's share gets the two of *)
(* one secret, unless the row was replaced in between.                       *)
THEOREM ReadersGetOneSecret == SplitKeySpec => []ReadsAreWhole
<1>1. SplitKeyInv => ReadsAreWhole
  BY DEF SplitKeyInv
<1> QED
  BY <1>1, SplitKeyInvariance, PTL
=============================================================================
