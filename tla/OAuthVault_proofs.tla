-------------------------- MODULE OAuthVault_proofs --------------------------
(***************************************************************************)
(* Proofs about OAuthVault, for any number of services, requests, tokens   *)
(* and restarts.                                                           *)
(***************************************************************************)
EXTENDS OAuthVault, TLAPS

PendingStates == {NoState} \cup [svc : Services, life : {"live", "stale", "spent"}]
BusyWriters ==
  [kind : {"callback", "connect"}, svc : Services, st : Nat,
   pc : {"exchanging", "read", "delete", "store", "link"}, had : BOOLEAN,
   old : {0} \cup Refs, new : {0} \cup Refs]
Calls ==
  [kind : {"idle", "forced", "due", "sweep"}, ref : {0} \cup Refs, rt : Nat,
   phase : {"idle", "asked", "answered"}, new : Nat, todo : SUBSET Refs]

\* Whether a request has stored the token it is to link.
HasToken(w) == w.pc = "link" \/ w.kind = "connect"

VaultTypes ==
  /\ rotates \in [Services -> BOOLEAN]
  /\ writer \in [Writers -> {NoWriter} \cup BusyWriters]
  /\ conn \in [Services -> {NoConn} \cup Conn]
  /\ vault \in [Refs -> {NoRow} \cup Row]
  /\ issued \in 0..MaxRefs
  /\ owner \in [Refs -> Services \cup {"none"}]
  /\ current \in [Refs -> Nat]
  /\ call \in [Requests -> Calls]
  /\ lost \subseteq 1..issued /\ scheduled \subseteq 1..issued /\ posts \subseteq 1..issued
  /\ \A r \in Refs : IF r > issued THEN vault[r] = NoRow ELSE owner[r] \in Services
  /\ \A q \in Requests : call[q].phase # "idle" => call[q].ref \in 1..issued
  /\ \A w \in Writers : HasToken(writer[w]) <=> writer[w].new # 0

Answered(q, r) == call[q].phase = "answered" /\ call[q].ref = r
AskedWith(q, r, rt) == call[q].phase = "asked" /\ call[q].ref = r /\ call[q].rt = rt

\* Where the provider rotates, nobody has a newer token than the one it accepts,
\* and while an answer with that one is on its way, nobody else has it.
RotatedInOrder(r) ==
  /\ Stored(r) => vault[r].rt <= current[r]
  /\ \A q \in Requests : call[q].phase = "asked" /\ call[q].ref = r => call[q].rt <= current[r]
  /\ \A q \in Requests : Answered(q, r) =>
       /\ call[q].new = current[r] /\ current[r] # 0
       /\ Stored(r) => vault[r].rt < current[r]
       /\ \A p \in Requests \ {q} : ~Answered(p, r) /\ ~AskedWith(p, r, current[r])
  /\ Stored(r) /\ vault[r].rt # 0 =>
       vault[r].rt = current[r] \/ \E q \in Requests : Answered(q, r)

\* Where it does not rotate, there is one token.
OneToken(r) ==
  /\ Stored(r) => vault[r].rt = current[r]
  /\ \A q \in Requests : Answered(q, r) => call[q].new = 0

TokensInOrder ==
  \A r \in (1..issued) \ lost : IF rotates[owner[r]] THEN RotatedInOrder(r) ELSE OneToken(r)

\* A token that is being connected is in the vault, and in nobody else's hands.
NewTokensApart ==
  \A w \in Writers :
    writer[w].new # 0 =>
      /\ writer[w].new <= issued /\ Stored(writer[w].new)
      /\ owner[writer[w].new] = writer[w].svc
      /\ \A s \in Services : conn[s].ref # writer[w].new
      /\ \A v \in Writers : /\ writer[v].old # writer[w].new
                            /\ writer[v].new = writer[w].new => v = w

\* What a connection has, and what a request replaces, is of that service.
RefsOfServices ==
  /\ \A s \in Services : conn[s].ref # 0 => conn[s].ref <= issued /\ owner[conn[s].ref] = s
  /\ \A w \in Writers :
       /\ writer[w].old # 0 =>
            writer[w].old <= issued /\ owner[writer[w].old] = writer[w].svc
       /\ writer[w].pc \in {"delete", "store", "link"} /\ ~writer[w].had => writer[w].old = 0

LinksInOrder == NewTokensApart /\ RefsOfServices /\ ActiveConnectionHasToken

\* The provider was asked under a state that is spent.
StatesInOrder ==
  /\ pending \in [States -> PendingStates]
  /\ redeemed \in [States -> {0, 1}]
  /\ \A x \in States : redeemed[x] = 1 => pending[x].life = "spent"

USE VaultBounds, SweeperAssumption DEF Refs, States, marks

-----------------------------------------------------------------------------
(* Types. *)

LEMMA RowFacts ==
  ASSUME VaultTypes, NEW r \in Refs
  PROVE  /\ vault[r].rt \in Nat /\ current[r] \in Nat
         /\ Stored(r) => vault[r] \in Row /\ r \in 1..issued
         /\ r \in 1..issued => owner[r] \in Services
         /\ vault[r].age # "none" => Stored(r)
         /\ vault[r].rt # 0 => Stored(r)
BY DEF VaultTypes, Stored, Row, NoRow

LEMMA ConnFacts ==
  ASSUME VaultTypes, NEW s \in Services
  PROVE  /\ conn[s] # NoConn <=> conn[s].ref # 0
         /\ conn[s] # NoConn => conn[s] \in Conn
         /\ conn[s].ref \in {0} \cup Refs
         /\ Connected(s) => conn[s].ref \in Refs
BY DEF VaultTypes, Conn, NoConn, Connected

LEMMA WriterFacts ==
  ASSUME VaultTypes, NEW w \in Writers
  PROVE  /\ writer[w].pc # "idle" <=> writer[w] \in BusyWriters
         /\ writer[w] = NoWriter \/ writer[w] \in BusyWriters
         /\ writer[w].old \in {0} \cup Refs /\ writer[w].new \in {0} \cup Refs
         /\ writer[w] \in BusyWriters => writer[w].svc \in Services
         /\ writer[w] \in BusyWriters => writer[w].kind \in {"callback", "connect"}
         /\ HasToken(writer[w]) <=> writer[w].new # 0
BY DEF VaultTypes, BusyWriters, NoWriter

LEMMA CallFacts ==
  ASSUME VaultTypes, NEW q \in Requests
  PROVE  /\ call[q] \in Calls
         /\ call[q].phase # "idle" => call[q].ref \in 1..issued /\ call[q].ref \in Refs
         /\ call[q].rt \in Nat /\ call[q].new \in Nat /\ call[q].todo \in SUBSET Refs
BY DEF VaultTypes, Calls

\* A request whose refresh is over.
LEMMA AfterCallFacts ==
  ASSUME VaultTypes, NEW q \in Requests
  PROVE  AfterCall(q) \in Calls /\ AfterCall(q).phase = "idle"
<1>1. call[q].todo \in SUBSET Refs
  BY CallFacts
<1>2. NoCall \in Calls /\ NoCall.phase = "idle"
  BY DEF NoCall, Calls
<1>3. /\ [NoCall EXCEPT !.kind = "sweep", !.todo = call[q].todo] \in Calls
      /\ [NoCall EXCEPT !.kind = "sweep", !.todo = call[q].todo].phase = "idle"
  BY <1>1 DEF NoCall, Calls
<1> QED
  BY <1>2, <1>3 DEF AfterCall

\* A request that asks the provider.
LEMMA AskFacts ==
  ASSUME VaultTypes, NEW q \in Requests, NEW kind \in {"forced", "due", "sweep"},
         NEW r \in 1..issued, NEW todo \in SUBSET Refs, Ask(q, kind, r, todo)
  PROVE  /\ call' \in [Requests -> Calls]
         /\ \A p \in Requests \ {q} : call'[p] = call[p]
         /\ call'[q].phase = "asked" /\ call'[q].ref = r /\ call'[q].rt = vault[r].rt
<1> DEFINE c == [kind |-> kind, ref |-> r, rt |-> vault[r].rt, phase |-> "asked", new |-> 0,
                 todo |-> todo]
<1>1. r \in Refs /\ vault[r].rt \in Nat
  BY RowFacts DEF VaultTypes
<1>2. c \in Calls /\ c.phase = "asked" /\ c.ref = r /\ c.rt = vault[r].rt
  BY <1>1 DEF Calls
<1> HIDE DEF c
<1>3. call' = [call EXCEPT ![q] = c]
  BY DEF Ask, c
<1> QED
  BY <1>2, <1>3 DEF VaultTypes

\* A step that makes one call c, whose phase is idle, of a request.
LEMMA CallEnds ==
  ASSUME VaultTypes, NEW q \in Requests, NEW c \in Calls, c.phase = "idle",
         call' = [call EXCEPT ![q] = c]
  PROVE  /\ call' \in [Requests -> Calls]
         /\ \A p \in Requests \ {q} : call'[p] = call[p]
         /\ call'[q].phase = "idle"
BY DEF VaultTypes

LEMMA WriterChanges ==
  ASSUME VaultTypes, NEW w \in Writers, NEW v \in {NoWriter} \cup BusyWriters,
         writer' = [writer EXCEPT ![w] = v]
  PROVE  /\ writer' \in [Writers -> {NoWriter} \cup BusyWriters]
         /\ writer'[w] = v
         /\ \A u \in Writers \ {w} : writer'[u] = writer[u]
BY DEF VaultTypes

-----------------------------------------------------------------------------
(* What each step of a request that stores a token makes of it. *)

LEMMA CallbackBeginsShape ==
  ASSUME VaultTypes, NEW w \in Writers, NEW x \in States, NEW s \in Services,
         CallbackBegins(w, x, s)
  PROVE  /\ writer' \in [Writers -> {NoWriter} \cup BusyWriters]
         /\ \A u \in Writers \ {w} : writer'[u] = writer[u]
         /\ \/ writer'[w] = writer[w]
            \/ /\ writer'[w] \in BusyWriters /\ writer'[w].pc = "exchanging"
               /\ writer'[w].kind = "callback" /\ writer'[w].old = 0 /\ writer'[w].new = 0
<1> DEFINE v == [NoWriter EXCEPT !.kind = "callback", !.svc = s, !.st = x, !.pc = "exchanging"]
<1>1. x \in Nat
  OBVIOUS
<1>2. /\ v \in BusyWriters /\ v.pc = "exchanging" /\ v.kind = "callback"
      /\ v.old = 0 /\ v.new = 0
  BY <1>1 DEF NoWriter, BusyWriters
<1> HIDE DEF v
<1>3. writer' = writer \/ writer' = [writer EXCEPT ![w] = v]
  BY DEF CallbackBegins, v
<1> QED
  BY <1>2, <1>3, WriterChanges DEF VaultTypes

LEMMA ReadsShape ==
  ASSUME VaultTypes, NEW w \in Writers, CallbackReads(w) \/ ConnectReads(w)
  PROVE  /\ writer' \in [Writers -> {NoWriter} \cup BusyWriters]
         /\ \A u \in Writers \ {w} : writer'[u] = writer[u]
         /\ writer[w] \in BusyWriters /\ writer[w].pc \in {"exchanging", "read"}
         /\ writer'[w] \in BusyWriters /\ writer'[w].pc = "delete"
         /\ writer'[w].kind = writer[w].kind /\ writer'[w].svc = writer[w].svc
         /\ writer'[w].new = writer[w].new
         /\ writer'[w].old = conn[writer[w].svc].ref
         /\ writer'[w].had = (conn[writer[w].svc] # NoConn)
<1> DEFINE s == writer[w].svc
           had == conn[s] # NoConn
           old == conn[s].ref
           v == [writer[w] EXCEPT !.had = had, !.old = old, !.pc = "delete"]
<1>1. writer[w] \in BusyWriters /\ writer[w].pc \in {"exchanging", "read"} /\ s \in Services
  BY WriterFacts DEF CallbackReads, ConnectReads
<1>2. had \in BOOLEAN /\ old \in {0} \cup Refs
  BY <1>1, ConnFacts
<1>3. writer' = [writer EXCEPT ![w] = v]
  BY DEF CallbackReads, ConnectReads, ReadsConnection
<1> HIDE DEF had, old, s
<1>4. /\ v \in BusyWriters /\ v.pc = "delete" /\ v.kind = writer[w].kind
      /\ v.svc = writer[w].svc /\ v.new = writer[w].new /\ v.old = old /\ v.had = had
  BY <1>1, <1>2 DEF BusyWriters
<1> HIDE DEF v
<1>5. /\ writer' \in [Writers -> {NoWriter} \cup BusyWriters]
      /\ \A u \in Writers \ {w} : writer'[u] = writer[u]
      /\ writer'[w] = v
  BY <1>3, <1>4, WriterChanges
<1> QED
  BY <1>1, <1>4, <1>5 DEF had, old, s

LEMMA DeletesOldShape ==
  ASSUME VaultTypes, NEW w \in Writers, DeletesOld(w)
  PROVE  /\ writer' \in [Writers -> {NoWriter} \cup BusyWriters]
         /\ \A u \in Writers \ {w} : writer'[u] = writer[u]
         /\ writer[w] \in BusyWriters /\ writer[w].pc = "delete"
         /\ writer'[w] \in BusyWriters
         /\ writer'[w].pc = IF writer[w].kind = "callback" THEN "store" ELSE "link"
         /\ writer'[w].kind = writer[w].kind /\ writer'[w].svc = writer[w].svc
         /\ writer'[w].new = writer[w].new /\ writer'[w].old = writer[w].old
         /\ writer'[w].had = writer[w].had
         /\ vault' \in [Refs -> {NoRow} \cup Row]
         /\ \A r \in Refs : vault'[r] = IF r = writer[w].old THEN NoRow ELSE vault[r]
         /\ scheduled' \subseteq scheduled
<1> DEFINE pc == IF writer[w].kind = "callback" THEN "store" ELSE "link"
           v == [writer[w] EXCEPT !.pc = pc]
           r == writer[w].old
<1>1. writer[w] \in BusyWriters /\ writer[w].pc = "delete" /\ r \in {0} \cup Refs
  BY WriterFacts DEF DeletesOld
<1>2. writer' = [writer EXCEPT ![w] = v]
  BY DEF DeletesOld
<1>3. /\ v \in BusyWriters /\ v.pc = pc /\ v.kind = writer[w].kind /\ v.svc = writer[w].svc
      /\ v.new = writer[w].new /\ v.old = r /\ v.had = writer[w].had
  BY <1>1 DEF BusyWriters
<1> HIDE DEF v
<1>4. /\ writer' \in [Writers -> {NoWriter} \cup BusyWriters]
      /\ \A u \in Writers \ {w} : writer'[u] = writer[u]
      /\ writer'[w] = v
  BY <1>2, <1>3, WriterChanges
<1>5. DeleteRow(r)
  BY DEF DeletesOld
<1>6. /\ vault' \in [Refs -> {NoRow} \cup Row]
      /\ \A i \in Refs : vault'[i] = IF i = r THEN NoRow ELSE vault[i]
      /\ scheduled' \subseteq scheduled
  <2>1. CASE r # 0 /\ Stored(r)
    BY <1>1, <1>5, <2>1 DEF DeleteRow, VaultTypes
  <2>2. CASE ~(r # 0 /\ Stored(r))
    BY <1>1, <1>5, <2>2 DEF DeleteRow, VaultTypes, Stored
  <2> QED
    BY <2>1, <2>2
<1> QED
  BY <1>1, <1>3, <1>4, <1>6

\* A new row of a service, under the next reference.
LEMMA StoresRowShape ==
  ASSUME VaultTypes, NEW s \in Services, NEW row \in Row, StoresRow(s, row)
  PROVE  /\ issued + 1 \in Refs /\ issued' = issued + 1 /\ conn' = conn
         /\ vault' \in [Refs -> {NoRow} \cup Row]
         /\ owner' \in [Refs -> Services \cup {"none"}]
         /\ current' \in [Refs -> Nat]
         /\ \A r \in Refs : vault'[r] = IF r = issued + 1 THEN row ELSE vault[r]
         /\ \A r \in Refs : owner'[r] = IF r = issued + 1 THEN s ELSE owner[r]
         /\ \A r \in Refs : current'[r] = IF r = issued + 1 THEN row.rt ELSE current[r]
         /\ \A r \in Refs : Stored(r)' <=> Stored(r) \/ r = issued + 1
<1>1. row.rt \in Nat /\ row # NoRow
  BY DEF Row, NoRow, Ages
<1>2. issued \in Nat /\ issued + 1 \in Refs
  BY DEF VaultTypes, StoresRow
<1>3. /\ \A r \in Refs : vault'[r] = IF r = issued + 1 THEN row ELSE vault[r]
      /\ issued' = issued + 1 /\ conn' = conn
      /\ vault' \in [Refs -> {NoRow} \cup Row]
      /\ owner' \in [Refs -> Services \cup {"none"}]
      /\ current' \in [Refs -> Nat]
      /\ \A r \in Refs : owner'[r] = IF r = issued + 1 THEN s ELSE owner[r]
      /\ \A r \in Refs : current'[r] = IF r = issued + 1 THEN row.rt ELSE current[r]
  BY <1>1, <1>2 DEF VaultTypes, StoresRow
<1> QED
  BY <1>1, <1>2, <1>3 DEF Stored

LEMMA GrantFacts ==
  ASSUME NEW g \in Grants
  PROVE  /\ g \in Row /\ [g EXCEPT !.age = "never"] \in Row
         /\ g.rt \in {0, 1} /\ g.age \in {"fresh", "never"}
BY GrantsAssumption DEF Row, Ages

LEMMA CallbackStoresShape ==
  ASSUME VaultTypes, NEW w \in Writers, NEW g \in Grants, CallbackStores(w, g)
  PROVE  /\ writer' \in [Writers -> {NoWriter} \cup BusyWriters]
         /\ \A u \in Writers \ {w} : writer'[u] = writer[u]
         /\ writer[w] \in BusyWriters /\ writer[w].pc = "store"
         /\ writer'[w] \in BusyWriters /\ writer'[w].pc = "link"
         /\ writer'[w].kind = writer[w].kind /\ writer'[w].svc = writer[w].svc
         /\ writer'[w].new = issued + 1 /\ writer'[w].old = writer[w].old
         /\ writer'[w].had = writer[w].had
         /\ StoresRow(writer[w].svc, g) /\ g \in Row
         /\ scheduled' \subseteq scheduled \cup {issued + 1}
<1> DEFINE v == [writer[w] EXCEPT !.new = issued + 1, !.pc = "link"]
<1>1. writer[w] \in BusyWriters /\ writer[w].pc = "store" /\ writer[w].svc \in Services
  BY WriterFacts DEF CallbackStores
<1>2. StoresRow(writer[w].svc, g) /\ g \in Row
  BY GrantFacts DEF CallbackStores
<1>3. issued + 1 \in Refs
  BY <1>1, <1>2, StoresRowShape
<1>4. writer' = [writer EXCEPT ![w] = v]
  BY DEF CallbackStores
<1>5. /\ v \in BusyWriters /\ v.pc = "link" /\ v.kind = writer[w].kind /\ v.svc = writer[w].svc
      /\ v.new = issued + 1 /\ v.old = writer[w].old /\ v.had = writer[w].had
  BY <1>1, <1>3 DEF BusyWriters
<1> HIDE DEF v
<1>6. /\ writer' \in [Writers -> {NoWriter} \cup BusyWriters]
      /\ \A u \in Writers \ {w} : writer'[u] = writer[u]
      /\ writer'[w] = v
  BY <1>4, <1>5, WriterChanges
<1>7. scheduled' \subseteq scheduled \cup {issued + 1}
  BY DEF CallbackStores, Schedule
<1> QED
  BY <1>1, <1>2, <1>5, <1>6, <1>7

LEMMA ConnectBeginsShape ==
  ASSUME VaultTypes, NEW w \in Writers, NEW s \in Services, NEW g \in Grants,
         ConnectBegins(w, s, g)
  PROVE  /\ writer' \in [Writers -> {NoWriter} \cup BusyWriters]
         /\ \A u \in Writers \ {w} : writer'[u] = writer[u]
         /\ writer[w] = NoWriter
         /\ writer'[w] \in BusyWriters /\ writer'[w].pc = "read"
         /\ writer'[w].kind = "connect" /\ writer'[w].svc = s
         /\ writer'[w].new = issued + 1 /\ writer'[w].old = 0
         /\ \E row \in Row : StoresRow(s, row)
<1> DEFINE v == [NoWriter EXCEPT !.kind = "connect", !.svc = s, !.pc = "read", !.new = issued + 1]
           row == [g EXCEPT !.age = "never"]
<1>1. writer[w] = NoWriter
  BY DEF ConnectBegins
<1>2. StoresRow(s, row) /\ row \in Row
  BY GrantFacts DEF ConnectBegins
<1> HIDE DEF row
<1>3. issued + 1 \in Refs
  BY <1>2, StoresRowShape
<1>4. writer' = [writer EXCEPT ![w] = v]
  BY DEF ConnectBegins
<1>5. /\ v \in BusyWriters /\ v.pc = "read" /\ v.kind = "connect" /\ v.svc = s
      /\ v.new = issued + 1 /\ v.old = 0
  BY <1>3 DEF BusyWriters, NoWriter
<1> HIDE DEF v
<1>6. /\ writer' \in [Writers -> {NoWriter} \cup BusyWriters]
      /\ \A u \in Writers \ {w} : writer'[u] = writer[u]
      /\ writer'[w] = v
  BY <1>4, <1>5, WriterChanges
<1> QED
  BY <1>1, <1>2, <1>5, <1>6

LEMMA LinksShape ==
  ASSUME VaultTypes, NEW w \in Writers, Links(w)
  PROVE  /\ writer' \in [Writers -> {NoWriter} \cup BusyWriters]
         /\ \A u \in Writers \ {w} : writer'[u] = writer[u]
         /\ writer[w] \in BusyWriters /\ writer[w].pc = "link" /\ writer'[w] = NoWriter
         /\ IF writer[w].had \/ conn[writer[w].svc] = NoConn
              THEN /\ conn' = [conn EXCEPT ![writer[w].svc] = [ref |-> writer[w].new, active |-> TRUE]]
                   /\ torn' = torn \ {writer[w].svc}
              ELSE conn' = conn /\ torn' = torn
BY WriterFacts, WriterChanges DEF Links

-----------------------------------------------------------------------------
(* What the steps of refreshing do. *)

LEMMA AgeTokenShape ==
  ASSUME VaultTypes, NEW r \in Refs, AgeToken(r)
  PROVE  /\ vault' \in [Refs -> {NoRow} \cup Row]
         /\ \A i \in Refs : vault'[i].rt = vault[i].rt /\ (Stored(i)' <=> Stored(i))
         /\ \A i \in Refs : ~Stored(i) => vault'[i] = NoRow
<1> DEFINE age == Older(vault[r].age)
           row == [vault[r] EXCEPT !.age = age]
<1>1. vault[r].age \in {"fresh", "due", "expired"} /\ vault[r] \in Row /\ Stored(r)
  BY RowFacts DEF AgeToken
<1>2. age \in Ages
  BY <1>1 DEF Older, Ages
<1>3. vault' = [vault EXCEPT ![r] = row]
  BY DEF AgeToken
<1> HIDE DEF age
<1>4. row \in Row /\ row.rt = vault[r].rt
  BY <1>1, <1>2 DEF Row
<1>5. row # NoRow
  BY <1>4 DEF Row, NoRow, Ages
<1> HIDE DEF row
<1> QED
  BY <1>1, <1>3, <1>4, <1>5 DEF VaultTypes, Stored

LEMMA ProviderAnswersShape ==
  ASSUME VaultTypes, NEW q \in Requests, ProviderAnswers(q)
  PROVE  LET r == call[q].ref IN
         /\ r \in 1..issued /\ r \in Refs
         /\ call[q].phase = "asked" /\ call[q].rt = current[r]
         /\ current' \in [Refs -> Nat]
         /\ \A i \in Refs : current'[i] =
              IF i = r /\ rotates[owner[r]] THEN current[r] + 1 ELSE current[i]
         /\ call' \in [Requests -> Calls]
         /\ \A p \in Requests \ {q} : call'[p] = call[p]
         /\ call'[q].phase = "answered" /\ call'[q].ref = r
         /\ call'[q].new = IF rotates[owner[r]] THEN current[r] + 1 ELSE 0
<1> DEFINE r == call[q].ref
           new == IF rotates[owner[r]] THEN current'[r] ELSE 0
           c == [call[q] EXCEPT !.phase = "answered", !.new = new]
<1>1. call[q].phase = "asked" /\ call[q].rt = current[r]
  BY DEF ProviderAnswers, Accepts
<1>2. r \in 1..issued /\ r \in Refs /\ call[q] \in Calls
  BY <1>1, CallFacts
<1>3. /\ current' \in [Refs -> Nat]
      /\ \A i \in Refs : current'[i] =
           IF i = r /\ rotates[owner[r]] THEN current[r] + 1 ELSE current[i]
  BY <1>2 DEF ProviderAnswers, Rotated, VaultTypes
<1>4. new \in Nat /\ new = IF rotates[owner[r]] THEN current[r] + 1 ELSE 0
  BY <1>2, <1>3
<1>5. call' = [call EXCEPT ![q] = c]
  BY DEF ProviderAnswers
<1> HIDE DEF new
<1>6. c \in Calls /\ c.phase = "answered" /\ c.ref = r /\ c.new = new
  BY <1>2, <1>4 DEF Calls
<1> HIDE DEF c
<1> QED
  BY <1>1, <1>2, <1>3, <1>4, <1>5, <1>6 DEF VaultTypes

LEMMA StoreRefreshShape ==
  ASSUME VaultTypes, NEW q \in Requests, NEW dated \in BOOLEAN, StoreRefresh(q, dated)
  PROVE  LET r == call[q].ref IN
         /\ r \in 1..issued /\ r \in Refs
         /\ call[q].phase = "answered"
         /\ vault' \in [Refs -> {NoRow} \cup Row]
         /\ \A i \in Refs : vault'[i].rt =
              IF i = r /\ Stored(r) /\ call[q].new # 0 THEN call[q].new ELSE vault[i].rt
         /\ \A i \in Refs : Stored(i)' <=> Stored(i)
         /\ \A i \in Refs : ~Stored(i) => vault'[i] = NoRow
         /\ scheduled' \subseteq scheduled \cup {r}
         /\ call' \in [Requests -> Calls]
         /\ \A p \in Requests \ {q} : call'[p] = call[p]
         /\ call'[q].phase = "idle"
<1> DEFINE r == call[q].ref
           row == RefreshedRow(vault[r], call[q].new, dated)
<1>1. call[q].phase = "answered" /\ call' = [call EXCEPT ![q] = AfterCall(q)]
  BY DEF StoreRefresh
<1>2. r \in 1..issued /\ r \in Refs /\ call[q].new \in Nat /\ vault[r].rt \in Nat
  BY <1>1, CallFacts, RowFacts
<1>3. /\ call' \in [Requests -> Calls]
      /\ \A p \in Requests \ {q} : call'[p] = call[p]
      /\ call'[q].phase = "idle"
  BY <1>1, AfterCallFacts, CallEnds
<1>4. /\ Stored(r) => row \in Row /\ row # NoRow
      /\ row.rt = IF call[q].new # 0 THEN call[q].new ELSE vault[r].rt
  BY <1>2, RowFacts DEF RefreshedRow, Row, NoRow, Ages
<1> HIDE DEF row
<1>5. CASE Stored(r)
  <2>1. /\ vault' = [vault EXCEPT ![r] = row]
        /\ Schedule(r) \/ scheduled' = scheduled
    BY <1>5 DEF StoreRefresh, WritesRefresh, row
  <2>2. scheduled' \subseteq scheduled \cup {r}
    BY <2>1 DEF Schedule
  <2> QED
    BY <1>1, <1>2, <1>3, <1>4, <1>5, <2>1, <2>2 DEF VaultTypes, Stored
<1>6. CASE ~Stored(r)
  <2>1. vault' = vault /\ scheduled' = scheduled
    BY <1>6 DEF StoreRefresh
  <2> QED
    BY <1>1, <1>2, <1>3, <1>6, <2>1 DEF VaultTypes, Stored
<1> QED
  BY <1>5, <1>6

LEMMA CallDropped ==
  ASSUME VaultTypes, NEW q \in Requests, call' = [call EXCEPT ![q] = AfterCall(q)]
  PROVE  /\ call' \in [Requests -> Calls]
         /\ \A p \in Requests \ {q} : call'[p] = call[p]
         /\ call'[q].phase = "idle"
BY AfterCallFacts, CallEnds

\* The steps that ask the provider.
Asked(q) ==
  /\ call' \in [Requests -> Calls]
  /\ \A p \in Requests \ {q} : call'[p] = call[p]
  /\ call[q].phase = "idle"
  /\ \/ call'[q].phase = "idle"
     \/ /\ call'[q].phase = "asked" /\ call'[q].ref \in 1..issued
        /\ Stored(call'[q].ref) /\ call'[q].rt = vault[call'[q].ref].rt
  /\ scheduled' \subseteq scheduled

LEMMA AsksShape ==
  ASSUME VaultTypes, NEW q \in Requests,
         \/ \E s \in Services : RefreshForced(q, s)
         \/ \E i \in Refs : TaskFires(q, i) \/ (SweepTakes(i) /\ q = Sweeper)
  PROVE  Asked(q)
<1> USE DEF Asked
<1>1. ASSUME NEW s \in Services, RefreshForced(q, s) PROVE Asked(q)
  <2>1. conn[s].ref \in 1..issued /\ Stored(conn[s].ref)
    BY <1>1, ConnFacts, RowFacts DEF RefreshForced, Refreshable
  <2>2. /\ Ask(q, "forced", conn[s].ref, {}) /\ scheduled' = scheduled
        /\ call[q].phase = "idle"
    BY <1>1 DEF RefreshForced, NoCall, sched
  <2> QED
    BY <2>1, <2>2, AskFacts
<1>2. ASSUME NEW i \in Refs, TaskFires(q, i) PROVE Asked(q)
  <2>1. CASE /\ Refreshable(owner[i]) /\ conn[owner[i]].ref = i
             /\ owner[i] \in Supported /\ current[i] < MaxGens
    <3>1. i \in 1..issued /\ owner[i] \in Services
      BY <1>2, RowFacts DEF TaskFires, VaultTypes
    <3>2. Stored(i)
      BY <2>1 DEF Refreshable
    <3>3. scheduled' \subseteq scheduled /\ Ask(q, "due", i, {}) /\ call[q].phase = "idle"
      BY <1>2, <2>1 DEF TaskFires, NoCall
    <3> QED
      BY <3>1, <3>2, <3>3, AskFacts
  <2>2. CASE ~(/\ Refreshable(owner[i]) /\ conn[owner[i]].ref = i
               /\ owner[i] \in Supported /\ current[i] < MaxGens)
    BY <1>2, <2>2 DEF TaskFires, NoCall, VaultTypes
  <2> QED
    BY <2>1, <2>2
<1>3. ASSUME NEW i \in Refs, SweepTakes(i), q = Sweeper PROVE Asked(q)
  <2> DEFINE rest == call[Sweeper].todo \ {i}
             c == [call[Sweeper] EXCEPT !.todo = rest]
  <2>1. /\ call[q].phase = "idle" /\ scheduled' = scheduled /\ call[q] \in Calls
        /\ rest \in SUBSET Refs
    BY <1>3, CallFacts DEF SweepTakes, sched
  <2>2. CASE Stored(i) /\ vault[i].rt # 0 /\ owner[i] \in Supported
    <3>1. i \in 1..issued /\ Ask(q, "sweep", i, rest)
      BY <1>3, <2>2, RowFacts DEF SweepTakes
    <3> HIDE DEF rest
    <3> QED
      BY <2>1, <2>2, <3>1, AskFacts
  <2>3. CASE ~(Stored(i) /\ vault[i].rt # 0 /\ owner[i] \in Supported)
    <3>1. call' = [call EXCEPT ![q] = c]
      BY <1>3, <2>3 DEF SweepTakes
    <3>2. c \in Calls /\ c.phase = "idle"
      BY <1>3, <2>1 DEF Calls
    <3> HIDE DEF c, rest
    <3> QED
      BY <2>1, <3>1, <3>2, CallEnds
  <2> QED
    BY <2>2, <2>3
<1> QED
  BY <1>1, <1>2, <1>3

\* The sweep as it begins and as it ends.
LEMMA SweepShape ==
  ASSUME VaultTypes, SweepBegins \/ SweepEnds
  PROVE  /\ call' \in [Requests -> Calls]
         /\ \A p \in Requests \ {Sweeper} : call'[p] = call[p]
         /\ call[Sweeper].phase = "idle" /\ call'[Sweeper].phase = "idle"
<1> DEFINE c == [NoCall EXCEPT !.kind = "sweep", !.todo = NeedsRefresh]
<1>1. NeedsRefresh \in SUBSET Refs
  BY DEF NeedsRefresh
<1> HIDE DEF NeedsRefresh
<1>2. c \in Calls /\ c.phase = "idle" /\ NoCall \in Calls /\ NoCall.phase = "idle"
  BY <1>1 DEF NoCall, Calls
<1>3. call[Sweeper].phase = "idle"
  BY DEF SweepBegins, SweepEnds, NoCall
<1>4. call' = [call EXCEPT ![Sweeper] = c] \/ call' = [call EXCEPT ![Sweeper] = NoCall]
  BY DEF SweepBegins, SweepEnds
<1> HIDE DEF c
<1> QED
  BY <1>2, <1>3, <1>4, CallEnds

-----------------------------------------------------------------------------
LEMMA VaultInitHolds ==
  VaultInit => VaultTypes /\ TokensInOrder /\ LinksInOrder /\ StatesInOrder
<1> SUFFICES ASSUME VaultInit
             PROVE  VaultTypes /\ TokensInOrder /\ LinksInOrder /\ StatesInOrder
  OBVIOUS
<1>1. NoCall \in Calls
  BY DEF NoCall, Calls
<1>2. VaultTypes
  BY <1>1 DEF VaultInit, VaultTypes, NoWriter, NoCall, HasToken
<1>3. LinksInOrder
  BY DEF VaultInit, LinksInOrder, NewTokensApart, RefsOfServices, ActiveConnectionHasToken,
     NoWriter, NoConn, Connected
<1> QED
  BY <1>2, <1>3 DEF VaultInit, TokensInOrder, StatesInOrder, PendingStates, NoState

\* A request that changes keeps a token in hand where it had one.
LEMMA HandsKept ==
  ASSUME VaultTypes, NEW w \in Writers, \A u \in Writers \ {w} : writer'[u] = writer[u],
         writer'[w].new # 0 <=> HasToken(writer'[w])
  PROVE  \A u \in Writers : HasToken(writer'[u]) <=> writer'[u].new # 0
BY WriterFacts

\* Steps that leave what a type is about to a few variables.
LEMMA OnlyWriters ==
  ASSUME VaultTypes, UNCHANGED <<rotates, conn, vault, issued, owner, current, lost, call, sched>>,
         writer' \in [Writers -> {NoWriter} \cup BusyWriters],
         \A w \in Writers : HasToken(writer'[w]) <=> writer'[w].new # 0
  PROVE  VaultTypes'
BY DEF VaultTypes, sched

LEMMA OnlyCalls ==
  ASSUME VaultTypes, UNCHANGED <<rotates, writer, conn, issued, owner>>,
         call' \in [Requests -> Calls],
         \A q \in Requests : call'[q].phase # "idle" => call'[q].ref \in 1..issued,
         vault' \in [Refs -> {NoRow} \cup Row],
         \A r \in Refs : ~Stored(r) => vault'[r] = NoRow,
         current' \in [Refs -> Nat],
         lost' \subseteq 1..issued, scheduled' \subseteq 1..issued, posts' \subseteq 1..issued
  PROVE  VaultTypes'
BY DEF VaultTypes, Stored

LEMMA NewRow ==
  ASSUME VaultTypes, NEW s \in Services, NEW row \in Row, StoresRow(s, row),
         UNCHANGED <<rotates, lost, call, posts>>,
         writer' \in [Writers -> {NoWriter} \cup BusyWriters],
         \A w \in Writers : HasToken(writer'[w]) <=> writer'[w].new # 0,
         scheduled' \subseteq scheduled \cup {issued + 1}
  PROVE  VaultTypes'
<1>1. /\ issued + 1 \in Refs /\ issued' = issued + 1 /\ conn' = conn
      /\ vault' \in [Refs -> {NoRow} \cup Row]
      /\ owner' \in [Refs -> Services \cup {"none"}]
      /\ current' \in [Refs -> Nat]
      /\ \A r \in Refs : vault'[r] = IF r = issued + 1 THEN row ELSE vault[r]
      /\ \A r \in Refs : owner'[r] = IF r = issued + 1 THEN s ELSE owner[r]
  BY StoresRowShape
<1>2. \A r \in Refs : IF r > issued' THEN vault'[r] = NoRow ELSE owner'[r] \in Services
  BY <1>1 DEF VaultTypes
<1> QED
  BY <1>1, <1>2 DEF VaultTypes

LEMMA WriterTypesStep ==
  ASSUME VaultTypes, VaultWriterNext
  PROVE  VaultTypes'
<1>1. ASSUME NEW x \in States, StateLapses(x) \/ \E s \in Services : Authorize(x, s)
      PROVE  VaultTypes'
  BY <1>1, OnlyWriters DEF Authorize, StateLapses, VaultTypes, store, prov
<1>2. ASSUME NEW w \in Writers, NEW x \in States, NEW s \in Services, CallbackBegins(w, x, s)
      PROVE  VaultTypes'
  <2>1. \A u \in Writers : HasToken(writer'[u]) <=> writer'[u].new # 0
    BY <1>2, CallbackBeginsShape, WriterFacts, HandsKept DEF HasToken
  <2> QED
    BY <1>2, <2>1, CallbackBeginsShape, OnlyWriters DEF CallbackBegins, store, prov
<1>3. ASSUME NEW w \in Writers, ExchangeFails(w) PROVE VaultTypes'
  <2>1. /\ writer' \in [Writers -> {NoWriter} \cup BusyWriters]
        /\ \A u \in Writers : HasToken(writer'[u]) <=> writer'[u].new # 0
    BY <1>3, WriterChanges DEF ExchangeFails, HasToken, VaultTypes, NoWriter
  <2> QED
    BY <1>3, <2>1, OnlyWriters DEF ExchangeFails, store, prov
<1>4. ASSUME NEW w \in Writers, CallbackReads(w) \/ ConnectReads(w) PROVE VaultTypes'
  <2>1. \A u \in Writers : HasToken(writer'[u]) <=> writer'[u].new # 0
    BY <1>4, ReadsShape, WriterFacts, HandsKept DEF HasToken
  <2> QED
    BY <1>4, <2>1, ReadsShape, OnlyWriters DEF CallbackReads, ConnectReads, store, prov
<1>5. ASSUME NEW w \in Writers, DeletesOld(w) PROVE VaultTypes'
  <2>1. \A u \in Writers : HasToken(writer'[u]) <=> writer'[u].new # 0
    BY <1>5, DeletesOldShape, WriterFacts, HandsKept DEF HasToken
  <2>2. UNCHANGED <<rotates, conn, issued, owner, current, lost, call, posts>>
    BY <1>5 DEF DeletesOld, prov
  <2> QED
    BY <1>5, <2>1, <2>2, DeletesOldShape DEF VaultTypes
<1>6. ASSUME NEW w \in Writers, Links(w) PROVE VaultTypes'
  <2>1. UNCHANGED <<vault, issued, owner, prov, call, sched>>
    BY <1>6 DEF Links
  <2>2. [ref |-> writer[w].new, active |-> TRUE] \in Conn
    BY <1>6, WriterFacts, LinksShape DEF Conn, VaultTypes, HasToken
  <2>3. conn' \in [Services -> {NoConn} \cup Conn]
    BY <1>6, <2>2, LinksShape DEF VaultTypes
  <2>4. \A u \in Writers : HasToken(writer'[u]) <=> writer'[u].new # 0
    <3>1. writer'[w].new = 0 /\ writer'[w].pc = "idle" /\ writer'[w].kind = "idle"
      <4>1. writer'[w] = NoWriter
        BY <1>6, LinksShape
      <4> QED
        BY <4>1 DEF NoWriter
    <3>2. \A u \in Writers \ {w} : writer'[u] = writer[u]
      BY <1>6, LinksShape
    <3>3. writer'[w].new # 0 <=> HasToken(writer'[w])
      BY <3>1 DEF HasToken
    <3> QED
      BY <3>2, <3>3, HandsKept
  <2> QED
    BY <1>6, <2>1, <2>3, <2>4, LinksShape DEF VaultTypes, prov, sched
<1>7. ASSUME NEW w \in Writers, NEW g \in Grants, CallbackStores(w, g) PROVE VaultTypes'
  <2>1. \A u \in Writers : HasToken(writer'[u]) <=> writer'[u].new # 0
    <3>1. issued \in Nat
      BY DEF VaultTypes
    <3> QED
      BY <1>7, <3>1, CallbackStoresShape, HandsKept DEF HasToken
  <2>2. writer[w].svc \in Services
    BY <1>7, CallbackStoresShape, WriterFacts
  <2>3. UNCHANGED <<rotates, lost, call, posts>>
    BY <1>7 DEF CallbackStores
  <2> QED
    BY <1>7, <2>1, <2>2, <2>3, CallbackStoresShape, NewRow
<1>8. ASSUME NEW w \in Writers, NEW s \in Services, NEW g \in Grants, ConnectBegins(w, s, g)
      PROVE  VaultTypes'
  <2>1. \A u \in Writers : HasToken(writer'[u]) <=> writer'[u].new # 0
    <3>1. issued \in Nat
      BY DEF VaultTypes
    <3> QED
      BY <1>8, <3>1, ConnectBeginsShape, HandsKept DEF HasToken
  <2>2. UNCHANGED <<rotates, lost, call, posts>> /\ scheduled' = scheduled
    BY <1>8 DEF ConnectBegins, sched
  <2> QED
    BY <1>8, <2>1, <2>2, ConnectBeginsShape, NewRow
<1>9. ASSUME NEW s \in Services, Disconnect(s) PROVE VaultTypes'
  <2>1. conn[s] \in Conn
    BY <1>9, ConnFacts DEF Disconnect, Connected, NoConn
  <2>2. [conn[s] EXCEPT !.active = FALSE] \in Conn
    BY <2>1 DEF Conn
  <2>3. conn' \in [Services -> {NoConn} \cup Conn]
    BY <1>9, <2>2 DEF Disconnect, VaultTypes
  <2> QED
    BY <1>9, <2>3 DEF Disconnect, VaultTypes, flow, prov, sched
<1> QED
  BY <1>1, <1>2, <1>3, <1>4, <1>5, <1>6, <1>7, <1>8, <1>9 DEF VaultWriterNext

LEMMA VaultTypesStep == VaultTypes /\ [VaultNext]_vvars => VaultTypes'
<1> SUFFICES ASSUME VaultTypes, [VaultNext]_vvars PROVE VaultTypes'
  OBVIOUS
<1>1. /\ vault \in [Refs -> {NoRow} \cup Row] /\ current \in [Refs -> Nat]
      /\ call \in [Requests -> Calls]
      /\ lost \subseteq 1..issued /\ scheduled \subseteq 1..issued /\ posts \subseteq 1..issued
      /\ \A q \in Requests : call[q].phase # "idle" => call[q].ref \in 1..issued
      /\ \A r \in Refs : ~Stored(r) => vault[r] = NoRow
  BY DEF VaultTypes, Stored
<1>2. CASE VaultWriterNext
  BY <1>2, WriterTypesStep
<1>3. ASSUME NEW q \in Requests,
             \/ \E s \in Services : RefreshForced(q, s)
             \/ \E i \in Refs : TaskFires(q, i) \/ (SweepTakes(i) /\ q = Sweeper)
      PROVE  VaultTypes'
  <2>1. UNCHANGED <<rotates, writer, conn, issued, owner, vault, current, lost, posts>>
    BY <1>3 DEF RefreshForced, TaskFires, SweepTakes, flow, store, prov, sched
  <2> QED
    BY <1>1, <1>3, <2>1, AsksShape, OnlyCalls DEF Asked
<1>4. CASE SweepBegins \/ SweepEnds
  <2>1. UNCHANGED <<rotates, writer, conn, issued, owner, vault, current, lost, scheduled, posts>>
    BY <1>4 DEF SweepBegins, SweepEnds, flow, store, prov, sched
  <2> QED
    BY <1>1, <1>4, <2>1, SweepShape, OnlyCalls
<1>5. ASSUME NEW r \in Refs, TimerFires(r) \/ TimerAnswered(r) PROVE VaultTypes'
  <2>1. UNCHANGED <<rotates, writer, conn, issued, owner, vault, current, lost, call>>
    BY <1>5 DEF TimerFires, TimerAnswered, flow, store, prov
  <2>2. scheduled' \subseteq 1..issued /\ posts' \subseteq 1..issued
    BY <1>1, <1>5 DEF TimerFires, TimerAnswered
  <2> QED
    BY <1>1, <2>1, <2>2, OnlyCalls
<1>6. ASSUME NEW r \in Refs, AgeToken(r) PROVE VaultTypes'
  <2>1. UNCHANGED <<rotates, writer, conn, issued, owner, current, lost, call, scheduled, posts>>
    BY <1>6 DEF AgeToken, flow, prov, sched
  <2> QED
    BY <1>1, <1>6, <2>1, AgeTokenShape, OnlyCalls
<1>7. ASSUME NEW q \in Requests, ProviderAnswers(q) PROVE VaultTypes'
  <2>1. UNCHANGED <<rotates, writer, conn, issued, owner, vault, lost, scheduled, posts>>
    BY <1>7 DEF ProviderAnswers, flow, store, sched
  <2> QED
    BY <1>1, <1>7, <2>1, ProviderAnswersShape, OnlyCalls
<1>8. ASSUME NEW q \in Requests, ProviderRefuses(q) PROVE VaultTypes'
  <2>1. UNCHANGED <<rotates, writer, conn, issued, owner, vault, current, lost, scheduled, posts>>
        /\ call' = [call EXCEPT ![q] = AfterCall(q)]
    BY <1>8 DEF ProviderRefuses, flow, store, prov, sched
  <2> QED
    BY <1>1, <2>1, CallDropped, OnlyCalls
<1>9. ASSUME NEW q \in Requests, ProviderFails(q) PROVE VaultTypes'
  <2>1. UNCHANGED <<rotates, writer, conn, issued, owner, vault, scheduled, posts>>
        /\ call' = [call EXCEPT ![q] = AfterCall(q)]
    BY <1>9 DEF ProviderFails, flow, store, sched
  <2>2. call[q].ref \in 1..issued /\ call[q].ref \in Refs
    BY <1>9, CallFacts DEF ProviderFails, Accepts
  <2>3. lost' \subseteq 1..issued
    BY <1>1, <1>9, <2>2 DEF ProviderFails
  <2>4. current' = current \/ current' = [current EXCEPT ![call[q].ref] = @ + 1]
    BY <1>9 DEF ProviderFails, Rotated
  <2>5. current' \in [Refs -> Nat]
    <3> DEFINE r == call[q].ref
    <3>1. r \in Refs /\ current[r] + 1 \in Nat
      BY <1>1, <2>2
    <3>2. current' = current \/ current' = [current EXCEPT ![r] = current[r] + 1]
      BY <2>4
    <3> HIDE DEF r
    <3> QED
      BY <1>1, <3>1, <3>2
  <2> QED
    BY <1>1, <2>1, <2>3, <2>5, CallDropped, OnlyCalls
<1>10. ASSUME NEW q \in Requests, NEW dated \in BOOLEAN, StoreRefresh(q, dated) PROVE VaultTypes'
  <2>1. UNCHANGED <<rotates, writer, conn, issued, owner, current, lost, posts>>
    BY <1>10 DEF StoreRefresh, flow, prov
  <2> QED
    BY <1>1, <1>10, <2>1, StoreRefreshShape, OnlyCalls
<1>11. CASE Restart
  <2>1. UNCHANGED <<rotates, conn, issued, owner, vault, current>>
    BY <1>11 DEF Restart, store
  <2>2. /\ writer' \in [Writers -> {NoWriter} \cup BusyWriters]
        /\ \A w \in Writers : HasToken(writer'[w]) <=> writer'[w].new # 0
    BY <1>11 DEF Restart, NoWriter, HasToken
  <2>3. /\ call' \in [Requests -> Calls]
        /\ \A q \in Requests : call'[q].phase = "idle"
    BY <1>11 DEF Restart, NoCall, Calls
  <2>4. lost' \subseteq 1..issued /\ posts' \subseteq 1..issued
    BY <1>1, <1>11 DEF Restart
  <2>5. scheduled' \subseteq 1..issued
    BY <1>1, <1>11, RowFacts DEF Restart, RestartSchedules, NeedsRefresh
  <2> QED
    BY <2>1, <2>2, <2>3, <2>4, <2>5 DEF VaultTypes
<1>12. CASE UNCHANGED vvars
  <2>1. UNCHANGED <<rotates, writer, conn, vault, issued, owner, current, lost, call, sched>>
    BY <1>12 DEF vvars, flow, store, prov
  <2> QED
    BY <2>1, OnlyWriters DEF VaultTypes
<1> QED
  BY <1>2, <1>3, <1>4, <1>5, <1>6, <1>7, <1>8, <1>9, <1>10, <1>11, <1>12 DEF VaultNext

-----------------------------------------------------------------------------
(* The refresh tokens. *)

\* A step that gives nobody a token but the one that is stored, and takes none
\* that is on its way.
LEMMA TokensKept ==
  ASSUME VaultTypes, TokensInOrder, VaultTypes',
         UNCHANGED <<rotates, owner, issued>>, lost \subseteq lost',
         \A r \in (1..issued) \ lost' : current'[r] = current[r],
         \A r \in Refs : Stored(r)' => Stored(r) /\ vault'[r].rt = vault[r].rt,
         \A q \in Requests, r \in (1..issued) \ lost' :
           /\ Answered(q, r)' => Answered(q, r) /\ call'[q].new = call[q].new
           /\ Answered(q, r) /\ rotates[owner[r]] => Answered(q, r)'
           /\ call'[q].phase = "asked" /\ call'[q].ref = r =>
                \/ AskedWith(q, r, call'[q].rt)
                \/ Stored(r) /\ call'[q].rt = vault[r].rt
  PROVE  TokensInOrder'
<1> SUFFICES ASSUME NEW r \in (1..issued) \ lost'
             PROVE  IF rotates[owner[r]] THEN RotatedInOrder(r)' ELSE OneToken(r)'
  BY DEF TokensInOrder
<1>1. /\ r \in Refs /\ r \in (1..issued) \ lost /\ current'[r] = current[r]
      /\ current[r] \in Nat /\ vault[r].rt \in Nat
  BY RowFacts DEF VaultTypes
<1>2. CASE rotates[owner[r]]
  <2>1. RotatedInOrder(r)
    BY <1>1, <1>2 DEF TokensInOrder
  <2>2. Stored(r)' => vault'[r].rt <= current'[r]
    BY <1>1, <2>1 DEF RotatedInOrder
  <2>3. \A q \in Requests : call'[q].phase = "asked" /\ call'[q].ref = r =>
          call'[q].rt <= current'[r]
    BY <1>1, <2>1 DEF RotatedInOrder, AskedWith
  <2>4. ASSUME NEW q \in Requests, Answered(q, r)'
        PROVE  /\ call'[q].new = current'[r] /\ current'[r] # 0
               /\ Stored(r)' => vault'[r].rt < current'[r]
               /\ \A p \in Requests \ {q} : ~Answered(p, r)' /\ ~AskedWith(p, r, current[r])'
    <3>1. Answered(q, r) /\ call'[q].new = call[q].new
      BY <1>1, <2>4
    <3>2. \A p \in Requests \ {q} : ~Answered(p, r)' /\ ~AskedWith(p, r, current[r])'
      BY <1>1, <2>1, <3>1 DEF RotatedInOrder, AskedWith
    <3> QED
      BY <1>1, <2>1, <3>1, <3>2 DEF RotatedInOrder
  <2>5. Stored(r)' /\ vault'[r].rt # 0 =>
          vault'[r].rt = current'[r] \/ \E q \in Requests : Answered(q, r)'
    BY <1>1, <1>2, <2>1 DEF RotatedInOrder
  <2> QED
    BY <1>1, <1>2, <2>2, <2>3, <2>4, <2>5 DEF RotatedInOrder
<1>3. CASE ~rotates[owner[r]]
  BY <1>1, <1>3 DEF TokensInOrder, OneToken
<1> QED
  BY <1>2, <1>3

LEMMA TokensOfNewRow ==
  ASSUME VaultTypes, TokensInOrder, NEW s \in Services, NEW row \in Row, StoresRow(s, row),
         UNCHANGED <<rotates, lost, call>>
  PROVE  TokensInOrder'
<1> SUFFICES ASSUME NEW r \in (1..issued') \ lost
             PROVE  IF rotates[owner'[r]] THEN RotatedInOrder(r)' ELSE OneToken(r)'
  BY DEF TokensInOrder
<1>0. issued \in Nat /\ row.rt \in Nat
  BY DEF VaultTypes, Row
<1>1. /\ issued + 1 \in Refs /\ issued' = issued + 1
      /\ \A i \in Refs : vault'[i] = IF i = issued + 1 THEN row ELSE vault[i]
      /\ \A i \in Refs : owner'[i] = IF i = issued + 1 THEN s ELSE owner[i]
      /\ \A i \in Refs : current'[i] = IF i = issued + 1 THEN row.rt ELSE current[i]
      /\ \A i \in Refs : Stored(i)' <=> Stored(i) \/ i = issued + 1
  BY StoresRowShape
<1>2. \A q \in Requests : call[q].phase \in {"asked", "answered"} => call[q].ref # issued + 1
  BY <1>0, CallFacts
<1>3. CASE r = issued + 1
  BY <1>0, <1>1, <1>2, <1>3 DEF RotatedInOrder, OneToken, Answered, AskedWith
<1>4. CASE r # issued + 1
  <2>1. /\ r \in (1..issued) \ lost /\ r \in Refs /\ vault'[r] = vault[r]
        /\ owner'[r] = owner[r] /\ current'[r] = current[r] /\ (Stored(r)' <=> Stored(r))
    BY <1>0, <1>1, <1>4
  <2> QED
    BY <2>1 DEF TokensInOrder, RotatedInOrder, OneToken, Answered, AskedWith
<1> QED
  BY <1>3, <1>4

LEMMA TokensOfAnswer ==
  ASSUME VaultTypes, TokensInOrder, NEW q \in Requests, ProviderAnswers(q)
  PROVE  TokensInOrder'
<1> DEFINE i == call[q].ref
<1> SUFFICES ASSUME NEW r \in (1..issued) \ lost
             PROVE  IF rotates[owner[r]] THEN RotatedInOrder(r)' ELSE OneToken(r)'
  BY DEF TokensInOrder, ProviderAnswers, store
<1>1. /\ r \in Refs /\ current[r] \in Nat /\ vault[r].rt \in Nat
      /\ UNCHANGED <<rotates, owner, issued, lost, vault>>
  BY RowFacts DEF VaultTypes, ProviderAnswers, store
<1>2. /\ i \in 1..issued /\ i \in Refs
      /\ call[q].phase = "asked" /\ call[q].rt = current[i]
      /\ \A j \in Refs : current'[j] =
           IF j = i /\ rotates[owner[i]] THEN current[i] + 1 ELSE current[j]
      /\ \A p \in Requests \ {q} : call'[p] = call[p]
      /\ call'[q].phase = "answered" /\ call'[q].ref = i
      /\ call'[q].new = IF rotates[owner[i]] THEN current[i] + 1 ELSE 0
  BY ProviderAnswersShape
<1>7. call[q].ref = i
  OBVIOUS
<1> HIDE DEF i
<1>3. Stored(r)' <=> Stored(r)
  BY <1>1 DEF Stored
<1>4. CASE r # i
  BY <1>1, <1>2, <1>3, <1>4 DEF TokensInOrder, RotatedInOrder, OneToken, Answered, AskedWith
<1>5. CASE r = i /\ ~rotates[owner[r]]
  BY <1>1, <1>2, <1>3, <1>5 DEF TokensInOrder, OneToken, Answered
<1>6. CASE r = i /\ rotates[owner[r]]
  <2>1. RotatedInOrder(r)
    BY <1>6 DEF TokensInOrder
  <2>2. current'[r] = current[r] + 1 /\ call'[q].new = current'[r] /\ current'[r] # 0
    BY <1>1, <1>2, <1>6
  <2>3. \A p \in Requests : ~Answered(p, r)
    <3> SUFFICES ASSUME NEW p \in Requests, Answered(p, r) PROVE FALSE
      OBVIOUS
    <3>1. p # q
      BY <1>2 DEF Answered
    <3>2. ~AskedWith(q, r, current[r])
      BY <2>1, <3>1 DEF RotatedInOrder
    <3> QED
      BY <1>2, <1>6, <1>7, <3>2 DEF AskedWith
  <2>4. \A p \in Requests \ {q} : call'[p].phase = "asked" /\ call'[p].ref = r =>
          call'[p].rt <= current[r] /\ call'[p].rt \in Nat
    BY <1>2, <2>1, CallFacts DEF RotatedInOrder
  <2>5. \A p \in Requests \ {q} : ~Answered(p, r)' /\ ~AskedWith(p, r, current[r])'
    BY <1>1, <1>2, <2>2, <2>3, <2>4 DEF Answered, AskedWith
  <2>6. Stored(r)' => vault'[r].rt < current'[r]
    BY <1>1, <1>3, <2>1, <2>2 DEF RotatedInOrder
  <2>7. Answered(q, r)'
    BY <1>2, <1>6 DEF Answered
  <2>8. \A p \in Requests : call'[p].phase = "asked" /\ call'[p].ref = r =>
          call'[p].rt <= current'[r]
    BY <1>1, <1>2, <2>2, <2>4
  <2>9. \A p \in Requests : Answered(p, r)' => p = q
    BY <2>5
  <2> QED
    BY <1>1, <1>6, <2>2, <2>5, <2>6, <2>7, <2>8, <2>9 DEF RotatedInOrder
<1> QED
  BY <1>4, <1>5, <1>6

LEMMA TokensOfRefresh ==
  ASSUME VaultTypes, TokensInOrder, NEW q \in Requests, NEW dated \in BOOLEAN, StoreRefresh(q, dated)
  PROVE  TokensInOrder'
<1> DEFINE i == call[q].ref
<1>1. UNCHANGED <<rotates, owner, issued, lost, current>>
  BY DEF StoreRefresh, prov
<1> SUFFICES ASSUME NEW r \in (1..issued) \ lost
             PROVE  IF rotates[owner[r]] THEN RotatedInOrder(r)' ELSE OneToken(r)'
  BY <1>1 DEF TokensInOrder
<1>2. /\ i \in 1..issued /\ i \in Refs /\ call[q].phase = "answered"
      /\ \A j \in Refs : vault'[j].rt =
           IF j = i /\ Stored(i) /\ call[q].new # 0 THEN call[q].new ELSE vault[j].rt
      /\ \A j \in Refs : Stored(j)' <=> Stored(j)
      /\ \A p \in Requests \ {q} : call'[p] = call[p]
      /\ call'[q].phase = "idle"
  BY StoreRefreshShape
<1>3. Answered(q, i)
  BY <1>2 DEF Answered
<1> HIDE DEF i
<1>4. r \in Refs /\ current[r] \in Nat /\ vault[r].rt \in Nat
  BY RowFacts DEF VaultTypes
<1>5. CASE r # i
  BY <1>1, <1>2, <1>3, <1>4, <1>5 DEF TokensInOrder, RotatedInOrder, OneToken, Answered, AskedWith
<1>6. CASE r = i /\ ~rotates[owner[r]]
  BY <1>1, <1>2, <1>3, <1>4, <1>6 DEF TokensInOrder, OneToken, Answered
<1>7. CASE r = i /\ rotates[owner[r]]
  <2>1. RotatedInOrder(r)
    BY <1>7 DEF TokensInOrder
  <2>2. /\ call[q].new = current[r] /\ current[r] # 0
        /\ \A p \in Requests \ {q} : ~Answered(p, r) /\ ~AskedWith(p, r, current[r])
    BY <1>3, <1>7, <2>1 DEF RotatedInOrder
  <2>3. \A p \in Requests : ~Answered(p, r)'
    BY <1>2, <2>2 DEF Answered
  <2>4. Stored(r)' => vault'[r].rt = current[r]
    BY <1>2, <1>4, <1>7, <2>2
  <2>5. \A p \in Requests : call'[p].phase = "asked" /\ call'[p].ref = r =>
          call'[p].rt <= current[r]
    BY <1>2, <2>1 DEF RotatedInOrder
  <2>6. current'[r] = current[r] /\ (Stored(r)' => vault'[r].rt <= current'[r])
    BY <1>1, <1>4, <2>4
  <2> QED
    BY <1>7, <2>3, <2>4, <2>5, <2>6 DEF RotatedInOrder
<1> QED
  BY <1>5, <1>6, <1>7

LEMMA TokensStep ==
  ASSUME VaultTypes, VaultTypes', TokensInOrder, [VaultNext]_vvars
  PROVE  TokensInOrder'
<1>1. CASE UNCHANGED <<rotates, owner, issued, lost, current, vault, call>>
  BY <1>1, TokensKept DEF Stored, Answered, AskedWith
<1>2. ASSUME NEW w \in Writers, DeletesOld(w) PROVE TokensInOrder'
  <2>1. UNCHANGED <<rotates, owner, issued, lost, current, call>>
    BY <1>2 DEF DeletesOld, prov
  <2>2. \A r \in Refs : Stored(r)' => Stored(r) /\ vault'[r].rt = vault[r].rt
    BY <1>2, DeletesOldShape DEF Stored
  <2> QED
    BY <2>1, <2>2, TokensKept DEF Answered, AskedWith
<1>3. ASSUME NEW w \in Writers, NEW g \in Grants, CallbackStores(w, g) PROVE TokensInOrder'
  BY <1>3, CallbackStoresShape, WriterFacts, TokensOfNewRow DEF CallbackStores
<1>4. ASSUME NEW w \in Writers, NEW s \in Services, NEW g \in Grants, ConnectBegins(w, s, g)
      PROVE  TokensInOrder'
  BY <1>4, ConnectBeginsShape, TokensOfNewRow DEF ConnectBegins
<1>5. ASSUME NEW q \in Requests,
             \/ \E s \in Services : RefreshForced(q, s)
             \/ \E i \in Refs : TaskFires(q, i) \/ (SweepTakes(i) /\ q = Sweeper)
      PROVE  TokensInOrder'
  <2>1. UNCHANGED <<rotates, owner, issued, vault, current, lost>>
    BY <1>5 DEF RefreshForced, TaskFires, SweepTakes, store, prov
  <2>2. Asked(q)
    BY <1>5, AsksShape
  <2> QED
    BY <2>1, <2>2, TokensKept DEF Asked, Stored, Answered, AskedWith
<1>6. CASE SweepBegins \/ SweepEnds
  <2>1. UNCHANGED <<rotates, owner, issued, vault, current, lost>>
    BY <1>6 DEF SweepBegins, SweepEnds, store, prov
  <2> QED
    BY <1>6, <2>1, SweepShape, TokensKept DEF Stored, Answered, AskedWith
<1>7. ASSUME NEW r \in Refs, AgeToken(r) PROVE TokensInOrder'
  <2>1. UNCHANGED <<rotates, owner, issued, current, lost, call>>
    BY <1>7 DEF AgeToken, prov
  <2> QED
    BY <1>7, <2>1, AgeTokenShape, TokensKept DEF Answered, AskedWith
<1>8. ASSUME NEW q \in Requests, ProviderAnswers(q) PROVE TokensInOrder'
  BY <1>8, TokensOfAnswer
<1>9. ASSUME NEW q \in Requests, ProviderRefuses(q) PROVE TokensInOrder'
  <2>1. UNCHANGED <<rotates, owner, issued, vault, current, lost>>
        /\ call[q].phase = "asked" /\ call' = [call EXCEPT ![q] = AfterCall(q)]
    BY <1>9 DEF ProviderRefuses, store, prov
  <2> QED
    BY <2>1, CallDropped, TokensKept DEF Stored, Answered, AskedWith
<1>10. ASSUME NEW q \in Requests, ProviderFails(q) PROVE TokensInOrder'
  <2>1. UNCHANGED <<rotates, owner, issued, vault>>
        /\ call[q].phase = "asked" /\ call' = [call EXCEPT ![q] = AfterCall(q)]
    BY <1>10 DEF ProviderFails, Accepts, store
  <2>2. lost \subseteq lost' /\ \A r \in (1..issued) \ lost' : current'[r] = current[r]
    <3> DEFINE i == call[q].ref
    <3>1. \/ current' = current /\ lost' = lost
          \/ current' = Rotated(i) /\ lost' = IF rotates[owner[i]] THEN lost \cup {i} ELSE lost
      BY <1>10 DEF ProviderFails
    <3>2. Rotated(i) = IF rotates[owner[i]] THEN [current EXCEPT ![i] = @ + 1] ELSE current
      BY DEF Rotated
    <3> HIDE DEF i
    <3>3. CASE lost' = lost \cup {i} /\ current' = [current EXCEPT ![i] = @ + 1]
      BY <3>3 DEF VaultTypes
    <3>4. CASE lost' = lost /\ current' = current
      BY <3>4
    <3> QED
      BY <3>1, <3>2, <3>3, <3>4
  <2> QED
    BY <2>1, <2>2, CallDropped, TokensKept DEF Stored, Answered, AskedWith
<1>11. ASSUME NEW q \in Requests, NEW dated \in BOOLEAN, StoreRefresh(q, dated) PROVE TokensInOrder'
  BY <1>11, TokensOfRefresh
<1>12. CASE Restart
  <2>1. UNCHANGED <<rotates, owner, issued, vault, current>> /\ lost \subseteq lost'
    BY <1>12 DEF Restart, store
  <2>2. \A q \in Requests : call'[q].phase = "idle"
    BY <1>12 DEF Restart, NoCall
  <2>3. \A q \in Requests, r \in (1..issued) \ lost' : ~(Answered(q, r) /\ rotates[owner[r]])
    <3> SUFFICES ASSUME NEW q \in Requests, NEW r \in (1..issued) \ lost', Answered(q, r),
                        rotates[owner[r]]
                 PROVE  FALSE
      OBVIOUS
    <3>1. call[q].new # 0
      BY <2>1 DEF TokensInOrder, RotatedInOrder
    <3>2. r \in lost'
      BY <1>12, <3>1 DEF Restart, Answered
    <3> QED
      BY <3>2
  <2> QED
    BY <2>1, <2>2, <2>3, TokensKept DEF Stored, Answered, AskedWith
<1>13. CASE VaultWriterNext
  <2>1. CASE UNCHANGED <<rotates, owner, issued, lost, current, vault, call>>
    BY <1>1, <2>1
  <2> QED
    BY <1>2, <1>3, <1>4, <1>13, <2>1
       DEF VaultWriterNext, Authorize, StateLapses, CallbackBegins, ExchangeFails, CallbackReads,
           ConnectReads, Links, Disconnect, store, prov
<1>14. CASE (\E r \in Refs : TimerFires(r) \/ TimerAnswered(r)) \/ UNCHANGED vvars
  BY <1>1, <1>14 DEF TimerFires, TimerAnswered, vvars, store, prov
<1> QED
  BY <1>5, <1>6, <1>7, <1>8, <1>9, <1>10, <1>11, <1>12, <1>13, <1>14 DEF VaultNext

-----------------------------------------------------------------------------
(* The connections. *)

\* A step that leaves the connections and the requests that change them alone.
LEMMA LinksKept ==
  ASSUME VaultTypes, LinksInOrder, UNCHANGED <<writer, conn, issued, owner, torn>>,
         \A r \in Refs : Stored(r)' <=> Stored(r)
  PROVE  LinksInOrder'
<1>1. NewTokensApart'
  BY WriterFacts DEF LinksInOrder, NewTokensApart
<1>2. RefsOfServices'
  BY DEF LinksInOrder, RefsOfServices
<1>3. ActiveConnectionHasToken'
  BY ConnFacts DEF LinksInOrder, ActiveConnectionHasToken, Connected
<1> QED
  BY <1>1, <1>2, <1>3 DEF LinksInOrder

\* A request that gets no token of its own, and may read its connection.
LEMMA LinksOfWriter ==
  ASSUME VaultTypes, LinksInOrder, NEW w \in Writers,
         UNCHANGED <<vault, conn, issued, owner, torn>>,
         \A u \in Writers \ {w} : writer'[u] = writer[u],
         writer[w].pc \notin {"store", "link"},
         writer'[w].new # 0 => writer'[w].new = writer[w].new /\ writer'[w].svc = writer[w].svc,
         writer'[w].old # 0 => /\ writer'[w].svc \in Services
                               /\ writer'[w].old = conn[writer'[w].svc].ref,
         writer'[w].pc \in {"delete", "store", "link"} /\ ~writer'[w].had => writer'[w].old = 0
  PROVE  LinksInOrder'
<1>1. NewTokensApart'
  <2> SUFFICES ASSUME NEW v \in Writers, writer'[v].new # 0
               PROVE  /\ writer'[v].new <= issued /\ vault'[writer'[v].new] # NoRow
                      /\ owner[writer'[v].new] = writer'[v].svc
                      /\ \A s \in Services : conn[s].ref # writer'[v].new
                      /\ \A u \in Writers : /\ writer'[u].old # writer'[v].new
                                            /\ writer'[u].new = writer'[v].new => u = v
    BY DEF NewTokensApart, Stored
  <2>1. writer'[v].new = writer[v].new /\ writer'[v].svc = writer[v].svc
    OBVIOUS
  <2>2. /\ writer[v].new <= issued /\ Stored(writer[v].new)
        /\ owner[writer[v].new] = writer[v].svc
        /\ \A s \in Services : conn[s].ref # writer[v].new
        /\ \A u \in Writers : /\ writer[u].old # writer[v].new
                              /\ writer[u].new = writer[v].new => u = v
    BY <2>1 DEF LinksInOrder, NewTokensApart
  <2>3. vault'[writer'[v].new] # NoRow
    BY <2>1, <2>2 DEF Stored
  <2>4. \A u \in Writers : /\ writer'[u].old # writer'[v].new
                           /\ writer'[u].new = writer'[v].new => u = v
    BY <2>1, <2>2
  <2> QED
    BY <2>1, <2>2, <2>3, <2>4
<1>2. RefsOfServices'
  BY DEF LinksInOrder, RefsOfServices
<1>3. ActiveConnectionHasToken'
  BY DEF LinksInOrder, ActiveConnectionHasToken, Connected, Stored
<1> QED
  BY <1>1, <1>2, <1>3 DEF LinksInOrder

\* A request deletes what it replaces, which is nobody's new token.
LEMMA LinksOfDelete ==
  ASSUME VaultTypes, LinksInOrder, NEW w \in Writers, DeletesOld(w)
  PROVE  LinksInOrder'
<1>1. /\ UNCHANGED <<conn, issued, owner, torn>>
      /\ \A u \in Writers \ {w} : writer'[u] = writer[u]
      /\ writer[w] \in BusyWriters /\ writer[w].pc = "delete"
      /\ writer'[w].pc \in {"store", "link"}
      /\ writer'[w].svc = writer[w].svc /\ writer'[w].new = writer[w].new
      /\ writer'[w].old = writer[w].old /\ writer'[w].had = writer[w].had
      /\ \A r \in Refs : vault'[r] = IF r = writer[w].old THEN NoRow ELSE vault[r]
  BY DeletesOldShape DEF DeletesOld
<1>2. \A u \in Writers : /\ writer'[u].svc = writer[u].svc /\ writer'[u].new = writer[u].new
                         /\ writer'[u].old = writer[u].old /\ writer'[u].had = writer[u].had
  BY <1>1
<1>3. NewTokensApart'
  <2> SUFFICES ASSUME NEW v \in Writers, writer[v].new # 0
               PROVE  /\ writer[v].new <= issued /\ Stored(writer[v].new)'
                      /\ owner[writer[v].new] = writer[v].svc
                      /\ \A s \in Services : conn[s].ref # writer[v].new
                      /\ \A u \in Writers : /\ writer[u].old # writer[v].new
                                            /\ writer[u].new = writer[v].new => u = v
    BY <1>1, <1>2 DEF NewTokensApart
  <2>1. writer[v].new \in Refs /\ writer[w].old # writer[v].new /\ Stored(writer[v].new)
    BY WriterFacts DEF LinksInOrder, NewTokensApart
  <2>2. Stored(writer[v].new)'
    BY <1>1, <2>1 DEF Stored
  <2> QED
    BY <2>2 DEF LinksInOrder, NewTokensApart
<1>4. RefsOfServices'
  BY <1>1, <1>2 DEF LinksInOrder, RefsOfServices
<1>5. ActiveConnectionHasToken'
  <2> SUFFICES ASSUME NEW s \in Services, Connected(s), ~Stored(conn[s].ref)', s \notin torn
               PROVE  \E v \in Writers : /\ writer[v].svc = s /\ writer[v].old = conn[s].ref
                                         /\ writer'[v].pc \in {"store", "link"}
    BY <1>1, <1>2 DEF ActiveConnectionHasToken, Connected
  <2>1. conn[s].ref \in Refs /\ conn[s].ref # 0
    BY ConnFacts
  <2>2. CASE conn[s].ref = writer[w].old
    BY <1>1, <2>1, <2>2 DEF LinksInOrder, RefsOfServices
  <2>3. CASE conn[s].ref # writer[w].old
    <3>1. ~Stored(conn[s].ref)
      BY <1>1, <2>1, <2>3 DEF Stored
    <3>2. PICK v \in Writers : /\ writer[v].svc = s /\ writer[v].old = conn[s].ref
                               /\ writer[v].pc \in {"store", "link"}
      BY <3>1 DEF LinksInOrder, ActiveConnectionHasToken
    <3> QED
      BY <1>1, <3>2
  <2> QED
    BY <2>2, <2>3
<1> QED
  BY <1>3, <1>4, <1>5 DEF LinksInOrder

\* A request gets a row of its own.
LEMMA LinksOfNewRow ==
  ASSUME VaultTypes, LinksInOrder, NEW w \in Writers, NEW s \in Services, NEW row \in Row,
         StoresRow(s, row), torn' = torn,
         \A u \in Writers \ {w} : writer'[u] = writer[u],
         writer[w].pc # "link", writer'[w].new = issued + 1, writer'[w].svc = s,
         \/ /\ writer[w].svc = s /\ writer'[w].old = writer[w].old
            /\ writer'[w].had = writer[w].had
            /\ writer[w].pc = "store" /\ writer'[w].pc = "link"
         \/ writer[w] = NoWriter /\ writer'[w].old = 0
  PROVE  LinksInOrder'
<1>0. issued \in Nat
  BY DEF VaultTypes
<1>1. /\ issued + 1 \in Refs /\ issued' = issued + 1 /\ conn' = conn
      /\ \A r \in Refs : owner'[r] = IF r = issued + 1 THEN s ELSE owner[r]
      /\ \A r \in Refs : Stored(r)' <=> Stored(r) \/ r = issued + 1
  BY StoresRowShape
<1>2. /\ \A t \in Services : conn[t].ref # issued + 1
      /\ \A u \in Writers : writer[u].old # issued + 1 /\ writer[u].new # issued + 1
  BY <1>0, ConnFacts, WriterFacts DEF LinksInOrder, RefsOfServices, NewTokensApart
<1>3. NewTokensApart'
  <2> SUFFICES ASSUME NEW v \in Writers, writer'[v].new # 0
               PROVE  /\ writer'[v].new <= issued + 1 /\ vault'[writer'[v].new] # NoRow
                      /\ owner'[writer'[v].new] = writer'[v].svc
                      /\ \A t \in Services : conn[t].ref # writer'[v].new
                      /\ \A u \in Writers : /\ writer'[u].old # writer'[v].new
                                            /\ writer'[u].new = writer'[v].new => u = v
    BY <1>1 DEF NewTokensApart, Stored
  <2>1. CASE v = w
    <3>1. \A u \in Writers : /\ writer'[u].old # issued + 1
                             /\ writer'[u].new = issued + 1 => u = w
      BY <1>0, <1>2
    <3> QED
      BY <1>0, <1>1, <1>2, <2>1, <3>1 DEF Stored
  <2>2. CASE v # w
    <3>1. /\ writer'[v] = writer[v] /\ writer[v].new \in Refs /\ writer[v].new # issued + 1
          /\ writer[v].new <= issued /\ Stored(writer[v].new)
          /\ owner[writer[v].new] = writer[v].svc
          /\ \A t \in Services : conn[t].ref # writer[v].new
          /\ \A u \in Writers : /\ writer[u].old # writer[v].new
                                /\ writer[u].new = writer[v].new => u = v
      BY <1>2, <2>2, WriterFacts DEF LinksInOrder, NewTokensApart
    <3>2. \A u \in Writers : /\ writer'[u].old # writer[v].new
                             /\ writer'[u].new = writer[v].new => u = v
      BY <2>2, <3>1
    <3> QED
      BY <1>0, <1>1, <3>1, <3>2 DEF Stored
  <2> QED
    BY <2>1, <2>2
<1>4. RefsOfServices'
  <2>1. ASSUME NEW t \in Services, conn[t].ref # 0
        PROVE  conn[t].ref <= issued + 1 /\ owner'[conn[t].ref] = t
    <3>1. conn[t].ref \in Refs /\ conn[t].ref <= issued /\ owner[conn[t].ref] = t
      BY <2>1, ConnFacts DEF LinksInOrder, RefsOfServices
    <3> QED
      BY <1>0, <1>1, <3>1
  <2>2. ASSUME NEW v \in Writers
        PROVE  /\ writer'[v].old # 0 =>
                    writer'[v].old <= issued + 1 /\ owner'[writer'[v].old] = writer'[v].svc
               /\ writer'[v].pc \in {"delete", "store", "link"} /\ ~writer'[v].had
                    => writer'[v].old = 0
    <3>1. /\ writer[v].old # 0 => /\ writer[v].old \in Refs /\ writer[v].old <= issued
                                  /\ owner[writer[v].old] = writer[v].svc
          /\ writer[v].pc \in {"delete", "store", "link"} /\ ~writer[v].had => writer[v].old = 0
      BY WriterFacts DEF LinksInOrder, RefsOfServices
    <3>2. writer'[v].old # 0 => writer'[v].old = writer[v].old /\ writer'[v].svc = writer[v].svc
      OBVIOUS
    <3>3. writer'[v].old # 0 =>
            writer'[v].old <= issued + 1 /\ owner'[writer'[v].old] = writer'[v].svc
      BY <1>0, <1>1, <3>1, <3>2 DEF Stored
    <3>4. writer'[v].pc \in {"delete", "store", "link"} /\ ~writer'[v].had => writer'[v].old = 0
      BY <3>1
    <3> QED
      BY <3>3, <3>4
  <2> QED
    BY <1>1, <2>1, <2>2 DEF RefsOfServices
<1>5. ActiveConnectionHasToken'
  <2> SUFFICES ASSUME NEW t \in Services, Connected(t), ~Stored(conn[t].ref)', t \notin torn
               PROVE  \E v \in Writers : /\ writer'[v].svc = t /\ writer'[v].old = conn[t].ref
                                         /\ writer'[v].pc \in {"store", "link"}
    BY <1>1 DEF ActiveConnectionHasToken, Connected
  <2>1. ~Stored(conn[t].ref)
    BY <1>1, ConnFacts
  <2>2. PICK v \in Writers : /\ writer[v].svc = t /\ writer[v].old = conn[t].ref
                             /\ writer[v].pc \in {"store", "link"}
    BY <2>1 DEF LinksInOrder, ActiveConnectionHasToken
  <2>3. writer[v] # NoWriter
    BY <2>2 DEF NoWriter
  <2> QED
    BY <2>2, <2>3
<1> QED
  BY <1>3, <1>4, <1>5 DEF LinksInOrder

\* A request links its token; where it fails to insert, it had read no connection.
LEMMA LinksOfLink ==
  ASSUME VaultTypes, LinksInOrder, NEW w \in Writers, Links(w)
  PROVE  LinksInOrder'
<1> DEFINE s == writer[w].svc
           new == writer[w].new
           row == [ref |-> new, active |-> TRUE]
<1>1. /\ UNCHANGED <<vault, issued, owner>>
      /\ \A u \in Writers \ {w} : writer'[u] = writer[u]
      /\ writer[w] \in BusyWriters /\ writer[w].pc = "link" /\ writer'[w] = NoWriter
      /\ IF writer[w].had \/ conn[s] = NoConn
           THEN conn' = [conn EXCEPT ![s] = row] /\ torn' = torn \ {s}
           ELSE conn' = conn /\ torn' = torn
  BY LinksShape DEF Links
<1>2. /\ new # 0 /\ new \in Refs /\ s \in Services /\ new <= issued /\ Stored(new)
      /\ owner[new] = s
      /\ \A u \in Writers : writer[u].old # new /\ (writer[u].new = new => u = w)
  BY <1>1, WriterFacts DEF LinksInOrder, NewTokensApart, HasToken
<1>3. writer'[w].new = 0 /\ writer'[w].old = 0 /\ writer'[w].pc = "idle"
  BY <1>1 DEF NoWriter
<1>4. row.ref = new /\ row.active
  OBVIOUS
<1> HIDE DEF row
<1>5. \A t \in Services : conn'[t] = conn[t] \/ (t = s /\ conn'[t].ref = new)
  BY <1>1, <1>2, <1>4 DEF VaultTypes
<1>6. \A r : Stored(r)' <=> Stored(r)
  BY <1>1 DEF Stored
<1>7. NewTokensApart'
  <2> SUFFICES ASSUME NEW v \in Writers, writer'[v].new # 0
               PROVE  /\ writer'[v].new <= issued /\ vault'[writer'[v].new] # NoRow
                      /\ owner[writer'[v].new] = writer'[v].svc
                      /\ \A t \in Services : conn'[t].ref # writer'[v].new
                      /\ \A u \in Writers : /\ writer'[u].old # writer'[v].new
                                            /\ writer'[u].new = writer'[v].new => u = v
    BY <1>1 DEF NewTokensApart, Stored
  <2>1. v # w /\ writer'[v] = writer[v] /\ writer[v].new # new
    BY <1>1, <1>2, <1>3
  <2>2. /\ writer[v].new <= issued /\ Stored(writer[v].new)
        /\ owner[writer[v].new] = writer[v].svc
        /\ \A t \in Services : conn[t].ref # writer[v].new
        /\ \A u \in Writers : /\ writer[u].old # writer[v].new
                              /\ writer[u].new = writer[v].new => u = v
    BY <2>1 DEF LinksInOrder, NewTokensApart
  <2>3. \A t \in Services : conn'[t].ref # writer'[v].new
    BY <1>5, <2>1, <2>2
  <2>4. \A u \in Writers : /\ writer'[u].old # writer'[v].new
                           /\ writer'[u].new = writer'[v].new => u = v
    BY <1>1, <1>3, <2>1, <2>2
  <2> QED
    BY <1>1, <2>1, <2>2, <2>3, <2>4 DEF Stored
<1>8. RefsOfServices'
  BY <1>1, <1>2, <1>3, <1>5 DEF LinksInOrder, RefsOfServices
<1>9. ActiveConnectionHasToken'
  <2> SUFFICES ASSUME NEW t \in Services, conn'[t].active, ~Stored(conn'[t].ref), t \notin torn'
               PROVE  \E v \in Writers : /\ writer'[v].svc = t /\ writer'[v].old = conn'[t].ref
                                         /\ writer'[v].pc \in {"store", "link"}
    BY <1>6 DEF ActiveConnectionHasToken, Connected
  <2>1. conn'[t] = conn[t]
    BY <1>2, <1>5
  <2>2. t \notin torn
    BY <1>1, <1>2, <1>4, <2>1 DEF VaultTypes
  <2>3. PICK v \in Writers : /\ writer[v].svc = t /\ writer[v].old = conn[t].ref
                             /\ writer[v].pc \in {"store", "link"}
    BY <2>1, <2>2 DEF LinksInOrder, ActiveConnectionHasToken, Connected
  <2>4. conn[t].ref # 0
    BY <2>1, ConnFacts DEF Connected
  <2>5. v # w
    <3> SUFFICES ASSUME v = w PROVE FALSE
      OBVIOUS
    <3>1. writer[w].had
      BY <2>3, <2>4 DEF LinksInOrder, RefsOfServices
    <3>2. conn'[t].ref = new
      BY <1>1, <1>2, <1>4, <2>3, <3>1 DEF VaultTypes
    <3> QED
      BY <1>2, <3>2
  <2> QED
    BY <1>1, <2>1, <2>3, <2>5
<1> QED
  BY <1>7, <1>8, <1>9 DEF LinksInOrder

LEMMA LinksStep ==
  ASSUME VaultTypes, LinksInOrder, [VaultNext]_vvars
  PROVE  LinksInOrder'
<1>1. CASE UNCHANGED <<writer, store, torn>>
  BY <1>1, LinksKept DEF store, Stored
<1>2. ASSUME NEW w \in Writers, NEW x \in States, NEW s \in Services, CallbackBegins(w, x, s)
      PROVE  LinksInOrder'
  <2>1. UNCHANGED <<vault, conn, issued, owner, torn>> /\ writer[w] = NoWriter
    BY <1>2 DEF CallbackBegins, store
  <2>2. writer[w].pc = "idle" /\ writer[w].new = 0 /\ writer[w].old = 0
    BY <2>1 DEF NoWriter
  <2> QED
    BY <1>2, <2>1, <2>2, CallbackBeginsShape, LinksOfWriter
<1>3. ASSUME NEW w \in Writers, ExchangeFails(w) PROVE LinksInOrder'
  <2>1. /\ UNCHANGED <<vault, conn, issued, owner, torn>> /\ writer[w].pc = "exchanging"
        /\ writer' = [writer EXCEPT ![w] = NoWriter]
    BY <1>3 DEF ExchangeFails, store
  <2>2. NoWriter.new = 0 /\ NoWriter.old = 0
    BY DEF NoWriter
  <2>3. writer'[w] = NoWriter /\ \A u \in Writers \ {w} : writer'[u] = writer[u]
    BY <2>1, WriterChanges
  <2> QED
    BY <2>1, <2>2, <2>3, LinksOfWriter
<1>4. ASSUME NEW w \in Writers, CallbackReads(w) \/ ConnectReads(w) PROVE LinksInOrder'
  <2>1. UNCHANGED <<vault, conn, issued, owner, torn>>
    BY <1>4 DEF CallbackReads, ConnectReads, store
  <2>2. /\ \A u \in Writers \ {w} : writer'[u] = writer[u]
        /\ writer[w].pc \notin {"store", "link"}
        /\ writer'[w].svc = writer[w].svc /\ writer'[w].new = writer[w].new
        /\ writer'[w].old = conn[writer[w].svc].ref
        /\ writer'[w].had = (conn[writer[w].svc] # NoConn)
        /\ writer[w].svc \in Services
    BY <1>4, ReadsShape, WriterFacts
  <2>3. ~writer'[w].had => writer'[w].old = 0
    BY <2>2, ConnFacts
  <2> QED
    BY <2>1, <2>2, <2>3, LinksOfWriter
<1>5. ASSUME NEW w \in Writers, NEW g \in Grants, CallbackStores(w, g) PROVE LinksInOrder'
  <2>1. torn' = torn
    BY <1>5 DEF CallbackStores
  <2> QED
    BY <1>5, <2>1, CallbackStoresShape, WriterFacts, LinksOfNewRow
<1>6. ASSUME NEW w \in Writers, NEW s \in Services, NEW g \in Grants, ConnectBegins(w, s, g)
      PROVE  LinksInOrder'
  <2>1. torn' = torn
    BY <1>6 DEF ConnectBegins
  <2>2. NoWriter.pc # "link"
    BY DEF NoWriter
  <2> QED
    BY <1>6, <2>1, <2>2, ConnectBeginsShape, LinksOfNewRow
<1>7. ASSUME NEW s \in Services, Disconnect(s) PROVE LinksInOrder'
  <2>1. UNCHANGED <<writer, vault, issued, owner, torn>>
    BY <1>7 DEF Disconnect, flow
  <2>2. \A t \in Services : conn'[t].ref = conn[t].ref /\ (conn'[t].active => conn[t].active)
    <3> DEFINE c == [conn[s] EXCEPT !.active = FALSE]
    <3>1. conn' = [conn EXCEPT ![s] = c]
      BY <1>7 DEF Disconnect
    <3>2. conn[s] \in Conn
      BY <1>7, ConnFacts DEF Disconnect, Connected, NoConn
    <3>3. c.ref = conn[s].ref /\ ~c.active
      BY <3>2 DEF Conn
    <3> HIDE DEF c
    <3> QED
      BY <3>1, <3>3 DEF VaultTypes
  <2>3. NewTokensApart'
    BY <2>1, <2>2 DEF LinksInOrder, NewTokensApart, Stored
  <2>4. RefsOfServices'
    BY <2>1, <2>2 DEF LinksInOrder, RefsOfServices
  <2>5. ActiveConnectionHasToken'
    BY <2>1, <2>2 DEF LinksInOrder, ActiveConnectionHasToken, Connected, Stored
  <2> QED
    BY <2>3, <2>4, <2>5 DEF LinksInOrder
<1>8. CASE VaultWriterNext
  <2>1. ASSUME NEW x \in States, StateLapses(x) \/ \E s \in Services : Authorize(x, s)
        PROVE  LinksInOrder'
    BY <1>1, <2>1 DEF StateLapses, Authorize
  <2> QED
    BY <1>2, <1>3, <1>4, <1>5, <1>6, <1>7, <1>8, <2>1, LinksOfDelete, LinksOfLink
       DEF VaultWriterNext
<1>9. ASSUME NEW r \in Refs, AgeToken(r) PROVE LinksInOrder'
  <2>1. UNCHANGED <<writer, conn, issued, owner, torn>>
    BY <1>9 DEF AgeToken, flow
  <2> QED
    BY <1>9, <2>1, AgeTokenShape, LinksKept
<1>10. ASSUME NEW q \in Requests, NEW dated \in BOOLEAN, StoreRefresh(q, dated) PROVE LinksInOrder'
  <2>1. UNCHANGED <<writer, conn, issued, owner, torn>>
    BY <1>10 DEF StoreRefresh, flow
  <2> QED
    BY <1>10, <2>1, StoreRefreshShape, LinksKept
<1>11. CASE Restart
  <2>1. /\ UNCHANGED <<vault, conn, issued, owner>>
        /\ writer' = [w \in Writers |-> NoWriter]
        /\ torn' = torn \cup {s \in Services : Connected(s) /\ ~Stored(conn[s].ref)}
    BY <1>11 DEF Restart, store
  <2>2. \A w \in Writers : writer'[w].new = 0 /\ writer'[w].old = 0 /\ writer'[w].pc = "idle"
    BY <2>1 DEF NoWriter
  <2>3. NewTokensApart'
    BY <2>2 DEF NewTokensApart
  <2>4. RefsOfServices'
    BY <2>1, <2>2 DEF LinksInOrder, RefsOfServices
  <2>5. ActiveConnectionHasToken'
    BY <2>1 DEF ActiveConnectionHasToken, Connected, Stored
  <2> QED
    BY <2>3, <2>4, <2>5 DEF LinksInOrder
<1>12. CASE \/ \E q \in Requests, s \in Services : RefreshForced(q, s)
            \/ \E q \in Requests, r \in Refs : TaskFires(q, r)
            \/ SweepBegins \/ SweepEnds
            \/ \E r \in Refs : SweepTakes(r) \/ TimerFires(r) \/ TimerAnswered(r)
            \/ \E q \in Requests : ProviderAnswers(q) \/ ProviderRefuses(q) \/ ProviderFails(q)
            \/ UNCHANGED vvars
  BY <1>1, <1>12 DEF RefreshForced, TaskFires, SweepBegins, SweepEnds, SweepTakes, TimerFires,
     TimerAnswered, ProviderAnswers, ProviderRefuses, ProviderFails, vvars, flow
<1> QED
  BY <1>8, <1>9, <1>10, <1>11, <1>12 DEF VaultNext

-----------------------------------------------------------------------------
(* The OAuth states. *)

OAuthLife == [x \in States |-> StateLife(x)]

\* What one step makes of one state x of a flow.
LEMMA StateMoves ==
  ASSUME StatesInOrder, NEW x \in States,
         pending' \in [States -> PendingStates], redeemed' \in [States -> {0, 1}],
         \A y \in States \ {x} : pending'[y] = pending[y] /\ redeemed'[y] = redeemed[y],
         \/ /\ pending[x].life = "none" /\ pending'[x].life = "live" /\ redeemed'[x] = redeemed[x]
         \/ /\ pending[x].life \in {"live", "stale"} /\ pending'[x].life \in {"stale", "spent"}
            /\ redeemed'[x] = redeemed[x]
         \/ pending[x].life = "live" /\ pending'[x].life = "spent" /\ redeemed'[x] = 1
  PROVE  StatesInOrder' /\ [StateOnce!Next]_OAuthLife
<1>1. redeemed[x] = 0 /\ \A y \in States : redeemed[y] \in {0, 1} /\ redeemed'[y] \in {0, 1}
  BY DEF StatesInOrder
<1>2. StatesInOrder'
  BY <1>1 DEF StatesInOrder
<1>3. \A y \in States \ {x} : StateLife(y)' = StateLife(y)
  BY DEF StateLife
<1>4. CASE StateLife(x)' = StateLife(x)
  <2>1. OAuthLife' = OAuthLife
    BY <1>3, <1>4 DEF OAuthLife
  <2> QED
    BY <1>2, <2>1
<1>5. CASE StateLife(x) = "unissued" /\ StateLife(x)' = "open"
  <2>1. StateOnce!Issue(x, {})
    BY <1>3, <1>5 DEF StateOnce!Issue, OAuthLife
  <2>2. StateOnce!Next
    BY <2>1 DEF StateOnce!Next, OAuthLife
  <2> QED
    BY <1>2, <2>2
<1>6. CASE StateLife(x) = "open" /\ StateLife(x)' = "gone"
  <2>1. StateOnce!Lapse({x})
    BY <1>3, <1>6 DEF StateOnce!Lapse, OAuthLife
  <2>2. {x} \in SUBSET {y \in States : OAuthLife[y] = "open"}
    BY <1>6 DEF OAuthLife
  <2>3. StateOnce!Next
    BY <2>1, <2>2 DEF StateOnce!Next, OAuthLife
  <2> QED
    BY <1>2, <2>3
<1>7. CASE StateLife(x) = "open" /\ StateLife(x)' = "used"
  <2>1. StateOnce!Accept(x)
    BY <1>3, <1>7 DEF StateOnce!Accept, OAuthLife
  <2>2. {x} \in SUBSET {y \in States : OAuthLife[y] = "open"}
    BY <1>7 DEF OAuthLife
  <2>3. StateOnce!Next
    BY <2>1, <2>2 DEF StateOnce!Next, OAuthLife
  <2> QED
    BY <1>2, <2>3
<1>8. \/ StateLife(x)' = StateLife(x)
      \/ StateLife(x) = "unissued" /\ StateLife(x)' = "open"
      \/ StateLife(x) = "open" /\ StateLife(x)' \in {"gone", "used"}
  BY <1>1 DEF StateLife
<1> QED
  BY <1>4, <1>5, <1>6, <1>7, <1>8

LEMMA StatesStep ==
  ASSUME StatesInOrder, [VaultNext]_vvars
  PROVE  StatesInOrder' /\ [StateOnce!Next]_OAuthLife
<1>1. CASE UNCHANGED <<pending, redeemed>>
  <2>1. \A y \in States : StateLife(y)' = StateLife(y)
    BY <1>1 DEF StateLife
  <2> QED
    BY <1>1, <2>1 DEF StatesInOrder, OAuthLife
<1>2. ASSUME NEW x \in States, NEW s \in Services, Authorize(x, s)
      PROVE  StatesInOrder' /\ [StateOnce!Next]_OAuthLife
  <2> DEFINE p == [svc |-> s, life |-> "live"]
  <2>1. /\ pending[x].life = "none" /\ redeemed' = redeemed
        /\ pending' = [pending EXCEPT ![x] = p]
    BY <1>2 DEF Authorize, NoState
  <2>2. p \in PendingStates /\ p.life = "live"
    BY DEF PendingStates
  <2> HIDE DEF p
  <2>3. /\ pending' \in [States -> PendingStates] /\ pending'[x].life = "live"
        /\ \A y \in States \ {x} : pending'[y] = pending[y]
    BY <2>1, <2>2 DEF StatesInOrder
  <2> QED
    BY <2>1, <2>3, StateMoves DEF StatesInOrder
<1>3. ASSUME NEW x \in States, NEW life \in {"stale", "spent"}, pending[x].life \in {"live", "stale"},
             pending' = [pending EXCEPT ![x].life = life]
      PROVE  /\ pending' \in [States -> PendingStates] /\ pending'[x].life = life
             /\ \A y \in States \ {x} : pending'[y] = pending[y]
  <2> DEFINE p == [pending[x] EXCEPT !.life = life]
  <2>1. pending[x] \in PendingStates /\ pending[x] # NoState
    BY <1>3 DEF StatesInOrder, NoState
  <2>2. p \in PendingStates /\ p.life = life
    BY <2>1 DEF PendingStates
  <2>3. pending' = [pending EXCEPT ![x] = p]
    BY <1>3
  <2> HIDE DEF p
  <2> QED
    BY <2>2, <2>3 DEF StatesInOrder
<1>4. ASSUME NEW x \in States, StateLapses(x)
      PROVE  StatesInOrder' /\ [StateOnce!Next]_OAuthLife
  <2>1. /\ pending[x].life = "live" /\ redeemed' = redeemed
        /\ pending' = [pending EXCEPT ![x].life = "stale"]
    BY <1>4 DEF StateLapses
  <2> QED
    BY <1>3, <2>1, StateMoves DEF StatesInOrder
<1>5. ASSUME NEW w \in Writers, NEW x \in States, NEW s \in Services, CallbackBegins(w, x, s)
      PROVE  StatesInOrder' /\ [StateOnce!Next]_OAuthLife
  <2>1. /\ pending[x].life \in {"live", "stale"}
        /\ pending' = [pending EXCEPT ![x].life = "spent"]
    BY <1>5 DEF CallbackBegins, Consumed
  <2>2. \/ redeemed' = redeemed
        \/ pending[x].life = "live" /\ redeemed' = [redeemed EXCEPT ![x] = @ + 1]
    BY <1>5 DEF CallbackBegins
  <2>3. redeemed[x] = 0
    BY <2>1 DEF StatesInOrder
  <2>4. CASE redeemed' = redeemed
    BY <1>3, <2>1, <2>4, StateMoves DEF StatesInOrder
  <2>5. CASE pending[x].life = "live" /\ redeemed' = [redeemed EXCEPT ![x] = @ + 1]
    <3>1. /\ redeemed' \in [States -> {0, 1}] /\ redeemed'[x] = 1
          /\ \A y \in States \ {x} : redeemed'[y] = redeemed[y]
      BY <2>3, <2>5 DEF StatesInOrder
    <3> QED
      BY <1>3, <2>1, <2>5, <3>1, StateMoves
  <2> QED
    BY <2>2, <2>4, <2>5
<1>6. CASE Restart
  <2> DEFINE S == {x \in States : OAuthLife[x] = "open"}
  <2>1. /\ redeemed' = redeemed
        /\ \A x \in States : pending'[x] = IF pending[x] = NoState THEN NoState
                                           ELSE [pending[x] EXCEPT !.life = "spent"]
        /\ pending' = [x \in States |-> pending'[x]]
    BY <1>6 DEF Restart
  <2>2. \A x \in States : /\ pending[x] \in PendingStates /\ redeemed[x] \in {0, 1}
                          /\ redeemed[x] = 1 => pending[x].life = "spent"
    BY DEF StatesInOrder
  <2>3. \A x \in States : /\ pending'[x] \in PendingStates
                          /\ pending[x].life = "none" => pending'[x].life = "none"
                          /\ pending[x].life # "none" => pending'[x].life = "spent"
    BY <2>1, <2>2 DEF PendingStates, NoState
  <2>4. pending' \in [States -> PendingStates]
    <3> DEFINE P == pending'
    <3>1. P = [x \in States |-> P[x]] /\ \A x \in States : P[x] \in PendingStates
      BY <2>1, <2>3
    <3> HIDE DEF P
    <3>2. P \in [States -> PendingStates]
      BY <3>1
    <3> QED
      BY <3>2 DEF P
  <2>5. StatesInOrder'
    BY <2>1, <2>2, <2>3, <2>4 DEF StatesInOrder
  <2>6. \A x \in States : StateLife(x)' = IF StateLife(x) = "open" THEN "gone" ELSE StateLife(x)
    BY <2>1, <2>2, <2>3 DEF StateLife, PendingStates, NoState
  <2>7. StateOnce!Lapse(S)
    BY <2>6 DEF StateOnce!Lapse, OAuthLife
  <2>8. StateOnce!Next
    BY <2>7 DEF StateOnce!Next, OAuthLife
  <2> QED
    BY <2>5, <2>8
<1>7. CASE VaultWriterNext
  <2>1. CASE \/ \E w \in Writers : ExchangeFails(w) \/ CallbackReads(w) \/ ConnectReads(w)
                                   \/ DeletesOld(w) \/ Links(w)
             \/ \E w \in Writers, g \in Grants : CallbackStores(w, g)
             \/ \E w \in Writers, s \in Services, g \in Grants : ConnectBegins(w, s, g)
             \/ \E s \in Services : Disconnect(s)
    BY <1>1, <2>1 DEF ExchangeFails, CallbackReads, ConnectReads, DeletesOld, Links,
       CallbackStores, ConnectBegins, Disconnect, flow
  <2> QED
    BY <1>2, <1>4, <1>5, <1>7, <2>1 DEF VaultWriterNext
<1>8. CASE \/ \E q \in Requests, s \in Services : RefreshForced(q, s)
           \/ \E q \in Requests, r \in Refs : TaskFires(q, r)
           \/ SweepBegins \/ SweepEnds
           \/ \E r \in Refs : SweepTakes(r) \/ TimerFires(r) \/ TimerAnswered(r) \/ AgeToken(r)
           \/ \E q \in Requests : ProviderAnswers(q) \/ ProviderRefuses(q) \/ ProviderFails(q)
                                  \/ \E dated \in BOOLEAN : StoreRefresh(q, dated)
           \/ UNCHANGED vvars
  BY <1>1, <1>8 DEF RefreshForced, TaskFires, SweepBegins, SweepEnds, SweepTakes, TimerFires,
     TimerAnswered, AgeToken, ProviderAnswers, ProviderRefuses, ProviderFails, StoreRefresh,
     vvars, flow
<1> QED
  BY <1>6, <1>7, <1>8 DEF VaultNext

-----------------------------------------------------------------------------
(* What holds in every state. *)

VaultInv == VaultTypes /\ TokensInOrder /\ LinksInOrder /\ StatesInOrder

(* What the steps of requests, refreshes and restarts keep: types, the order *)
(* of refresh tokens, whose token is whose, and the life of an OAuth state.  *)
THEOREM VaultInvariance == VaultSpec => []VaultInv
<1>1. VaultInit => VaultInv
  BY VaultInitHolds DEF VaultInv
<1>2. VaultInv /\ [VaultNext]_vvars => VaultInv'
  BY VaultTypesStep, TokensStep, LinksStep, StatesStep DEF VaultInv
<1> QED
  BY <1>1, <1>2, PTL DEF VaultSpec

(* The state of the vault has its type, with every reference it has in use   *)
(* one that was given out.                                                   *)
THEOREM VaultTypesHold == VaultSpec => []VaultTypeOK
<1>1. VaultInv => VaultTypeOK
  <2> SUFFICES ASSUME VaultTypes PROVE VaultTypeOK
    BY DEF VaultInv
  <2>1. \A q \in Requests : call[q].todo \subseteq Refs /\ call[q].ref \in 0..MaxRefs
    BY DEF VaultTypes, Calls
  <2>2. \A w \in Writers : {writer[w].old, writer[w].new} \subseteq 0..MaxRefs
    BY WriterFacts
  <2> QED
    BY <2>1, <2>2 DEF VaultTypes, VaultTypeOK
<1> QED
  BY <1>1, VaultInvariance, PTL

(* However refreshes, reconnections, lost answers and restarts interleave,   *)
(* the vault keeps the refresh token the provider accepts, or the answer     *)
(* that carries it is on its way or was lost.                                *)
THEOREM RefreshTokens == VaultSpec => []RefreshTokenInSync
<1>1. VaultInv => RefreshTokenInSync
  <2> SUFFICES ASSUME VaultInv, NEW r \in Refs, Stored(r), vault[r].rt # 0, r \notin lost
               PROVE  \/ vault[r].rt = current[r]
                      \/ \E q \in Requests : call[q].ref = r /\ call[q].phase = "answered"
                                             /\ call[q].new = current[r]
    BY DEF RefreshTokenInSync
  <2>1. IF rotates[owner[r]] THEN RotatedInOrder(r) ELSE OneToken(r)
    BY RowFacts DEF VaultInv, TokensInOrder
  <2> QED
    BY <2>1 DEF RotatedInOrder, OneToken, Answered
<1> QED
  BY <1>1, VaultInvariance, PTL

(* Requests that replace one connection at once leave it with a token.       *)
THEOREM ConnectionTokens == VaultSpec => []ActiveConnectionHasToken
<1>1. VaultInv => ActiveConnectionHasToken
  BY DEF VaultInv, LinksInOrder
<1> QED
  BY <1>1, VaultInvariance, PTL

(* A refresh that began before a token was deleted does not bring it back.   *)
THEOREM DeletedTokens == VaultSpec => DeletedTokensStayDeleted
<1>1. VaultInv /\ [VaultNext]_vvars
        => [\A r \in 1..issued : ~Stored(r) => vault'[r] = NoRow]_vvars
  <2> SUFFICES ASSUME VaultInv, VaultNext, NEW r \in 1..issued, ~Stored(r)
               PROVE  vault'[r] = NoRow
    OBVIOUS
  <2> USE DEF VaultInv
  <2>1. r \in Refs /\ vault[r] = NoRow /\ r # issued + 1
    BY DEF VaultTypes, Stored
  <2>2. CASE vault' = vault
    BY <2>1, <2>2
  <2>3. ASSUME NEW w \in Writers, DeletesOld(w) PROVE vault'[r] = NoRow
    BY <2>1, <2>3, DeletesOldShape
  <2>4. ASSUME NEW w \in Writers, NEW g \in Grants, CallbackStores(w, g) PROVE vault'[r] = NoRow
    BY <2>1, <2>4, CallbackStoresShape, WriterFacts, StoresRowShape
  <2>5. ASSUME NEW w \in Writers, NEW s \in Services, NEW g \in Grants, ConnectBegins(w, s, g)
        PROVE  vault'[r] = NoRow
    BY <2>1, <2>5, ConnectBeginsShape, StoresRowShape
  <2>6. ASSUME NEW i \in Refs, AgeToken(i) PROVE vault'[r] = NoRow
    BY <2>1, <2>6, AgeTokenShape
  <2>7. ASSUME NEW q \in Requests, NEW dated \in BOOLEAN, StoreRefresh(q, dated) PROVE vault'[r] = NoRow
    BY <2>1, <2>7, StoreRefreshShape
  <2>8. CASE VaultWriterNext
    <3>1. CASE \/ \E x \in States, s \in Services : Authorize(x, s)
               \/ \E x \in States : StateLapses(x)
               \/ \E w \in Writers, x \in States, s \in Services : CallbackBegins(w, x, s)
               \/ \E w \in Writers : ExchangeFails(w) \/ CallbackReads(w) \/ ConnectReads(w)
                                     \/ Links(w)
               \/ \E s \in Services : Disconnect(s)
      BY <2>2, <3>1 DEF Authorize, StateLapses, CallbackBegins, ExchangeFails, CallbackReads,
         ConnectReads, Links, Disconnect, store
    <3> QED
      BY <2>3, <2>4, <2>5, <2>8, <3>1 DEF VaultWriterNext
  <2>9. CASE \/ \E q \in Requests, s \in Services : RefreshForced(q, s)
             \/ \E q \in Requests, i \in Refs : TaskFires(q, i)
             \/ SweepBegins \/ SweepEnds
             \/ \E i \in Refs : SweepTakes(i) \/ TimerFires(i) \/ TimerAnswered(i)
             \/ \E q \in Requests : ProviderAnswers(q) \/ ProviderRefuses(q) \/ ProviderFails(q)
             \/ Restart
    BY <2>2, <2>9 DEF RefreshForced, TaskFires, SweepBegins, SweepEnds, SweepTakes, TimerFires,
       TimerAnswered, ProviderAnswers, ProviderRefuses, ProviderFails, Restart, store
  <2> QED
    BY <2>6, <2>7, <2>8, <2>9 DEF VaultNext
<1> QED
  BY <1>1, VaultInvariance, PTL DEF VaultSpec, DeletedTokensStayDeleted

(* An OAuth state keeps the promise of a single-use secret: every step of    *)
(* connecting a service is a step of OneShot, or none.                       *)
THEOREM OAuthStates == VaultSpec => OAuthStatesAreSingleUse
<1>1. VaultInit => StateOnce!Init
  BY DEF VaultInit, StateOnce!Init, StateLife, NoState
<1>2. VaultInv /\ [VaultNext]_vvars => [StateOnce!Next]_OAuthLife
  BY StatesStep DEF VaultInv
<1> QED
  BY <1>1, <1>2, VaultInvariance, PTL DEF VaultSpec, OAuthStatesAreSingleUse, StateOnce!Spec, OAuthLife
=============================================================================
