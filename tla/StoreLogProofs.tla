--------------------------- MODULE StoreLogProofs ---------------------------
(***************************************************************************)
(* Proofs about the log of the persistent store: it implements the atomic  *)
(* map of StoreModel.                                                      *)
(***************************************************************************)
EXTENDS StoreLog, NatLemmas, FiniteSetTheorems

Keys == 0 .. MaxKey

-----------------------------------------------------------------------------
\* The shapes of a log.

Kinds == {"User", "Remove", "Clear", "Marker", "Partial"}

IsEntry(e) ==
  /\ e.kind \in Kinds
  /\ e.arg \in Nat
  /\ e.kind = "User" => e.value # NoValue /\ Len(e.value) \in Nat
  /\ e.kind # "User" => e.value = NoValue

\* A log that ends at t.
IsLog(l, t) ==
  /\ t \in Nat
  /\ l = [p \in DOMAIN l |-> l[p]]
  /\ \A p \in DOMAIN l : p \in Nat /\ IsEntry(l[p]) /\ p + size(l[p]) <= t
  /\ \A p, q \in DOMAIN l : p < q => p + size(l[p]) <= q

\* The entries of S have distinct arguments.
Distinct(l, S) == \A p, q \in S : l[p].arg = l[q].arg => p = q

\* Between operations: one user entry for each key that has a value.
Clean(l) ==
  /\ \A p \in DOMAIN l : l[p].kind = "User"
  /\ Distinct(l, DOMAIN l)

\* The same, and perhaps an entry that is being written.
Open(l) ==
  \A p \in DOMAIN l :
    \/ /\ l[p].kind = "User"
       /\ \A q \in DOMAIN l : l[q].kind = "User" /\ l[q].arg = l[p].arg => q = p
    \/ /\ l[p].kind = "Partial"
       /\ \A q \in DOMAIN l : q # p => q < p /\ l[q].kind = "User"

\* Up to position s there are user entries of distinct keys.
CleanBefore(l, s) ==
  /\ \A p \in DOMAIN l : p < s => l[p].kind = "User"
  /\ Distinct(l, {p \in DOMAIN l : p < s})

\* A clear entry that is being applied.
ClearAt(l, s) ==
  /\ s \in DOMAIN l
  /\ l[s].kind = "Clear"
  /\ \A p \in DOMAIN l : p <= s
  /\ CleanBefore(l, s)

\* A transaction that is being written, applied or rolled back.
MarkerAt(l, m) ==
  /\ m \in DOMAIN l
  /\ l[m].kind = "Marker"
  /\ CleanBefore(l, m)
  /\ \A p \in DOMAIN l : p > m => l[p].kind \in {"User", "Remove", "Partial"}
  /\ Cardinality(Updates(l, m)) <= l[m].arg
  /\ Complete(l, m) =>
       /\ \A p \in DOMAIN l : p > m => l[p].kind \in {"User", "Remove"}
       /\ Distinct(l, Updates(l, m))

\* A transaction that was applied, its remove entries being left.
Removes(l) ==
  /\ \A p \in DOMAIN l : l[p].kind \in {"User", "Remove"}
  /\ Distinct(l, DOMAIN l)

\* An insertion, of which the entry is the last one.
InsertAt(l, t, last) ==
  /\ last \in DOMAIN l
  /\ last + size(l[last]) = t
  /\ \A p \in DOMAIN l : l[p].kind = "User" /\ p <= last
  /\ Distinct(l, DOMAIN l \ {last})

\* What a power loss may leave.
Recoverable(l, t) ==
  \/ Open(l)
  \/ \E s \in DOMAIN l : ClearAt(l, s)
  \/ \E m \in DOMAIN l : MarkerAt(l, m)
  \/ Removes(l)
  \/ \E last \in DOMAIN l : InsertAt(l, t, last)

\* An entry that is being written is the last one.
PartialLast(l) ==
  \A p \in DOMAIN l : l[p].kind = "Partial" => \A q \in DOMAIN l : q # p => q < p

\* The marker of a transaction, and its first n updates after it.
Wrote(l, m, updates, n) ==
  /\ MarkerAt(l, m)
  /\ l[m].arg = Len(updates)
  /\ Cardinality(Updates(l, m)) = n
  /\ \A p \in Updates(l, m) : \E i \in 1 .. n : l[p] = UpdateEntry(updates[i])
  /\ \A i \in 1 .. n : \E p \in Updates(l, m) : l[p] = UpdateEntry(updates[i])
  /\ Distinct(l, Updates(l, m))
  /\ PartialLast(l)

\* An operation that passed the checks of its arguments.
Accepted(o) ==
  /\ o.name = "transaction" => transaction_valid(o.updates)
  /\ o.name = "clear" => o.min_key <= MaxKey

\* The operations by the entries they write: none, one update, a clear entry, a
\* marker and its updates.
Inserts(o) == o.name = "transaction" /\ Len(o.updates) = 1 /\ o.updates[1].value # NoValue

Clears(o) == o.name = "clear"

Transacts(o) == o.name = "transaction" /\ Len(o.updates) > 1

\* The log of an operation all of whose entries are written.
Written(l, t, o) ==
  \/ Clears(o) /\ (Clean(l) \/ \E s \in DOMAIN l : ClearAt(l, s))
  \/ Inserts(o) /\ \E last \in DOMAIN l :
                     InsertAt(l, t, last) /\ l[last].arg = o.updates[1].key
  \/ Transacts(o) /\ (Removes(l) \/ \E m \in DOMAIN l : MarkerAt(l, m) /\ Complete(l, m))

\* The log of an operation under way, by the number of entries it wrote.
UnderWay(l, t, o, n) ==
  \/ EntriesOf(o) = <<>> /\ n = 0 /\ Clean(l)
  \/ EntriesOf(o) # <<>> /\ n = 0 /\ Open(l)
  \/ /\ Transacts(o)
     /\ n \in 1 .. Len(o.updates)
     /\ \E m \in DOMAIN l : Wrote(l, m, o.updates, n - 1)
  \/ /\ EntriesOf(o) # <<>>
     /\ n = Len(EntriesOf(o))
     /\ Written(l, t, o)
     /\ Content(l) = Model!Apply(o, Content(l))

LogInv ==
  /\ IsLog(log, tail_pos)
  /\ phase \in {"off", "recovering", "ready", "running"}
  /\ phase \in {"off", "recovering"} => Recoverable(log, tail_pos)
  /\ phase = "ready" => Clean(log)
  /\ phase = "running" =>
       /\ op \in Operations
       /\ verdict # "Ok" => Clean(log) /\ written = 0
       /\ verdict = "Ok" => Accepted(op) /\ UnderWay(log, tail_pos, op, written)

-----------------------------------------------------------------------------
\* Logs.

(* The entries of a log have sizes, and it is finite. *)
LEMMA LogFacts ==
  ASSUME NEW l, NEW t, IsLog(l, t)
  PROVE  /\ t \in Nat
         /\ \A p \in DOMAIN l : /\ p \in 0 .. t - 1
                                /\ size(l[p]) \in Nat \ {0}
                                /\ p + size(l[p]) <= t
                                /\ l[p].kind \in Kinds
                                /\ l[p].arg \in Nat
                                /\ l[p].kind # "User" => l[p].value = NoValue
                                /\ l[p].kind = "User" => l[p].value # NoValue
         /\ IsFiniteSet(DOMAIN l)
<1>1. \A p \in DOMAIN l : size(l[p]) \in Nat \ {0}
  BY DEF IsLog, IsEntry, size, entry_size
<1>2. t \in Nat /\ \A p \in DOMAIN l : p \in Nat /\ p + size(l[p]) <= t
  BY DEF IsLog
<1>3. \A p \in DOMAIN l : p \in 0 .. t - 1
  BY <1>1, <1>2
<1>4. IsFiniteSet(DOMAIN l)
  <2>1. DOMAIN l \subseteq 0 .. t - 1
    BY <1>3
  <2>2. IsFiniteSet(0 .. t - 1)
    BY <1>2, FS_Interval
  <2> QED
    BY <2>1, <2>2, FS_Subset
<1>5. \A p \in DOMAIN l : /\ l[p].kind \in Kinds
                          /\ l[p].arg \in Nat
                          /\ l[p].kind # "User" => l[p].value = NoValue
                          /\ l[p].kind = "User" => l[p].value # NoValue
  BY Zenon DEF IsLog, IsEntry
<1> QED
  BY <1>1, <1>2, <1>3, <1>4, <1>5

(* The last entry about a key decides. *)
LEMMA Decides ==
  ASSUME NEW l, NEW t, IsLog(l, t), NEW k \in Keys
  PROVE  /\ About(l, k) = {} => Content(l)[k] = NoValue
         /\ \A p \in About(l, k) : (\A q \in About(l, k) : q <= p) => Content(l)[k] = l[p].value
         /\ About(l, k) # {} => \E p \in About(l, k) : \A q \in About(l, k) : q <= p
<1>1. About(l, k) \in SUBSET Nat /\ \A p \in About(l, k) : p <= t
  <2>1. About(l, k) \subseteq DOMAIN l
    BY DEF About, Effective
  <2> QED
    BY <2>1, LogFacts
<1>2. t \in Nat
  BY LogFacts
<1>3. ASSUME About(l, k) # {}
      PROVE  /\ Max(About(l, k)) \in About(l, k)
             /\ \A q \in About(l, k) : q <= Max(About(l, k))
  BY <1>1, <1>2, <1>3, MaxOfNats
<1>4. Content(l)[k] = IF About(l, k) = {} THEN NoValue ELSE l[Max(About(l, k))].value
  BY Zenon DEF Content, Keys
<1>5. ASSUME NEW p \in About(l, k), \A q \in About(l, k) : q <= p
      PROVE  Content(l)[k] = l[p].value
  <2>1. p <= Max(About(l, k)) /\ Max(About(l, k)) <= p /\ p \in Nat /\ Max(About(l, k)) \in Nat
    BY <1>1, <1>3, <1>5
  <2>2. p = Max(About(l, k))
    BY <2>1
  <2> QED
    BY <1>4, <1>5, <2>2
<1> QED
  BY <1>3, <1>4, <1>5

(* Contents that agree on every key are the same. *)
LEMMA SameContent ==
  ASSUME NEW l, NEW l2, \A k \in Keys : Content(l)[k] = Content(l2)[k]
  PROVE  Content(l) = Content(l2)
<1>1. Content(l) = [k \in Keys |-> Content(l)[k]]
  BY Zenon DEF Content, Keys
<1>2. Content(l2) = [k \in Keys |-> Content(l2)[k]]
  BY Zenon DEF Content, Keys
<1> QED
  BY <1>1, <1>2

(* Padding an entry. *)
LEMMA WithoutLog ==
  ASSUME NEW l, NEW t, IsLog(l, t), NEW pos
  PROVE  /\ IsLog(Without(l, pos), t)
         /\ DOMAIN Without(l, pos) = DOMAIN l \ {pos}
         /\ \A p \in DOMAIN l \ {pos} : Without(l, pos)[p] = l[p]
<1>1. DOMAIN Without(l, pos) = DOMAIN l \ {pos}
  BY DEF Without
<1>2. \A p \in DOMAIN l \ {pos} : Without(l, pos)[p] = l[p]
  BY DEF Without
<1>3. Without(l, pos) = [p \in DOMAIN Without(l, pos) |-> Without(l, pos)[p]]
  BY DEF Without
<1> QED
  BY <1>1, <1>2, <1>3 DEF IsLog

\* Log w is log l with an entry e at pos, and it ends at u.
Placed(l, w, u, pos, e) ==
  /\ IsLog(w, u)
  /\ DOMAIN w = DOMAIN l \cup {pos}
  /\ w[pos] = e
  /\ \A p \in DOMAIN l \ {pos} : w[p] = l[p]

\* The other entries of l end before pos.
EndBefore(l, pos) == \A p \in DOMAIN l : p # pos => p + size(l[p]) <= pos

(* Writing an entry. *)
LEMMA WithLog ==
  ASSUME NEW l, NEW t, IsLog(l, t), NEW pos \in Nat, NEW e, IsEntry(e),
         NEW u \in Nat, pos + size(e) <= u, EndBefore(l, pos)
  PROVE  Placed(l, With(l, pos, e), u, pos, e)
<1>1. DOMAIN With(l, pos, e) = DOMAIN l \cup {pos}
  BY DEF With
<1>2. \A p \in DOMAIN l \ {pos} : With(l, pos, e)[p] = l[p]
  BY DEF With
<1>3. With(l, pos, e) = [p \in DOMAIN With(l, pos, e) |-> With(l, pos, e)[p]]
  BY DEF With
<1>4. With(l, pos, e)[pos] = e
  BY DEF With
<1>5. size(e) \in Nat \ {0} /\ \A p \in DOMAIN l : p \in Nat /\ size(l[p]) \in Nat \ {0}
  BY LogFacts DEF IsLog, IsEntry, size, entry_size
<1> DEFINE w == With(l, pos, e)
<1> HIDE DEF w
<1>6. \A p \in DOMAIN w : p \in Nat /\ IsEntry(w[p]) /\ p + size(w[p]) <= u
  BY <1>1, <1>2, <1>4, <1>5 DEF IsLog, w, EndBefore
<1>7. ASSUME NEW p \in DOMAIN w, NEW q \in DOMAIN w, p < q PROVE p + size(w[p]) <= q
  <2>1. p # pos
    BY <1>1, <1>5, <1>7 DEF w, EndBefore
  <2>2. p \in DOMAIN l /\ w[p] = l[p]
    BY <1>1, <1>2, <2>1 DEF w
  <2>3. CASE q = pos
    BY <2>1, <2>2, <2>3 DEF EndBefore
  <2>4. CASE q # pos
    BY <1>1, <1>7, <2>2, <2>4 DEF IsLog, w
  <2> QED
    BY <2>3, <2>4
<1>8. IsLog(w, u)
  BY <1>3, <1>6, <1>7 DEF IsLog, w
<1> QED
  BY <1>1, <1>2, <1>4, <1>8 DEF w, Placed

(* Padding keeps the content if the entry does not decide, or if it alone    *)
(* says that a key has no value.                                            *)
LEMMA PadContent ==
  ASSUME NEW l, NEW t, IsLog(l, t), NEW pos \in DOMAIN l,
         Effective(Without(l, pos)) = Effective(l) \ {pos},
         \A k \in Keys : pos \in About(l, k) =>
           \/ \E q \in About(l, k) : q > pos
           \/ l[pos].value = NoValue /\ About(l, k) = {pos}
  PROVE  Content(Without(l, pos)) = Content(l)
<1> DEFINE w == Without(l, pos)
<1>1. IsLog(w, t) /\ DOMAIN w = DOMAIN l \ {pos} /\ \A p \in DOMAIN l \ {pos} : w[p] = l[p]
  BY WithoutLog
<1>2. \A k : About(w, k) = About(l, k) \ {pos}
  <2>1. \A p \in Effective(w) : p \in DOMAIN l \ {pos}
    BY DEF Effective
  <2> QED
    BY <1>1, <2>1 DEF About
<1> HIDE DEF w
<1> SUFFICES ASSUME NEW k \in Keys PROVE Content(w)[k] = Content(l)[k]
  BY SameContent DEF w
<1>3. About(l, k) \subseteq DOMAIN l /\ About(l, k) \subseteq Nat
  <2>1. About(l, k) \subseteq DOMAIN l
    BY DEF About, Effective
  <2> QED
    BY <2>1 DEF IsLog
<1>4. CASE About(l, k) = {}
  BY <1>1, <1>2, <1>4, Decides
<1>5. CASE About(l, k) # {} /\ pos \in About(l, k) /\ About(l, k) = {pos} /\ l[pos].value = NoValue
  <2>1. Content(l)[k] = l[pos].value
    <3>1. \A q \in About(l, k) : q <= pos
      BY <1>3, <1>5
    <3> QED
      BY <1>5, <3>1, Decides
  <2>2. About(w, k) = {}
    BY <1>2, <1>5
  <2> QED
    BY <1>1, <1>5, <2>1, <2>2, Decides
<1>6. CASE About(l, k) # {} /\ (pos \in About(l, k) => \E q \in About(l, k) : q > pos)
  <2>1. PICK p \in About(l, k) : \A q \in About(l, k) : q <= p
    BY <1>6, Decides
  <2>2. p # pos
    BY <1>3, <1>6, <2>1
  <2>3. p \in About(w, k) /\ \A q \in About(w, k) : q <= p
    BY <1>2, <2>1, <2>2
  <2>4. w[p] = l[p]
    BY <1>1, <1>3, <2>1, <2>2
  <2> QED
    BY <1>1, <2>1, <2>3, <2>4, Decides
<1> QED
  BY <1>4, <1>5, <1>6

-----------------------------------------------------------------------------
\* What a log of each shape stands for.

(* Without a marker every entry counts. *)
LEMMA NoMarker ==
  ASSUME NEW l, \A p \in DOMAIN l : l[p].kind # "Marker"
  PROVE  Effective(l) = DOMAIN l
BY DEF Effective, At

(* With one, every entry or those before it. *)
LEMMA OneMarker ==
  ASSUME NEW l, NEW t, IsLog(l, t), NEW m, MarkerAt(l, m)
  PROVE  /\ At(l, {"Marker"}) = {m}
         /\ Complete(l, m) => Effective(l) = DOMAIN l
         /\ ~Complete(l, m) => Effective(l) = {p \in DOMAIN l : p < m}
<1>1. \A p \in DOMAIN l : p \in Nat
  BY DEF IsLog
<1>2. m \in DOMAIN l /\ l[m].kind = "Marker"
  BY DEF MarkerAt
<1>3. \A p \in DOMAIN l : l[p].kind = "Marker" => ~(p < m) /\ ~(p > m)
  BY DEF MarkerAt, CleanBefore
<1>4. At(l, {"Marker"}) = {m}
  BY <1>1, <1>2, <1>3 DEF At
<1> QED
  BY <1>4 DEF Effective

(* A clean log holds the value of each key in an entry of its own, and that  *)
(* is what find returns.                                                    *)
LEMMA OpenContent ==
  ASSUME NEW l, NEW t, IsLog(l, t), Open(l), NEW k \in Keys
  PROVE  /\ \A p \in DOMAIN l : l[p].kind = "User" /\ l[p].arg = k => Content(l)[k] = l[p].value
         /\ (\A p \in DOMAIN l : ~(l[p].kind = "User" /\ l[p].arg = k)) => Content(l)[k] = NoValue
<1>1. \A p \in DOMAIN l : l[p].kind \in {"User", "Partial"}
  BY DEF Open
<1>2. Effective(l) = DOMAIN l
  BY <1>1, NoMarker
<1>3. About(l, k) = {p \in DOMAIN l : l[p].kind = "User" /\ l[p].arg = k}
  BY <1>1, <1>2 DEF About
<1>4. ASSUME NEW p \in DOMAIN l, l[p].kind = "User" /\ l[p].arg = k
      PROVE  Content(l)[k] = l[p].value
  <2>1. \A q \in About(l, k) : q = p
    BY <1>3, <1>4 DEF Open
  <2>2. p \in About(l, k) /\ \A q \in About(l, k) : q <= p
    BY <1>3, <1>4, <2>1 DEF IsLog
  <2> QED
    BY <2>2, Decides
<1>5. ASSUME \A p \in DOMAIN l : ~(l[p].kind = "User" /\ l[p].arg = k)
      PROVE  Content(l)[k] = NoValue
  BY <1>3, <1>5, Decides
<1> QED
  BY <1>4, <1>5

(* A clean log is open. *)
LEMMA CleanOpen ==
  ASSUME NEW l
  PROVE  /\ Clean(l) => Open(l)
         /\ Open(l) /\ At(l, {"Partial"}) = {} => Clean(l)
         /\ Clean(l) <=> Removes(l) /\ At(l, {"Remove"}) = {}
BY DEF Clean, Open, Distinct, At, Removes

(* In a clean log find returns the content. *)
LEMMA FindContent ==
  ASSUME NEW l, NEW t, IsLog(l, t), Clean(l), NEW k \in Keys
  PROVE  find(l, k) = Content(l)[k]
<1> DEFINE found == {p \in At(l, {"User"}) : l[p].arg = k}
<1>1. Open(l)
  BY CleanOpen
<1>2. found = {p \in DOMAIN l : l[p].kind = "User" /\ l[p].arg = k}
  BY DEF At
<1>3. CASE found = {}
  <2>1. find(l, k) = NoValue
    BY <1>3 DEF find
  <2>2. \A p \in DOMAIN l : ~(l[p].kind = "User" /\ l[p].arg = k)
    BY <1>2, <1>3
  <2> HIDE DEF found
  <2> QED
    BY <1>1, <2>1, <2>2, OpenContent
<1>4. CASE found # {}
  <2>1. found \in SUBSET Nat
    BY <1>2 DEF IsLog
  <2>2. find(l, k) = l[Min(found)].value
    BY <1>4 DEF find
  <2> HIDE DEF found
  <2>3. Min(found) \in found
    BY <1>4, <2>1, MinOfNats
  <2>4. Min(found) \in DOMAIN l /\ l[Min(found)].kind = "User" /\ l[Min(found)].arg = k
    BY <1>2, <2>3
  <2> QED
    BY <1>1, <2>2, <2>4, OpenContent
<1> QED
  BY <1>3, <1>4
-----------------------------------------------------------------------------
\* Deleting.

(* A partial entry is padded. *)
LEMMA PadPartial ==
  ASSUME NEW l, NEW t, IsLog(l, t), Open(l), NEW pos \in DOMAIN l, l[pos].kind = "Partial"
  PROVE  Clean(Without(l, pos)) /\ Content(Without(l, pos)) = Content(l)
<1> DEFINE w == Without(l, pos)
<1>1. DOMAIN w = DOMAIN l \ {pos} /\ \A p \in DOMAIN l \ {pos} : w[p] = l[p]
  BY WithoutLog
<1>2. \A p \in DOMAIN w : w[p].kind = "User"
  BY <1>1 DEF Open
<1>3. Clean(w)
  <2>1. \A p, q \in DOMAIN w : w[p].arg = w[q].arg => q = p
    BY <1>1, <1>2 DEF Open
  <2> QED
    BY <1>2, <2>1 DEF Clean, Distinct
<1>4. Effective(w) = DOMAIN w
  BY <1>2, NoMarker
<1>5. Effective(l) = DOMAIN l
  <2>1. \A p \in DOMAIN l : l[p].kind # "Marker"
    BY DEF Open
  <2> QED
    BY <2>1, NoMarker
<1>6. \A k \in Keys : pos \notin About(l, k)
  BY DEF About
<1>7. Effective(Without(l, pos)) = Effective(l) \ {pos}
  BY <1>1, <1>4, <1>5
<1> QED
  BY <1>3, <1>6, <1>7, PadContent

(* A user entry that a clear entry replaces is deleted. *)
LEMMA ClearDeletes ==
  ASSUME NEW l, NEW t, IsLog(l, t), NEW s, ClearAt(l, s),
         NEW pos \in Replaced(l, l[s].arg .. MaxKey, s)
  PROVE  ClearAt(Without(l, pos), s) /\ Content(Without(l, pos)) = Content(l)
<1> DEFINE w == Without(l, pos)
<1>1. DOMAIN w = DOMAIN l \ {pos} /\ \A p \in DOMAIN l \ {pos} : w[p] = l[p]
  BY WithoutLog
<1>2. pos \in DOMAIN l /\ pos < s /\ s \in DOMAIN l /\ l[pos].arg >= l[s].arg /\ pos \in Nat /\ s \in Nat
  <2>1. pos \in DOMAIN l /\ pos < s /\ l[pos].arg \in l[s].arg .. MaxKey
    BY DEF Replaced, At
  <2>2. s \in DOMAIN l
    BY DEF ClearAt
  <2>3. l[s].arg \in Nat /\ l[pos].arg \in Nat /\ pos \in Nat /\ s \in Nat
    BY <2>1, <2>2 DEF IsLog, IsEntry
  <2> QED
    BY <2>1, <2>2, <2>3, FormatAssumption
<1>3. \A p \in DOMAIN l : l[p].kind # "Marker"
  <2>1. \A p \in DOMAIN l : p <= s /\ (p < s => l[p].kind = "User") /\ p \in Nat
    BY DEF ClearAt, CleanBefore, IsLog
  <2>2. \A p \in DOMAIN l : p < s \/ p = s
    BY <1>2, <2>1
  <2> QED
    BY <2>1, <2>2 DEF ClearAt
<1>4. Effective(l) = DOMAIN l
  BY <1>3, NoMarker
<1>5. Effective(w) = DOMAIN w
  <2>1. \A p \in DOMAIN w : w[p].kind # "Marker"
    BY <1>1, <1>3
  <2> QED
    BY <2>1, NoMarker
<1>6. ClearAt(w, s)
  BY <1>1, <1>2 DEF ClearAt, CleanBefore, Distinct
<1>7. ASSUME NEW k \in Keys, pos \in About(l, k) PROVE \E q \in About(l, k) : q > pos
  <2>1. l[pos].kind = "User"
    BY DEF Replaced, At
  <2>2. l[pos].arg = k
    BY <1>7, <2>1 DEF About
  <2>3. s \in About(l, k)
    BY <1>2, <1>4, <2>2 DEF About, ClearAt
  <2> QED
    BY <1>2, <2>3
<1>8. Effective(Without(l, pos)) = Effective(l) \ {pos}
  BY <1>1, <1>4, <1>5
<1> QED
  BY <1>2, <1>6, <1>7, <1>8, PadContent

(* A clear entry is padded. *)
LEMMA ClearEnds ==
  ASSUME NEW l, NEW t, IsLog(l, t), NEW s, ClearAt(l, s), l[s].arg \in Nat,
         Replaced(l, l[s].arg .. MaxKey, s) = {}
  PROVE  Clean(Without(l, s)) /\ Content(Without(l, s)) = Content(l)
<1> DEFINE w == Without(l, s)
<1>1. DOMAIN w = DOMAIN l \ {s} /\ \A p \in DOMAIN l \ {s} : w[p] = l[p]
  BY WithoutLog
<1>2. s \in DOMAIN l /\ \A p \in DOMAIN l : p \in Nat
  BY DEF ClearAt, IsLog
<1>3. \A p \in DOMAIN w : p < s
  BY <1>1, <1>2 DEF ClearAt
<1>4. \A p \in DOMAIN w : w[p].kind = "User"
  BY <1>1, <1>3 DEF ClearAt, CleanBefore
<1>5. Clean(w)
  BY <1>1, <1>3, <1>4 DEF ClearAt, CleanBefore, Clean, Distinct
<1>6. Effective(w) = DOMAIN w
  BY <1>4, NoMarker
<1>7. Effective(l) = DOMAIN l
  <2>1. \A p \in DOMAIN l : l[p].kind # "Marker"
    <3>1. l[s].kind = "Clear"
      BY DEF ClearAt
    <3>2. \A p \in DOMAIN l \ {s} : l[p].kind = "User"
      BY <1>1, <1>4
    <3> QED
      BY <3>1, <3>2
  <2> QED
    BY <2>1, NoMarker
<1>8. ASSUME NEW k \in Keys, s \in About(l, k)
      PROVE  l[s].value = NoValue /\ About(l, k) = {s}
  <2>1. l[s].kind = "Clear"
    BY DEF ClearAt
  <2>2. l[s].value = NoValue
    BY <1>2, <2>1 DEF IsLog, IsEntry
  <2>3. l[s].arg <= k
    BY <1>8, <2>1 DEF About
  <2>4. k \in l[s].arg .. MaxKey
    BY <2>3, FormatAssumption DEF Keys
  <2>5. ASSUME NEW q \in About(l, k), q # s PROVE FALSE
    <3>1. q \in DOMAIN l
      BY DEF About, Effective
    <3>2. q \in DOMAIN w /\ l[q].kind = "User" /\ q < s
      BY <1>1, <1>3, <1>4, <2>5, <3>1
    <3>3. l[q].arg = k
      BY <2>5, <3>2 DEF About
    <3>4. q \in Replaced(l, l[s].arg .. MaxKey, s)
      BY <2>4, <3>1, <3>2, <3>3 DEF Replaced, At
    <3> QED
      BY <3>4
  <2> QED
    BY <1>8, <2>2, <2>5
<1>9. Effective(Without(l, s)) = Effective(l) \ {s}
  BY <1>1, <1>6, <1>7
<1> QED
  BY <1>2, <1>5, <1>8, <1>9, PadContent

(* The updates of a marker are finitely many entries after it. *)
LEMMA UpdatesFinite ==
  ASSUME NEW l, NEW t, IsLog(l, t), NEW m
  PROVE  IsFiniteSet(Updates(l, m)) /\ Cardinality(Updates(l, m)) \in Nat
<1>1. IsFiniteSet(DOMAIN l) /\ Updates(l, m) \subseteq DOMAIN l
  BY LogFacts DEF Updates, At
<1> QED
  BY <1>1, FS_Subset, FS_CardinalityType

(* The keys that a transaction updates. *)
UpdatedKeys(l, m) == {l[p].arg : p \in Updates(l, m)}

(* A user entry that a complete transaction replaces is deleted. *)
LEMMA TransactionDeletes ==
  ASSUME NEW l, NEW t, IsLog(l, t), NEW m, MarkerAt(l, m), Complete(l, m),
         NEW pos \in Replaced(l, UpdatedKeys(l, m), m)
  PROVE  /\ MarkerAt(Without(l, pos), m)
         /\ Complete(Without(l, pos), m)
         /\ Content(Without(l, pos)) = Content(l)
<1> DEFINE w == Without(l, pos)
<1>1. IsLog(w, t) /\ DOMAIN w = DOMAIN l \ {pos} /\ \A p \in DOMAIN l \ {pos} : w[p] = l[p]
  BY WithoutLog
<1>2. pos \in DOMAIN l /\ pos < m /\ l[pos].kind = "User" /\ l[pos].arg \in UpdatedKeys(l, m)
  BY DEF Replaced, At
<1>3. m \in DOMAIN l /\ pos \in Nat /\ m \in Nat /\ \A p \in DOMAIN l : p \in Nat
  BY <1>2 DEF MarkerAt, IsLog
<1>4. m \in DOMAIN w /\ w[m] = l[m]
  BY <1>1, <1>2, <1>3
<1>5. Updates(w, m) = Updates(l, m)
  BY <1>1, <1>2, <1>3 DEF Updates, At
<1>6. Complete(w, m)
  BY <1>4, <1>5 DEF Complete
<1> HIDE DEF w
<1>7. MarkerAt(w, m)
  <2>1. CleanBefore(w, m)
    BY <1>1 DEF MarkerAt, CleanBefore, Distinct
  <2>2. \A p \in Updates(w, m) : w[p] = l[p]
    BY <1>1, <1>2, <1>3, <1>5 DEF Updates, At
  <2>3. Distinct(w, Updates(w, m))
    BY <1>5, <2>2 DEF MarkerAt, Distinct
  <2>4. \A p \in DOMAIN w : p > m => w[p].kind \in {"User", "Remove"}
    BY <1>1 DEF MarkerAt
  <2>5. Cardinality(Updates(w, m)) <= w[m].arg
    BY <1>4, <1>5 DEF MarkerAt
  <2>6. w[m].kind = "Marker"
    BY <1>4 DEF MarkerAt
  <2> QED
    BY <1>4, <2>1, <2>3, <2>4, <2>5, <2>6 DEF MarkerAt
<1>8. Effective(l) = DOMAIN l /\ Effective(w) = DOMAIN w
  BY <1>1, <1>6, <1>7, OneMarker
<1>9. ASSUME NEW k \in Keys, pos \in About(l, k) PROVE \E q \in About(l, k) : q > pos
  <2>1. l[pos].arg = k
    BY <1>2, <1>9 DEF About
  <2>2. PICK q \in Updates(l, m) : l[q].arg = k
    BY <1>2, <2>1 DEF UpdatedKeys
  <2>3. q \in DOMAIN l /\ l[q].kind \in {"User", "Remove"} /\ q > m
    BY DEF Updates, At
  <2>4. q \in About(l, k)
    BY <1>8, <2>2, <2>3 DEF About
  <2> QED
    BY <1>2, <1>3, <2>3, <2>4
<1>10. Effective(Without(l, pos)) = Effective(l) \ {pos}
  BY <1>1, <1>8 DEF w
<1>11. Content(Without(l, pos)) = Content(l)
  BY <1>2, <1>9, <1>10, PadContent
<1> QED
  BY <1>6, <1>7, <1>11 DEF w

(* The marker of a complete transaction is padded. *)
LEMMA TransactionEnds ==
  ASSUME NEW l, NEW t, IsLog(l, t), NEW m, MarkerAt(l, m), Complete(l, m),
         Replaced(l, UpdatedKeys(l, m), m) = {}
  PROVE  Removes(Without(l, m)) /\ Content(Without(l, m)) = Content(l)
<1> DEFINE w == Without(l, m)
<1>1. DOMAIN w = DOMAIN l \ {m} /\ \A p \in DOMAIN l \ {m} : w[p] = l[p]
  BY WithoutLog
<1>2. m \in DOMAIN l /\ l[m].kind = "Marker" /\ \A p \in DOMAIN l : p \in Nat
  BY DEF MarkerAt, IsLog
<1>3. \A p \in DOMAIN w : p < m \/ p > m
  BY <1>1, <1>2
<1>4. \A p \in DOMAIN w : w[p].kind \in {"User", "Remove"}
  BY <1>1, <1>3 DEF MarkerAt, CleanBefore
<1>5. \A p \in DOMAIN w : p > m => p \in Updates(l, m)
  BY <1>1, <1>4 DEF Updates, At
<1>6. Distinct(w, DOMAIN w)
  <2>1. ASSUME NEW p \in DOMAIN w, NEW q \in DOMAIN w, p < m, q > m PROVE w[p].arg # w[q].arg
    <3>1. l[p].kind = "User"
      BY <1>1, <2>1 DEF MarkerAt, CleanBefore
    <3>2. l[q].arg \in UpdatedKeys(l, m)
      BY <1>5, <2>1 DEF UpdatedKeys
    <3>3. l[p].arg # l[q].arg
      BY <1>1, <2>1, <3>1, <3>2 DEF Replaced, At
    <3> QED
      BY <1>1, <3>3
  <2>2. ASSUME NEW p \in DOMAIN w, NEW q \in DOMAIN w, p > m, q > m, w[p].arg = w[q].arg
        PROVE  p = q
    BY <1>1, <1>5, <2>2 DEF MarkerAt, Distinct
  <2>3. ASSUME NEW p \in DOMAIN w, NEW q \in DOMAIN w, p < m, q < m, w[p].arg = w[q].arg
        PROVE  p = q
    BY <1>1, <2>3 DEF MarkerAt, CleanBefore, Distinct
  <2> HIDE DEF w
  <2> QED
    BY <1>3, <2>1, <2>2, <2>3, Zenon DEF Distinct
<1>7. Effective(l) = DOMAIN l
  BY OneMarker
<1>8. Effective(w) = DOMAIN w
  <2>1. \A p \in DOMAIN w : w[p].kind # "Marker"
    BY <1>4
  <2> QED
    BY <2>1, NoMarker
<1>9. \A k \in Keys : m \notin About(l, k)
  BY <1>2 DEF About
<1>10. Effective(Without(l, m)) = Effective(l) \ {m}
  BY <1>1, <1>7, <1>8
<1> QED
  BY <1>2, <1>4, <1>6, <1>9, <1>10, PadContent DEF Removes

(* An entry of an incomplete transaction is deleted. *)
LEMMA RollBackDeletes ==
  ASSUME NEW l, NEW t, IsLog(l, t), NEW m, MarkerAt(l, m), ~Complete(l, m),
         NEW pos \in DOMAIN l, pos > m
  PROVE  /\ MarkerAt(Without(l, pos), m)
         /\ ~Complete(Without(l, pos), m)
         /\ Content(Without(l, pos)) = Content(l)
<1> DEFINE w == Without(l, pos)
<1>1. IsLog(w, t) /\ DOMAIN w = DOMAIN l \ {pos} /\ \A p \in DOMAIN l \ {pos} : w[p] = l[p]
  BY WithoutLog
<1>2. m \in DOMAIN l /\ m \in Nat /\ pos \in Nat /\ l[m].arg \in Nat
  BY DEF MarkerAt, IsLog, IsEntry
<1>3. m \in DOMAIN w /\ w[m] = l[m]
  BY <1>1, <1>2
<1>4. Updates(w, m) \subseteq Updates(l, m)
  BY <1>1 DEF Updates, At
<1> HIDE DEF w
<1>5. Cardinality(Updates(w, m)) < w[m].arg
  <2> DEFINE c == Cardinality(Updates(w, m))
             d == Cardinality(Updates(l, m))
  <2>1. c \in Nat /\ d \in Nat /\ c <= d
    BY <1>1, <1>4, UpdatesFinite, FS_Subset
  <2>2. d <= l[m].arg /\ d # l[m].arg
    BY DEF MarkerAt, Complete
  <2> HIDE DEF c, d
  <2>3. c < l[m].arg
    BY <1>2, <2>1, <2>2
  <2> QED
    BY <1>3, <2>3 DEF c
<1>6. ~Complete(w, m)
  <2>1. Cardinality(Updates(w, m)) \in Nat
    BY <1>1, UpdatesFinite
  <2> QED
    BY <1>2, <1>3, <1>5, <2>1 DEF Complete
<1>7. MarkerAt(w, m)
  <2>1. CleanBefore(w, m)
    BY <1>1 DEF MarkerAt, CleanBefore, Distinct
  <2>2. \A p \in DOMAIN w : p > m => w[p].kind \in {"User", "Remove", "Partial"}
    BY <1>1 DEF MarkerAt
  <2>3. w[m].kind = "Marker"
    BY <1>3 DEF MarkerAt
  <2>4. Cardinality(Updates(w, m)) <= w[m].arg
    <3>1. Cardinality(Updates(w, m)) \in Nat
      BY <1>1, UpdatesFinite
    <3> QED
      BY <1>2, <1>3, <1>5, <3>1
  <2> QED
    BY <1>3, <1>6, <2>1, <2>2, <2>3, <2>4 DEF MarkerAt
<1>8. Effective(l) = {p \in DOMAIN l : p < m} /\ Effective(w) = {p \in DOMAIN w : p < m}
  BY <1>1, <1>6, <1>7, OneMarker
<1>9. \A k \in Keys : pos \notin About(l, k)
  BY <1>2, <1>8 DEF About
<1>10. Effective(Without(l, pos)) = Effective(l) \ {pos}
  BY <1>1, <1>2, <1>8 DEF w
<1>11. Content(Without(l, pos)) = Content(l)
  BY <1>9, <1>10, PadContent
<1> QED
  BY <1>6, <1>7, <1>11 DEF w

(* The marker of an incomplete transaction is padded. *)
LEMMA RollBackEnds ==
  ASSUME NEW l, NEW t, IsLog(l, t), NEW m, MarkerAt(l, m), ~Complete(l, m),
         \A p \in DOMAIN l : ~(p > m)
  PROVE  Clean(Without(l, m)) /\ Content(Without(l, m)) = Content(l)
<1> DEFINE w == Without(l, m)
<1>1. DOMAIN w = DOMAIN l \ {m} /\ \A p \in DOMAIN l \ {m} : w[p] = l[p]
  BY WithoutLog
<1>2. m \in DOMAIN l /\ l[m].kind = "Marker" /\ \A p \in DOMAIN l : p \in Nat
  BY DEF MarkerAt, IsLog
<1>3. \A p \in DOMAIN w : p < m
  BY <1>1, <1>2
<1>4. \A p \in DOMAIN w : w[p].kind = "User"
  BY <1>1, <1>3 DEF MarkerAt, CleanBefore
<1>5. Clean(w)
  BY <1>1, <1>3, <1>4 DEF MarkerAt, CleanBefore, Clean, Distinct
<1>6. Effective(w) = DOMAIN w
  BY <1>4, NoMarker
<1>7. Effective(l) = {p \in DOMAIN l : p < m}
  BY OneMarker
<1>8. \A k \in Keys : m \notin About(l, k)
  BY <1>2 DEF About
<1>9. Effective(Without(l, m)) = Effective(l) \ {m}
  BY <1>1, <1>2, <1>3, <1>6, <1>7
<1> QED
  BY <1>2, <1>5, <1>8, <1>9, PadContent

(* A remove entry is padded. *)
LEMMA RemovePads ==
  ASSUME NEW l, NEW t, IsLog(l, t), Removes(l), NEW pos \in DOMAIN l, l[pos].kind = "Remove"
  PROVE  Removes(Without(l, pos)) /\ Content(Without(l, pos)) = Content(l)
<1> DEFINE w == Without(l, pos)
<1>1. DOMAIN w = DOMAIN l \ {pos} /\ \A p \in DOMAIN l \ {pos} : w[p] = l[p]
  BY WithoutLog
<1>2. Removes(w)
  BY <1>1 DEF Removes, Distinct
<1>3. Effective(l) = DOMAIN l
  BY NoMarker DEF Removes
<1>4. Effective(w) = DOMAIN w
  BY <1>2, NoMarker DEF Removes
<1>5. ASSUME NEW k \in Keys, pos \in About(l, k)
      PROVE  l[pos].value = NoValue /\ About(l, k) = {pos}
  <2>1. l[pos].value = NoValue
    BY DEF IsLog, IsEntry
  <2>2. \A q \in About(l, k) : q \in DOMAIN l /\ l[q].arg = k
    BY DEF About, Effective, Removes
  <2> QED
    BY <1>5, <2>1, <2>2 DEF Removes, Distinct
<1>6. Effective(Without(l, pos)) = Effective(l) \ {pos}
  BY <1>1, <1>3, <1>4
<1> QED
  BY <1>2, <1>5, <1>6, PadContent

(* The entry that an insertion replaces is deleted. *)
LEMMA InsertDeletes ==
  ASSUME NEW l, NEW t, IsLog(l, t), NEW last, InsertAt(l, t, last),
         NEW pos \in Replaced(l, {l[last].arg}, last)
  PROVE  /\ InsertAt(Without(l, pos), t, last)
         /\ Without(l, pos)[last] = l[last]
         /\ Content(Without(l, pos)) = Content(l)
<1> DEFINE w == Without(l, pos)
<1>1. DOMAIN w = DOMAIN l \ {pos} /\ \A p \in DOMAIN l \ {pos} : w[p] = l[p]
  BY WithoutLog
<1>2. pos \in DOMAIN l /\ pos < last /\ l[pos].arg = l[last].arg /\ last \in DOMAIN l
  BY DEF Replaced, At, InsertAt
<1>3. pos \in Nat /\ last \in Nat
  BY <1>2 DEF IsLog
<1>4. last \in DOMAIN w /\ w[last] = l[last]
  BY <1>1, <1>2, <1>3
<1>5. InsertAt(w, t, last)
  BY <1>1, <1>4 DEF InsertAt, Distinct
<1>6. Effective(l) = DOMAIN l
  <2>1. \A p \in DOMAIN l : l[p].kind # "Marker"
    BY DEF InsertAt
  <2> QED
    BY <2>1, NoMarker
<1>7. Effective(w) = DOMAIN w
  <2>1. \A p \in DOMAIN w : w[p].kind # "Marker"
    BY <1>5 DEF InsertAt
  <2> QED
    BY <2>1, NoMarker
<1>8. ASSUME NEW k \in Keys, pos \in About(l, k) PROVE \E q \in About(l, k) : q > pos
  <2>1. l[last].kind = "User" /\ l[pos].kind = "User"
    BY <1>2 DEF InsertAt
  <2>2. last \in About(l, k)
    BY <1>2, <1>6, <1>8, <2>1 DEF About
  <2> QED
    BY <1>2, <1>3, <2>2
<1>9. Effective(Without(l, pos)) = Effective(l) \ {pos}
  BY <1>1, <1>6, <1>7
<1>10. Content(Without(l, pos)) = Content(l)
  BY <1>2, <1>8, <1>9, PadContent
<1> QED
  BY <1>4, <1>5, <1>10

(* Once nothing is left to replace, an insertion leaves a clean log. *)
LEMMA InsertEnds ==
  ASSUME NEW l, NEW t, IsLog(l, t), NEW last, InsertAt(l, t, last),
         Replaced(l, {l[last].arg}, last) = {}
  PROVE  Clean(l)
<1>1. \A p \in DOMAIN l : p \in Nat /\ l[p].kind = "User" /\ p <= last
  BY DEF IsLog, InsertAt
<1>2. \A p \in DOMAIN l \ {last} : l[p].arg # l[last].arg
  <2>1. \A p \in DOMAIN l \ {last} : p < last
    BY <1>1 DEF InsertAt
  <2> QED
    BY <1>1, <2>1 DEF Replaced, At
<1> QED
  BY <1>1, <1>2 DEF InsertAt, Clean, Distinct

(* The entry of a key is removed. *)
LEMMA RemoveDeletes ==
  ASSUME NEW l, NEW t, IsLog(l, t), Clean(l), NEW pos \in DOMAIN l
  PROVE  /\ Clean(Without(l, pos))
         /\ \A k \in Keys : Content(Without(l, pos))[k] = IF k = l[pos].arg THEN NoValue
                                                          ELSE Content(l)[k]
<1> DEFINE w == Without(l, pos)
<1>1. IsLog(w, t) /\ DOMAIN w = DOMAIN l \ {pos} /\ \A p \in DOMAIN l \ {pos} : w[p] = l[p]
  BY WithoutLog
<1>2. Clean(w)
  BY <1>1 DEF Clean, Distinct
<1>3. Open(w) /\ Open(l)
  BY <1>2, CleanOpen
<1> HIDE DEF w
<1>4. ASSUME NEW k \in Keys
      PROVE  Content(w)[k] = IF k = l[pos].arg THEN NoValue ELSE Content(l)[k]
  <2>1. CASE k = l[pos].arg
    <3>1. \A p \in DOMAIN w : ~(w[p].kind = "User" /\ w[p].arg = k)
      BY <1>1, <2>1 DEF Clean, Distinct
    <3> QED
      BY <1>1, <1>3, <2>1, <3>1, OpenContent
  <2>2. CASE k # l[pos].arg /\ \E p \in DOMAIN l : l[p].arg = k
    <3>1. PICK p \in DOMAIN l : l[p].arg = k
      BY <2>2
    <3>2. p \in DOMAIN w /\ w[p] = l[p] /\ l[p].kind = "User"
      BY <1>1, <2>2, <3>1 DEF Clean
    <3>3. Content(l)[k] = l[p].value /\ Content(w)[k] = l[p].value
      BY <1>1, <1>3, <3>1, <3>2, OpenContent
    <3> QED
      BY <2>2, <3>3
  <2>3. CASE k # l[pos].arg /\ \A p \in DOMAIN l : l[p].arg # k
    <3>1. \A p \in DOMAIN w : w[p].arg # k
      BY <1>1, <2>3
    <3>2. Content(l)[k] = NoValue /\ Content(w)[k] = NoValue
      BY <1>1, <1>3, <2>3, <3>1, OpenContent
    <3> QED
      BY <2>3, <3>2
  <2> QED
    BY <2>1, <2>2, <2>3
<1> QED
  BY <1>2, <1>4 DEF w

-----------------------------------------------------------------------------
\* Writing.

WritePos(l, t) == IF At(l, {"Partial"}) = {} THEN t ELSE Min(At(l, {"Partial"}))

\* The entries of a log but the one that is being written.
Rest(l) == {p \in DOMAIN l : l[p].kind # "Partial"}

\* w is log l with entry e after its other entries.
Appended(l, w, u, pos, e) ==
  /\ pos \in Nat
  /\ IsLog(w, u)
  /\ DOMAIN w = Rest(l) \cup {pos}
  /\ pos \notin Rest(l)
  /\ w[pos] = e
  /\ \A p \in Rest(l) : w[p] = l[p] /\ p < pos /\ p \in Nat

(* An entry is written after all others, where its writing began.  The log   *)
(* keeps its other entries.                                                 *)
LEMMA Writes ==
  ASSUME NEW l, NEW t, IsLog(l, t), PartialLast(l), NEW e, IsEntry(e),
         NEW u \in Nat, WritePos(l, t) + size(e) <= u
  PROVE  Appended(l, With(l, WritePos(l, t), e), u, WritePos(l, t), e)
<1> DEFINE pos == WritePos(l, t)
           w == With(l, pos, e)
           rest == Rest(l)
<1>1. t \in Nat /\ \A p \in DOMAIN l : p \in Nat /\ size(l[p]) \in Nat \ {0} /\ p + size(l[p]) <= t
  BY LogFacts
<1>2. pos \in Nat /\ rest \cup {pos} = DOMAIN l \cup {pos} /\ pos \notin rest
      /\ \A p \in DOMAIN l : p # pos => p + size(l[p]) <= pos
  <2>1. CASE At(l, {"Partial"}) = {}
    <3>1. pos = t
      BY <2>1 DEF WritePos
    <3>2. rest = DOMAIN l
      BY <2>1 DEF At, Rest
    <3>3. pos \notin DOMAIN l
      BY <1>1, <3>1
    <3> HIDE DEF pos, rest
    <3> QED
      BY <1>1, <3>1, <3>2, <3>3
  <2>2. CASE At(l, {"Partial"}) # {}
    <3>1. At(l, {"Partial"}) \in SUBSET Nat
      BY <1>1 DEF At
    <3>2. pos \in At(l, {"Partial"})
      BY <2>2, <3>1, MinOfNats DEF WritePos
    <3> HIDE DEF pos
    <3>3. pos \in DOMAIN l /\ l[pos].kind = "Partial"
      BY <3>2 DEF At
    <3>4. \A q \in DOMAIN l : q # pos => q < pos
      BY <3>3 DEF PartialLast
    <3>5. \A q \in DOMAIN l : q # pos => q + size(l[q]) <= pos
      BY <3>3, <3>4 DEF IsLog
    <3>6. \A q \in DOMAIN l : q # pos => l[q].kind # "Partial"
      <4>1. ASSUME NEW q \in DOMAIN l, q # pos, l[q].kind = "Partial" PROVE FALSE
        <5>1. pos < q /\ q < pos
          BY <3>3, <3>4, <4>1 DEF PartialLast
        <5> QED
          BY <1>1, <3>3, <5>1
      <4> QED
        BY <4>1
    <3> QED
      BY <1>1, <3>3, <3>5, <3>6 DEF Rest
  <2> QED
    BY <2>1, <2>2
<1>3. EndBefore(l, pos) /\ pos \in Nat
  BY <1>2 DEF EndBefore
<1>4. /\ IsLog(w, u)
      /\ DOMAIN w = DOMAIN l \cup {pos}
      /\ w[pos] = e
      /\ \A p \in DOMAIN l \ {pos} : w[p] = l[p]
  <2>1. Placed(l, With(l, WritePos(l, t), e), u, WritePos(l, t), e)
    BY <1>3, WithLog
  <2> QED
    BY <2>1, Zenon DEF Placed
<1> HIDE DEF pos
<1> HIDE DEF w
<1>5. \A p \in rest : w[p] = l[p] /\ p < pos /\ p \in Nat
  <2>1. \A p \in rest : p \in DOMAIN l /\ p # pos
    BY <1>2 DEF Rest
  <2>2. \A p \in rest : p \in Nat /\ size(l[p]) \in Nat \ {0} /\ p + size(l[p]) <= pos
    BY <1>1, <1>2, <2>1
  <2> QED
    BY <1>2, <1>4, <2>1, <2>2
<1> QED
  BY <1>2, <1>4, <1>5 DEF pos, w, Appended

(* An open log without its partial entry. *)
LEMMA OpenRest ==
  ASSUME NEW l, Open(l)
  PROVE  /\ PartialLast(l)
         /\ \A p \in DOMAIN l : l[p].kind # "Partial" => l[p].kind = "User"
         /\ \A p, q \in Rest(l) : l[p].arg = l[q].arg => p = q
BY DEF Open, PartialLast, Rest

(* An entry begins to be written. *)
LEMMA OpenBegins ==
  ASSUME NEW l, NEW t, IsLog(l, t), Open(l), NEW e, IsEntry(e), e.kind = "Partial",
         NEW w, NEW u, NEW pos, Appended(l, w, u, pos, e)
  PROVE  Open(w) /\ Content(w) = Content(l)
<1> DEFINE rest == Rest(l)
<1>1. /\ pos \in Nat /\ IsLog(w, u) /\ DOMAIN w = rest \cup {pos} /\ pos \notin rest /\ w[pos] = e
      /\ \A p \in rest : w[p] = l[p] /\ p < pos /\ p \in Nat
  BY Zenon DEF Appended
<1>9. rest = {p \in DOMAIN l : l[p].kind # "Partial"}
  BY DEF Rest
<1>2. Open(w)
  <2>1. \A p \in rest : l[p].kind = "User" /\ w[p].kind = "User"
    BY <1>1, <1>9, OpenRest
  <2>2. \A p, q \in rest : w[p].arg = w[q].arg => p = q
    BY <1>1, <1>9, OpenRest
  <2> HIDE DEF rest
  <2> QED
    BY <1>1, <2>1, <2>2 DEF Open
<1> SUFFICES ASSUME NEW k \in Keys PROVE Content(w)[k] = Content(l)[k]
  BY <1>2, SameContent
<1>3. CASE \E p \in DOMAIN l : l[p].kind = "User" /\ l[p].arg = k
  <2>1. PICK p \in DOMAIN l : l[p].kind = "User" /\ l[p].arg = k
    BY <1>3
  <2>2. p \in rest
    BY <1>9, <2>1
  <2>3. p \in DOMAIN w /\ w[p] = l[p]
    BY <1>1, <2>2
  <2> QED
    BY <1>1, <1>2, <2>1, <2>3, OpenContent
<1>4. CASE \A p \in DOMAIN l : ~(l[p].kind = "User" /\ l[p].arg = k)
  <2>1. \A p \in DOMAIN w : ~(w[p].kind = "User" /\ w[p].arg = k)
    BY <1>1, <1>4, <1>9
  <2> QED
    BY <1>1, <1>2, <1>4, <2>1, OpenContent
<1> QED
  BY <1>3, <1>4

(* A user entry is written by an insertion. *)
LEMMA InsertWrites ==
  ASSUME NEW l, NEW t, IsLog(l, t), Open(l), NEW e, IsEntry(e), e.kind = "User",
         NEW w, NEW u, NEW pos, Appended(l, w, u, pos, e), u = pos + size(e)
  PROVE  /\ InsertAt(w, u, pos)
         /\ \A k \in Keys : Content(w)[k] = IF k = e.arg THEN e.value ELSE Content(l)[k]
<1> DEFINE rest == Rest(l)
<1>1. /\ pos \in Nat /\ IsLog(w, u) /\ DOMAIN w = rest \cup {pos} /\ pos \notin rest /\ w[pos] = e
      /\ \A p \in rest : w[p] = l[p] /\ p < pos /\ p \in Nat
  BY Zenon DEF Appended
<1>2. u = pos + size(e)
  OBVIOUS
<1>9. rest = {p \in DOMAIN l : l[p].kind # "Partial"}
  BY DEF Rest
<1>3. \A p \in rest : l[p].kind = "User" /\ w[p].kind = "User"
  BY <1>1, <1>9, OpenRest
<1>4. \A p, q \in rest : w[p].arg = w[q].arg => p = q
  BY <1>1, <1>9, OpenRest
<1>5. InsertAt(w, u, pos)
  <2> HIDE DEF rest
  <2>1. DOMAIN w \ {pos} = rest
    BY <1>1
  <2>2. \A p \in DOMAIN w : w[p].kind = "User" /\ p <= pos
    BY <1>1, <1>3
  <2> QED
    BY <1>1, <1>2, <1>4, <2>1, <2>2 DEF InsertAt, Distinct
<1>6. Effective(w) = DOMAIN w
  <2>1. \A p \in DOMAIN w : w[p].kind # "Marker"
    BY <1>5 DEF InsertAt
  <2> QED
    BY <2>1, NoMarker
<1>7. ASSUME NEW k \in Keys
      PROVE  Content(w)[k] = IF k = e.arg THEN e.value ELSE Content(l)[k]
  <2>1. About(w, k) = {p \in DOMAIN w : w[p].arg = k}
    BY <1>5, <1>6 DEF About, InsertAt
  <2>2. CASE k = e.arg
    <3>1. pos \in About(w, k) /\ \A q \in About(w, k) : q <= pos
      BY <1>1, <2>1, <2>2
    <3> QED
      BY <1>1, <2>2, <3>1, Decides
  <2>3. CASE k # e.arg /\ \E p \in rest : l[p].arg = k
    <3>1. PICK p \in rest : l[p].arg = k
      BY <2>3
    <3>2. p \in DOMAIN l /\ l[p].kind = "User" /\ p \in DOMAIN w /\ w[p] = l[p]
      BY <1>1, <1>3, <1>9, <3>1
    <3>3. Content(l)[k] = l[p].value
      BY <3>1, <3>2, OpenContent
    <3>4. \A q \in About(w, k) : q = p
      BY <1>1, <1>4, <2>1, <2>3, <3>1, <3>2
    <3>5. p \in About(w, k) /\ \A q \in About(w, k) : q <= p
      BY <1>1, <2>1, <3>1, <3>2, <3>4
    <3> QED
      BY <1>1, <2>3, <3>2, <3>3, <3>5, Decides
  <2>4. CASE k # e.arg /\ \A p \in rest : l[p].arg # k
    <3>1. \A p \in DOMAIN l : ~(l[p].kind = "User" /\ l[p].arg = k)
      BY <1>9, <2>4
    <3>2. About(w, k) = {}
      BY <1>1, <2>1, <2>4
    <3> QED
      BY <1>1, <2>4, <3>1, <3>2, OpenContent, Decides
  <2> QED
    BY <2>2, <2>3, <2>4
<1> QED
  BY <1>1, <1>5, <1>7

(* A clear entry is written. *)
LEMMA ClearWrites ==
  ASSUME NEW l, NEW t, IsLog(l, t), Open(l), NEW e, IsEntry(e), e.kind = "Clear",
         NEW w, NEW u, NEW pos, Appended(l, w, u, pos, e)
  PROVE  /\ ClearAt(w, pos)
         /\ \A k \in Keys : Content(w)[k] = IF k < e.arg THEN Content(l)[k] ELSE NoValue
<1> DEFINE rest == Rest(l)
<1>1. /\ pos \in Nat /\ IsLog(w, u) /\ DOMAIN w = rest \cup {pos} /\ pos \notin rest /\ w[pos] = e
      /\ \A p \in rest : w[p] = l[p] /\ p < pos /\ p \in Nat
  BY Zenon DEF Appended
<1>9. rest = {p \in DOMAIN l : l[p].kind # "Partial"}
  BY DEF Rest
<1>2. \A p \in rest : l[p].kind = "User" /\ w[p].kind = "User"
  BY <1>1, <1>9, OpenRest
<1>3. \A p, q \in rest : w[p].arg = w[q].arg => p = q
  BY <1>1, <1>9, OpenRest
<1>4. ClearAt(w, pos)
  <2>1. \A p \in DOMAIN w : p <= pos /\ (p < pos => p \in rest)
    BY <1>1
  <2> HIDE DEF rest
  <2> QED
    BY <1>1, <1>2, <1>3, <2>1 DEF ClearAt, CleanBefore, Distinct
<1>5. Effective(w) = DOMAIN w
  <2>1. \A p \in DOMAIN w : w[p].kind # "Marker"
    BY <1>1, <1>2
  <2> QED
    BY <2>1, NoMarker
<1>6. e.value = NoValue /\ e.arg \in Nat
  BY DEF IsEntry
<1>7. ASSUME NEW k \in Keys
      PROVE  Content(w)[k] = IF k < e.arg THEN Content(l)[k] ELSE NoValue
  <2>0. k \in Nat
    BY FormatAssumption DEF Keys
  <2>1. About(w, k) = {p \in rest : w[p].arg = k} \cup IF e.arg <= k THEN {pos} ELSE {}
    BY <1>1, <1>2, <1>5 DEF About
  <2> HIDE DEF rest
  <2>2. CASE ~(k < e.arg)
    <3>1. pos \in About(w, k) /\ \A q \in About(w, k) : q <= pos
      BY <1>1, <1>6, <2>0, <2>1, <2>2
    <3> QED
      BY <1>1, <1>6, <2>2, <3>1, Decides
  <2>3. CASE k < e.arg /\ \E p \in rest : l[p].arg = k
    <3>1. PICK p \in rest : l[p].arg = k
      BY <2>3
    <3>2. p \in DOMAIN l /\ l[p].kind = "User" /\ p \in DOMAIN w /\ w[p] = l[p]
      BY <1>1, <1>2, <3>1 DEF rest, Rest
    <3>3. Content(l)[k] = l[p].value
      BY <3>1, <3>2, OpenContent
    <3>4. About(w, k) = {x \in rest : w[x].arg = k}
      BY <1>6, <2>0, <2>1, <2>3
    <3>5. p \in About(w, k) /\ \A q \in About(w, k) : q = p
      BY <1>3, <3>1, <3>2, <3>4
    <3>6. \A q \in About(w, k) : q <= p
      BY <1>1, <3>1, <3>5
    <3> QED
      BY <1>1, <2>3, <3>2, <3>3, <3>5, <3>6, Decides
  <2>4. CASE k < e.arg /\ \A p \in rest : l[p].arg # k
    <3>1. \A p \in DOMAIN l : ~(l[p].kind = "User" /\ l[p].arg = k)
      BY <2>4 DEF rest, Rest
    <3>2. About(w, k) = {}
      BY <1>1, <1>6, <2>0, <2>1, <2>4
    <3> QED
      BY <1>1, <2>4, <3>1, <3>2, OpenContent, Decides
  <2> QED
    BY <2>2, <2>3, <2>4
<1> QED
  BY <1>4, <1>7

(* A marker is written: its transaction does not count yet. *)
LEMMA MarkerWrites ==
  ASSUME NEW l, NEW t, IsLog(l, t), Open(l), NEW e, IsEntry(e), e.kind = "Marker",
         NEW w, NEW u, NEW pos, Appended(l, w, u, pos, e),
         NEW updates, Len(updates) = e.arg, e.arg > 0
  PROVE  Wrote(w, pos, updates, 0) /\ Content(w) = Content(l)
<1> DEFINE rest == Rest(l)
<1>1. /\ pos \in Nat /\ IsLog(w, u) /\ DOMAIN w = rest \cup {pos} /\ pos \notin rest /\ w[pos] = e
      /\ \A p \in rest : w[p] = l[p] /\ p < pos /\ p \in Nat
  BY Zenon DEF Appended
<1>2. rest = {p \in DOMAIN l : l[p].kind # "Partial"}
  BY DEF Rest
<1>3. \A p \in rest : l[p].kind = "User" /\ w[p].kind = "User"
  BY <1>1, <1>2, OpenRest
<1>4. \A p, q \in rest : w[p].arg = w[q].arg => p = q
  BY <1>1, <1>2, OpenRest
<1> HIDE DEF rest
<1>5. \A p \in DOMAIN w : p <= pos /\ (p < pos <=> p \in rest)
  BY <1>1
<1>6. Updates(w, pos) = {} /\ Cardinality(Updates(w, pos)) = 0
  <2>1. Updates(w, pos) = {}
    BY <1>1, <1>5 DEF Updates, At
  <2> QED
    BY <2>1, FS_EmptySet
<1>7. e.arg \in Nat /\ ~Complete(w, pos)
  BY <1>1, <1>6 DEF IsEntry, Complete
<1>8. MarkerAt(w, pos)
  <2>1. CleanBefore(w, pos)
    BY <1>3, <1>4, <1>5 DEF CleanBefore, Distinct
  <2>2. \A p \in DOMAIN w : ~(p > pos)
    BY <1>1, <1>5
  <2> QED
    BY <1>1, <1>6, <1>7, <2>1, <2>2 DEF MarkerAt
<1>9. PartialLast(w)
  BY <1>1, <1>3 DEF PartialLast
<1>10. Wrote(w, pos, updates, 0)
  <2>1. \A i \in 1 .. 0 : FALSE
    OBVIOUS
  <2> QED
    BY <1>1, <1>6, <1>8, <1>9, <2>1 DEF Wrote, Distinct
<1>11. Effective(w) = rest
  <2>1. Effective(w) = {p \in DOMAIN w : p < pos}
    BY <1>1, <1>7, <1>8, OneMarker
  <2> QED
    BY <1>1, <1>5, <2>1
<1>12. ASSUME NEW k \in Keys PROVE Content(w)[k] = Content(l)[k]
  <2>1. About(w, k) = {p \in rest : l[p].arg = k}
    BY <1>1, <1>3, <1>11 DEF About
  <2>2. CASE \E p \in rest : l[p].arg = k
    <3>1. PICK p \in rest : l[p].arg = k
      BY <2>2
    <3>2. p \in DOMAIN l /\ l[p].kind = "User" /\ w[p] = l[p]
      BY <1>1, <1>2, <1>3, <3>1
    <3>3. Content(l)[k] = l[p].value
      BY <3>1, <3>2, OpenContent
    <3>4. p \in About(w, k) /\ \A q \in About(w, k) : q = p
      BY <1>1, <1>4, <2>1, <3>1
    <3>5. \A q \in About(w, k) : q <= p
      BY <1>1, <3>1, <3>4
    <3> QED
      BY <1>1, <3>2, <3>3, <3>4, <3>5, Decides
  <2>3. CASE \A p \in rest : l[p].arg # k
    <3>1. \A p \in DOMAIN l : ~(l[p].kind = "User" /\ l[p].arg = k)
      BY <1>2, <2>3
    <3>2. About(w, k) = {}
      BY <2>1, <2>3
    <3> QED
      BY <1>1, <3>1, <3>2, OpenContent, Decides
  <2> QED
    BY <2>2, <2>3
<1> QED
  BY <1>10, <1>12, SameContent

(* What an entry after a marker leaves alone. *)
AfterMarker(l, w, pos, e, m) ==
  /\ m \in DOMAIN l /\ m \in Nat /\ m < pos
  /\ m \in DOMAIN w /\ w[m] = l[m]
  /\ {p \in DOMAIN w : p < m} = {p \in DOMAIN l : p < m}
  /\ \A p \in DOMAIN l : p < m => w[p] = l[p]
  /\ CleanBefore(w, m)
  /\ pos \notin Updates(l, m)
  /\ \A p \in Updates(l, m) : w[p] = l[p]
  /\ e.kind = "Partial" => Updates(w, m) = Updates(l, m)
  /\ e.kind # "Partial" => Updates(w, m) = Updates(l, m) \cup {pos}
  /\ e.kind # "Partial" => \A p \in DOMAIN w : w[p].kind # "Partial"
  /\ \A p \in DOMAIN w : p > m => w[p].kind \in {"User", "Remove", "Partial"}
  /\ PartialLast(w)

(* It leaves that alone. *)
LEMMA UpdateAfter ==
  ASSUME NEW l, NEW t, IsLog(l, t), NEW m, MarkerAt(l, m), PartialLast(l),
         NEW e, IsEntry(e), e.kind \in {"User", "Remove", "Partial"},
         NEW w, NEW u, NEW pos, Appended(l, w, u, pos, e)
  PROVE  AfterMarker(l, w, pos, e, m)
<1> DEFINE rest == Rest(l)
<1>1. /\ pos \in Nat /\ IsLog(w, u) /\ DOMAIN w = rest \cup {pos} /\ pos \notin rest /\ w[pos] = e
      /\ \A p \in rest : w[p] = l[p] /\ p < pos /\ p \in Nat
  BY Zenon DEF Appended
<1>2. rest = {p \in DOMAIN l : l[p].kind # "Partial"}
  BY DEF Rest
<1> HIDE DEF rest
<1>3. m \in DOMAIN l /\ m \in rest /\ m \in Nat /\ m < pos /\ m \in DOMAIN w /\ w[m] = l[m]
  BY <1>1, <1>2 DEF MarkerAt
<1>4. \A p \in DOMAIN l : p < m => p \in rest
  BY <1>2 DEF MarkerAt, CleanBefore
<1>5. {p \in DOMAIN w : p < m} = {p \in DOMAIN l : p < m}
  <2>1. ~(pos < m)
    BY <1>1, <1>3
  <2> QED
    BY <1>1, <1>2, <1>4, <2>1
<1>6. CleanBefore(w, m)
  BY <1>1, <1>4, <1>5 DEF MarkerAt, CleanBefore, Distinct
<1>7. Updates(l, m) = {p \in rest : l[p].kind \in {"User", "Remove"} /\ p > m}
  BY <1>2 DEF Updates, At
<1>8. Updates(w, m) = {p \in rest \cup {pos} : w[p].kind \in {"User", "Remove"} /\ p > m}
  BY <1>1 DEF Updates, At
<1>9. e.kind = "Partial" => Updates(w, m) = Updates(l, m)
  BY <1>1, <1>7, <1>8
<1>10. e.kind # "Partial" => Updates(w, m) = Updates(l, m) \cup {pos}
  BY <1>1, <1>3, <1>7, <1>8
<1>11. \A p \in DOMAIN w : p > m => w[p].kind \in {"User", "Remove", "Partial"}
  BY <1>1, <1>2 DEF MarkerAt
<1>12. PartialLast(w)
  BY <1>1, <1>2 DEF PartialLast
<1>13. pos \notin Updates(l, m) /\ \A p \in Updates(l, m) : w[p] = l[p]
  BY <1>1, <1>7
<1>14. e.kind # "Partial" => \A p \in DOMAIN w : w[p].kind # "Partial"
  BY <1>1, <1>2
<1>15. \A p \in DOMAIN l : p < m => w[p] = l[p]
  BY <1>1, <1>4
<1> QED
  BY <1>3, <1>5, <1>6, <1>9, <1>10, <1>11, <1>12, <1>13, <1>14, <1>15 DEF AfterMarker

(* Two logs with the same entries before an incomplete transaction stand for *)
(* the same.                                                                *)
LEMMA IncompleteContent ==
  ASSUME NEW l, NEW t, IsLog(l, t), NEW w, NEW u, IsLog(w, u), NEW m,
         MarkerAt(l, m), ~Complete(l, m), MarkerAt(w, m), ~Complete(w, m),
         {p \in DOMAIN w : p < m} = {p \in DOMAIN l : p < m},
         \A p \in DOMAIN l : p < m => w[p] = l[p]
  PROVE  Content(w) = Content(l)
<1>1. Effective(l) = {p \in DOMAIN l : p < m}
  BY OneMarker
<1>2. Effective(w) = {p \in DOMAIN w : p < m}
  BY OneMarker
<1>3. \A p \in Effective(l) : w[p] = l[p]
  BY <1>1
<1>4. Effective(w) = Effective(l)
  BY <1>1, <1>2
<1>5. \A k \in Keys : About(w, k) = About(l, k)
  BY <1>3, <1>4 DEF About
<1>6. ASSUME NEW k \in Keys PROVE Content(w)[k] = Content(l)[k]
  <2>1. CASE About(l, k) = {}
    BY <1>5, <2>1, Decides
  <2>2. CASE About(l, k) # {}
    <3>1. PICK p \in About(l, k) : \A q \in About(l, k) : q <= p
      BY <2>2, Decides
    <3>2. Content(l)[k] = l[p].value
      BY <3>1, Decides
    <3>3. p \in About(w, k) /\ \A q \in About(w, k) : q <= p
      BY <1>5, <3>1
    <3>4. Content(w)[k] = w[p].value
      BY <3>3, Decides
    <3>5. w[p] = l[p]
      BY <1>3, <3>1 DEF About
    <3> QED
      BY <3>2, <3>4, <3>5
  <2> QED
    BY <2>1, <2>2
<1> QED
  BY <1>6, SameContent

(* An update begins to be written. *)
LEMMA UpdateBegins ==
  ASSUME NEW l, NEW t, IsLog(l, t), NEW m, NEW updates, NEW n, Wrote(l, m, updates, n),
         Len(updates) \in Nat, n < Len(updates), n \in Nat,
         NEW e, IsEntry(e), e.kind = "Partial",
         NEW w, NEW u, NEW pos, Appended(l, w, u, pos, e)
  PROVE  Wrote(w, m, updates, n) /\ Content(w) = Content(l)
<1>1. /\ MarkerAt(l, m)
      /\ PartialLast(l)
      /\ l[m].arg = Len(updates)
      /\ Cardinality(Updates(l, m)) = n
  BY DEF Wrote
<1>2. AfterMarker(l, w, pos, e, m)
  BY <1>1, UpdateAfter
<1>3. IsLog(w, u)
  BY DEF Appended
<1>4. Updates(w, m) = Updates(l, m) /\ w[m] = l[m] /\ m \in DOMAIN w /\ m \in DOMAIN l
  BY <1>2 DEF AfterMarker
<1>5. ~Complete(w, m) /\ ~Complete(l, m)
  BY <1>1, <1>4 DEF Complete
<1>6. MarkerAt(w, m)
  <2>1. w[m].kind = "Marker"
    BY <1>1, <1>4 DEF MarkerAt
  <2>2. CleanBefore(w, m) /\ \A p \in DOMAIN w : p > m => w[p].kind \in {"User", "Remove", "Partial"}
    BY <1>2 DEF AfterMarker
  <2> QED
    BY <1>1, <1>4, <1>5, <2>1, <2>2 DEF MarkerAt
<1>7. PartialLast(w) /\ \A p \in Updates(l, m) : w[p] = l[p]
  BY <1>2 DEF AfterMarker
<1>8. Wrote(w, m, updates, n)
  <2>1. \A p \in Updates(w, m) : \E i \in 1 .. n : w[p] = UpdateEntry(updates[i])
    BY <1>4, <1>7 DEF Wrote
  <2>2. \A i \in 1 .. n : \E p \in Updates(w, m) : w[p] = UpdateEntry(updates[i])
    BY <1>4, <1>7 DEF Wrote
  <2>3. Distinct(w, Updates(w, m))
    BY <1>4, <1>7 DEF Wrote, Distinct
  <2> QED
    BY <1>1, <1>4, <1>6, <1>7, <2>1, <2>2, <2>3 DEF Wrote
<1>9. {p \in DOMAIN w : p < m} = {p \in DOMAIN l : p < m} /\ \A p \in DOMAIN l : p < m => w[p] = l[p]
  BY <1>2 DEF AfterMarker
<1>10. Content(w) = Content(l)
  BY <1>1, <1>3, <1>5, <1>6, <1>9, IncompleteContent
<1> QED
  BY <1>8, <1>10

\* The keys of a transaction are distinct.
DistinctKeys(updates) ==
  \A i, j \in 1 .. Len(updates) : updates[i].key = updates[j].key => i = j

\* Content c2 is content c with some updates.
UpdatedBy(c, c2, updates) ==
  \A k \in Keys :
    /\ (\A i \in 1 .. Len(updates) : updates[i].key # k) => c2[k] = c[k]
    /\ \A i \in 1 .. Len(updates) : updates[i].key = k => c2[k] = updates[i].value

(* An update is written; with the last one the transaction takes effect. *)
LEMMA UpdateWrites ==
  ASSUME NEW l, NEW t, IsLog(l, t), NEW m, NEW updates, NEW n, Wrote(l, m, updates, n),
         Len(updates) \in Nat, n < Len(updates), n \in Nat, DistinctKeys(updates),
         NEW e, IsEntry(e), e = UpdateEntry(updates[n + 1]),
         NEW w, NEW u, NEW pos, Appended(l, w, u, pos, e)
  PROVE  /\ n + 1 < Len(updates) => Wrote(w, m, updates, n + 1) /\ Content(w) = Content(l)
         /\ n + 1 = Len(updates) =>
              MarkerAt(w, m) /\ Complete(w, m) /\ UpdatedBy(Content(l), Content(w), updates)
<1>0. e.kind \in {"User", "Remove"} /\ e.arg = updates[n + 1].key /\ e.value = updates[n + 1].value
  BY DEF UpdateEntry, Entry
<1>1. /\ MarkerAt(l, m)
      /\ PartialLast(l)
      /\ l[m].arg = Len(updates)
      /\ Cardinality(Updates(l, m)) = n
  BY DEF Wrote
<1>2. AfterMarker(l, w, pos, e, m)
  BY <1>0, <1>1, UpdateAfter
<1>3. IsLog(w, u) /\ w[pos] = e
  BY DEF Appended
<1>4. Updates(w, m) = Updates(l, m) \cup {pos} /\ w[m] = l[m] /\ m \in DOMAIN w /\ m \in DOMAIN l
  BY <1>0, <1>2 DEF AfterMarker
<1>5. Cardinality(Updates(w, m)) = n + 1
  <2>1. pos \notin Updates(l, m) /\ IsFiniteSet(Updates(l, m))
    BY <1>2, UpdatesFinite DEF AfterMarker
  <2> QED
    BY <1>1, <1>4, <2>1, FS_AddElement
<1>6. ~Complete(l, m) /\ (Complete(w, m) <=> n + 1 = Len(updates))
  BY <1>1, <1>4, <1>5 DEF Complete
<1>7. \A p \in Updates(l, m) : w[p] = l[p]
  BY <1>2 DEF AfterMarker
<1>8. \A p \in Updates(w, m) : \E i \in 1 .. n + 1 : w[p] = UpdateEntry(updates[i])
  <2>1. \A p \in Updates(l, m) : \E i \in 1 .. n + 1 : w[p] = UpdateEntry(updates[i])
    BY <1>7 DEF Wrote
  <2>2. n + 1 \in 1 .. n + 1
    OBVIOUS
  <2> QED
    BY <1>3, <1>4, <2>1, <2>2
<1>9. \A i \in 1 .. n + 1 : \E p \in Updates(w, m) : w[p] = UpdateEntry(updates[i])
  <2>1. ASSUME NEW i \in 1 .. n + 1 PROVE \E p \in Updates(w, m) : w[p] = UpdateEntry(updates[i])
    <3>1. CASE i \in 1 .. n
      BY <1>4, <1>7, <3>1 DEF Wrote
    <3>2. CASE i = n + 1
      BY <1>3, <1>4, <3>2
    <3> QED
      BY <3>1, <3>2
  <2> QED
    BY <2>1
<1>10. Distinct(w, Updates(w, m))
  <2>1. ASSUME NEW p \in Updates(l, m) PROVE w[p].arg # e.arg
    <3>1. PICK i \in 1 .. n : l[p] = UpdateEntry(updates[i])
      BY DEF Wrote
    <3>2. w[p].arg = updates[i].key
      BY <1>7, <3>1 DEF UpdateEntry, Entry
    <3>3. i \in 1 .. Len(updates) /\ n + 1 \in 1 .. Len(updates) /\ i # n + 1
      OBVIOUS
    <3> QED
      BY <1>0, <3>2, <3>3 DEF DistinctKeys
  <2>2. Distinct(w, Updates(l, m))
    BY <1>7 DEF Wrote, Distinct
  <2> QED
    BY <1>3, <1>4, <2>1, <2>2 DEF Distinct
<1>11. MarkerAt(w, m)
  <2>1. w[m].kind = "Marker" /\ w[m].arg = Len(updates)
    BY <1>1, <1>4 DEF MarkerAt
  <2>2. /\ CleanBefore(w, m)
        /\ \A p \in DOMAIN w : p > m => w[p].kind \in {"User", "Remove", "Partial"}
        /\ \A p \in DOMAIN w : w[p].kind # "Partial"
    BY <1>0, <1>2 DEF AfterMarker
  <2>3. n + 1 <= Len(updates)
    OBVIOUS
  <2> QED
    BY <1>4, <1>5, <1>10, <2>1, <2>2, <2>3 DEF MarkerAt
<1>12. {p \in DOMAIN w : p < m} = {p \in DOMAIN l : p < m} /\ \A p \in DOMAIN l : p < m => w[p] = l[p]
  BY <1>2 DEF AfterMarker
<1>13. CASE n + 1 < Len(updates)
  <2>1. ~Complete(w, m)
    BY <1>6, <1>13
  <2>2. Content(w) = Content(l)
    BY <1>1, <1>3, <1>6, <1>11, <1>12, <2>1, IncompleteContent
  <2>3. PartialLast(w)
    BY <1>2 DEF AfterMarker
  <2>4. Wrote(w, m, updates, n + 1)
    BY <1>1, <1>4, <1>5, <1>8, <1>9, <1>10, <1>11, <2>3 DEF Wrote
  <2> QED
    BY <1>13, <2>2, <2>4
<1>14. CASE n + 1 = Len(updates)
  <2>1. Complete(w, m)
    BY <1>6, <1>14
  <2>2. Effective(w) = DOMAIN w
    BY <1>3, <1>11, <2>1, OneMarker
  <2>3. Effective(l) = {p \in DOMAIN l : p < m}
    BY <1>1, <1>6, OneMarker
  <2>4. \A p \in DOMAIN w : p < m \/ p = m \/ p \in Updates(w, m)
    <3>1. \A p \in DOMAIN w : p > m => w[p].kind \in {"User", "Remove"}
      BY <1>11, <2>1 DEF MarkerAt
    <3>2. \A p \in DOMAIN w : p \in Nat
      BY <1>3 DEF IsLog
    <3> QED
      BY <1>4, <3>1, <3>2 DEF Updates, At
  <2>5. \A p \in Updates(w, m) : p \in DOMAIN w /\ p > m /\ w[p].kind \in {"User", "Remove"}
    BY DEF Updates, At
  <2>6. \A p \in DOMAIN l : p < m => p \in DOMAIN w /\ w[p] = l[p] /\ w[p].kind = "User"
    BY <1>1, <1>12 DEF MarkerAt, CleanBefore
  <2>7. w[m].kind = "Marker"
    BY <1>11 DEF MarkerAt
  <2>8. ASSUME NEW k \in Keys
        PROVE  /\ (\A i \in 1 .. Len(updates) : updates[i].key # k) => Content(w)[k] = Content(l)[k]
               /\ \A i \in 1 .. Len(updates) : updates[i].key = k => Content(w)[k] = updates[i].value
    <3>1. About(l, k) = {p \in DOMAIN l : p < m /\ l[p].arg = k}
      BY <2>3, <2>6 DEF About
    <3>2. About(w, k) = About(l, k) \cup {p \in Updates(w, m) : w[p].arg = k}
      <4>1. \A p \in About(w, k) : p \in About(l, k) \cup {q \in Updates(w, m) : w[q].arg = k}
        <5>1. SUFFICES ASSUME NEW p \in About(w, k), p \notin Updates(w, m) PROVE p \in About(l, k)
          BY <1>11, <2>5 DEF About, MarkerAt
        <5>2. p \in DOMAIN w /\ p < m
          BY <2>2, <2>4, <2>7, <5>1 DEF About
        <5>3. p \in DOMAIN l
          BY <1>12, <5>2
        <5> QED
          BY <2>6, <3>1, <5>1, <5>2, <5>3 DEF About
      <4>2. \A p \in About(l, k) : p \in About(w, k)
        BY <2>2, <2>6, <3>1 DEF About
      <4>3. \A p \in Updates(w, m) : w[p].arg = k => p \in About(w, k)
        BY <2>2, <2>5 DEF About
      <4> QED
        BY <4>1, <4>2, <4>3
    <3>3. ASSUME \A i \in 1 .. Len(updates) : updates[i].key # k
          PROVE  Content(w)[k] = Content(l)[k]
      <4>1. \A p \in Updates(w, m) : w[p].arg # k
        <5>1. ASSUME NEW p \in Updates(w, m) PROVE w[p].arg # k
          <6>1. PICK i \in 1 .. n + 1 : w[p] = UpdateEntry(updates[i])
            BY <1>8
          <6>2. w[p].arg = updates[i].key
            BY <6>1 DEF UpdateEntry, Entry
          <6> QED
            BY <1>14, <3>3, <6>2
        <5> QED
          BY <5>1
      <4>2. About(w, k) = About(l, k)
        BY <3>2, <4>1
      <4>3. CASE About(l, k) = {}
        BY <1>3, <4>2, <4>3, Decides
      <4>4. CASE About(l, k) # {}
        <5>1. PICK p \in About(l, k) : \A q \in About(l, k) : q <= p
          BY <4>4, Decides
        <5>2. Content(l)[k] = l[p].value
          BY <5>1, Decides
        <5>3. Content(w)[k] = w[p].value
          BY <1>3, <4>2, <5>1, Decides
        <5>4. w[p] = l[p]
          BY <2>6, <3>1, <5>1
        <5> QED
          BY <5>2, <5>3, <5>4
      <4> QED
        BY <4>3, <4>4
    <3>4. ASSUME NEW i \in 1 .. Len(updates), updates[i].key = k
          PROVE  Content(w)[k] = updates[i].value
      <4>1. PICK p \in Updates(w, m) : w[p] = UpdateEntry(updates[i])
        BY <1>9, <1>14
      <4>2. w[p].arg = k /\ w[p].value = updates[i].value
        BY <3>4, <4>1 DEF UpdateEntry, Entry
      <4>3. p \in About(w, k)
        BY <3>2, <4>2
      <4>4. p \in Nat /\ m \in Nat /\ p > m
        BY <1>3, <1>4, <2>5 DEF IsLog
      <4>5. ASSUME NEW q \in About(w, k) PROVE q <= p
        <5>1. CASE q \in About(l, k)
          <6>1. q \in Nat /\ q < m
            BY <3>1, <5>1 DEF IsLog
          <6> QED
            BY <4>4, <6>1
        <5>2. CASE q \in Updates(w, m) /\ w[q].arg = k
          <6>1. q = p
            BY <1>10, <4>2, <5>2 DEF Distinct
          <6> QED
            BY <4>4, <6>1
        <5> QED
          BY <3>2, <5>1, <5>2
      <4> QED
        BY <1>3, <4>2, <4>3, <4>5, Decides
    <3> QED
      BY <3>3, <3>4
  <2>9. UpdatedBy(Content(l), Content(w), updates)
    BY <2>8 DEF UpdatedBy
  <2> QED
    BY <1>11, <1>14, <2>1, <2>9
<1> QED
  BY <1>13, <1>14

-----------------------------------------------------------------------------
\* Compaction.

WordsOf(l, S) == UNION {p .. p + size(l[p]) - 1 : p \in S}

Earlier(l, S, p) == {x \in WordsOf(l, S) : x < p}

(* Copies are as far apart as what they are copies of. *)
LEMMA CopyOrder ==
  ASSUME NEW l, NEW t, IsLog(l, t), NEW S \in SUBSET DOMAIN l
  PROVE  /\ Cardinality(WordsOf(l, S)) \in Nat
         /\ \A p \in S : /\ Cardinality(Earlier(l, S, p)) \in Nat
                         /\ Cardinality(Earlier(l, S, p)) + size(l[p]) <= Cardinality(WordsOf(l, S))
         /\ \A p, q \in S : p < q =>
              Cardinality(Earlier(l, S, p)) + size(l[p]) <= Cardinality(Earlier(l, S, q))
<1> DEFINE W == WordsOf(l, S)
           E(p) == Earlier(l, S, p)
           own(p) == p .. p + size(l[p]) - 1
<1>1. t \in Nat /\ \A p \in S : p \in Nat /\ size(l[p]) \in Nat \ {0} /\ p + size(l[p]) <= t
  BY LogFacts
<1>2. IsFiniteSet(W) /\ Cardinality(W) \in Nat
  <2>1. W \subseteq 0 .. t - 1
    <3>1. ASSUME NEW x \in W PROVE x \in 0 .. t - 1
      <4>1. PICK p \in S : x \in p .. p + size(l[p]) - 1
        BY <3>1 DEF WordsOf
      <4> QED
        BY <1>1, <4>1
    <3> QED
      BY <3>1
  <2>2. IsFiniteSet(0 .. t - 1)
    BY <1>1, FS_Interval
  <2> QED
    BY <2>1, <2>2, FS_Subset, FS_CardinalityType
<1>3. \A p \in S : E(p) \subseteq W /\ IsFiniteSet(E(p)) /\ Cardinality(E(p)) \in Nat
  <2>1. \A p \in S : E(p) \subseteq W
    BY DEF Earlier
  <2> QED
    BY <1>2, <2>1, FS_Subset, FS_CardinalityType
<1>4. ASSUME NEW p \in S
      PROVE  /\ own(p) \subseteq W
             /\ IsFiniteSet(E(p) \cup own(p))
             /\ Cardinality(E(p) \cup own(p)) = Cardinality(E(p)) + size(l[p])
  <2>1. own(p) \subseteq W
    BY DEF WordsOf
  <2>2. IsFiniteSet(own(p)) /\ Cardinality(own(p)) = size(l[p])
    <3>1. PICK b \in Nat : b = p + size(l[p]) - 1
      BY <1>1
    <3>2. own(p) = p .. b /\ p \in Int /\ b \in Int /\ ~(p > b) /\ b - p + 1 = size(l[p])
      BY <1>1, <3>1
    <3>3. IsFiniteSet(p .. b) /\ Cardinality(p .. b) = IF p > b THEN 0 ELSE b - p + 1
      BY <3>2, FS_Interval
    <3> QED
      BY <3>2, <3>3
  <2>3. E(p) \cap own(p) = {}
    BY <1>1 DEF Earlier
  <2> HIDE DEF E, own
  <2>4. Cardinality(E(p) \cup own(p)) = Cardinality(E(p)) + Cardinality(own(p)) - Cardinality({})
    BY <1>3, <2>2, <2>3, FS_Union
  <2>5. IsFiniteSet(E(p) \cup own(p))
    BY <1>3, <2>2, FS_Union
  <2> QED
    BY <1>1, <1>3, <2>1, <2>2, <2>4, <2>5, FS_EmptySet
<1>5. ASSUME NEW p \in S PROVE Cardinality(E(p)) + size(l[p]) <= Cardinality(W)
  <2>1. E(p) \cup own(p) \subseteq W
    BY <1>3, <1>4
  <2> HIDE DEF E, own, W
  <2>2. Cardinality(E(p) \cup own(p)) <= Cardinality(W)
    BY <1>2, <2>1, FS_Subset
  <2> QED
    BY <1>4, <2>2
<1>6. ASSUME NEW p \in S, NEW q \in S, p < q
      PROVE  Cardinality(E(p)) + size(l[p]) <= Cardinality(E(q))
  <2>1. p + size(l[p]) <= q
    BY <1>6 DEF IsLog
  <2>2. own(p) \subseteq E(q)
    <3>1. \A x \in own(p) : x < q
      BY <1>1, <2>1
    <3> QED
      BY <1>4, <3>1 DEF Earlier
  <2>3. E(p) \subseteq E(q)
    <3>1. \A x \in W : x \in Int
      <4>1. ASSUME NEW x \in W PROVE x \in Int
        <5>1. PICK r \in S : x \in r .. r + size(l[r]) - 1
          BY DEF WordsOf
        <5> QED
          BY <5>1
      <4> QED
        BY <4>1
    <3>2. p \in Nat /\ q \in Nat
      BY <1>1
    <3> QED
      BY <1>6, <3>1, <3>2 DEF Earlier
  <2>4. E(p) \cup own(p) \subseteq E(q)
    BY <2>2, <2>3
  <2> HIDE DEF E, own, W
  <2>5. Cardinality(E(p) \cup own(p)) <= Cardinality(E(q))
    BY <1>3, <2>4, FS_Subset
  <2> QED
    BY <1>4, <2>5
<1> QED
  BY <1>2, <1>3, <1>5, <1>6

\* Function copy says where the entries of S go, one after the other, between
\* begin and u.
Copies(l, S, copy, begin, u) ==
  /\ \A p \in S : copy[p] \in Nat /\ begin <= copy[p] /\ copy[p] + size(l[p]) <= u
  /\ \A p, q \in S : p < q => copy[p] + size(l[p]) <= copy[q]

\* Log w is log l with the entries before first copied.
Copied(l, w, first, copy) ==
  LET moved == {p \in DOMAIN l : p < first}
      kept == {p \in DOMAIN l : p >= first}
  IN  /\ DOMAIN w = kept \cup {copy[q] : q \in moved}
      /\ w = [p \in DOMAIN w |-> w[p]]
      /\ \A p \in kept : w[p] = l[p]
      /\ \A q \in moved : w[copy[q]] = l[q]

(* Compaction moves entries and keeps the content. *)
LEMMA Moves ==
  ASSUME NEW l, NEW t, IsLog(l, t), Clean(l), NEW begin \in Nat, t <= begin, NEW first \in Nat,
         NEW u \in Nat, begin <= u,
         NEW copy, Copies(l, {p \in DOMAIN l : p < first}, copy, begin, u),
         NEW w, Copied(l, w, first, copy)
  PROVE  IsLog(w, u) /\ Clean(w) /\ Content(w) = Content(l)
<1> DEFINE moved == {p \in DOMAIN l : p < first}
           kept == {p \in DOMAIN l : p >= first}
<1>1. /\ DOMAIN w = kept \cup {copy[q] : q \in moved}
      /\ w = [p \in DOMAIN w |-> w[p]]
      /\ \A p \in kept : w[p] = l[p]
      /\ \A q \in moved : w[copy[q]] = l[q]
  BY Zenon DEF Copied
<1>2. /\ \A p \in moved : copy[p] \in Nat /\ begin <= copy[p] /\ copy[p] + size(l[p]) <= u
      /\ \A p, q \in moved : p < q => copy[p] + size(l[p]) <= copy[q]
  BY DEF Copies
<1>3. t \in Nat /\ \A p \in DOMAIN l : p \in Nat /\ size(l[p]) \in Nat \ {0} /\ p + size(l[p]) <= t
  BY LogFacts
<1>4. DOMAIN l = moved \cup kept /\ \A p \in moved : p \notin kept
  BY <1>3
<1>5. \A p \in kept : p \in Nat /\ p + size(l[p]) <= begin /\ p < begin
  BY <1>3
<1>6. \A p, q \in moved : copy[p] = copy[q] => p = q
  <2>1. ASSUME NEW p \in moved, NEW q \in moved, copy[p] = copy[q], p # q PROVE FALSE
    <3>1. p \in Nat /\ q \in Nat /\ size(l[p]) \in Nat \ {0} /\ size(l[q]) \in Nat \ {0}
      BY <1>3
    <3>2. CASE p < q
      BY <1>2, <2>1, <3>1, <3>2
    <3>3. CASE q < p
      BY <1>2, <2>1, <3>1, <3>3
    <3> QED
      BY <2>1, <3>1, <3>2, <3>3
  <2> QED
    BY <2>1
<1> HIDE DEF moved, kept
<1>7. \A x \in DOMAIN w : \/ x \in kept /\ w[x] = l[x]
                          \/ \E q \in moved : x = copy[q] /\ w[x] = l[q]
  BY <1>1
<1>8. \A p \in DOMAIN l : IsEntry(l[p])
  BY DEF IsLog
<1>9. \A x \in DOMAIN w : x \in Nat /\ IsEntry(w[x]) /\ x + size(w[x]) <= u
  <2> TAKE x \in DOMAIN w
  <2>1. CASE x \in kept /\ w[x] = l[x]
    BY <1>3, <1>4, <1>5, <1>8, <2>1
  <2>2. CASE \E q \in moved : x = copy[q] /\ w[x] = l[q]
    <3>1. PICK q \in moved : x = copy[q] /\ w[x] = l[q]
      BY <2>2
    <3> QED
      BY <1>2, <1>4, <1>8, <3>1
  <2> QED
    BY <1>7, <2>1, <2>2
<1>10. ASSUME NEW x \in DOMAIN w, NEW y \in DOMAIN w, x < y PROVE x + size(w[x]) <= y
  <2>1. CASE x \in kept /\ y \in kept
    BY <1>1, <1>4, <1>10, <2>1 DEF IsLog
  <2>2. CASE x \in kept /\ \E q \in moved : y = copy[q]
    <3>1. PICK q \in moved : y = copy[q]
      BY <2>2
    <3>2. x \in Nat /\ x + size(l[x]) <= begin /\ w[x] = l[x] /\ size(l[x]) \in Nat
      BY <1>1, <1>3, <1>4, <1>5, <2>2
    <3>3. y \in Nat /\ begin <= y
      BY <1>2, <3>1
    <3> QED
      BY <3>2, <3>3
  <2>3. CASE (\E q \in moved : x = copy[q]) /\ y \in kept
    <3>1. x \in Nat /\ begin <= x
      BY <1>2, <2>3
    <3>2. y \in Nat /\ y < begin
      BY <1>5, <2>3
    <3> QED
      BY <1>10, <3>1, <3>2
  <2>4. CASE (\E q \in moved : x = copy[q]) /\ \E q \in moved : y = copy[q]
    <3>1. PICK p \in moved : x = copy[p]
      BY <2>4
    <3>2. PICK q \in moved : y = copy[q]
      BY <2>4
    <3>3. p \in Nat /\ q \in Nat /\ size(l[q]) \in Nat \ {0} /\ copy[p] \in Nat /\ copy[q] \in Nat
      BY <1>2, <1>3, <1>4
    <3>4. p # q
      BY <1>10, <3>1, <3>2, <3>3
    <3>5. ~(q < p)
      BY <1>2, <1>10, <3>1, <3>2, <3>3
    <3>6. p < q
      BY <3>3, <3>4, <3>5
    <3> QED
      BY <1>1, <1>2, <3>1, <3>2, <3>6
  <2> QED
    BY <1>7, <2>1, <2>2, <2>3, <2>4
<1>11. IsLog(w, u)
  BY <1>1, <1>9, <1>10 DEF IsLog
<1>12. Clean(w)
  <2>1. \A x \in DOMAIN w : w[x].kind = "User"
    BY <1>4, <1>7 DEF Clean
  <2>2. ASSUME NEW x \in DOMAIN w, NEW y \in DOMAIN w, w[x].arg = w[y].arg PROVE x = y
    <3>1. \A p, q \in DOMAIN l : l[p].arg = l[q].arg => p = q
      BY DEF Clean, Distinct
    <3>2. CASE x \in kept /\ w[x] = l[x]
      BY <1>4, <1>7, <2>2, <3>1, <3>2
    <3>3. CASE \E q \in moved : x = copy[q] /\ w[x] = l[q]
      BY <1>4, <1>7, <2>2, <3>1, <3>3
    <3> QED
      BY <1>7, <3>2, <3>3
  <2> QED
    BY <2>1, <2>2 DEF Clean, Distinct
<1>13. ASSUME NEW k \in Keys PROVE Content(w)[k] = Content(l)[k]
  <2>1. Open(l) /\ Open(w)
    BY <1>12, CleanOpen
  <2>2. CASE \E p \in DOMAIN l : l[p].arg = k
    <3>1. PICK p \in DOMAIN l : l[p].arg = k
      BY <2>2
    <3>2. PICK x \in DOMAIN w : w[x] = l[p]
      BY <1>1, <1>4
    <3>3. l[p].kind = "User"
      BY DEF Clean
    <3> QED
      BY <1>11, <2>1, <3>1, <3>2, <3>3, OpenContent
  <2>3. CASE \A p \in DOMAIN l : l[p].arg # k
    <3>1. \A x \in DOMAIN w : w[x].arg # k
      BY <1>4, <1>7, <2>3
    <3> QED
      BY <1>11, <2>1, <2>3, <3>1, OpenContent
  <2> QED
    BY <2>2, <2>3
<1> QED
  BY <1>11, <1>12, <1>13, SameContent

(* A compaction. *)
LEMMA Compacts ==
  ASSUME IsLog(log, tail_pos), Clean(log), NEW first \in Nat, NEW begin \in Nat, tail_pos <= begin,
         CompactTo(first, begin)
  PROVE  IsLog(log', tail_pos') /\ Clean(log') /\ Content(log') = Content(log)
<1> DEFINE S == {p \in At(log, {"User"}) : p < first}
           words == UNION {p .. p + size(log[p]) - 1 : p \in S}
           copy == [p \in S |-> begin + Cardinality({x \in words : x < p})]
           kept == {p \in DOMAIN log : p >= first}
<1>1. /\ log' = [p \in kept \cup {copy[q] : q \in S} |->
                   IF p \in kept THEN log[p]
                   ELSE log[CHOOSE q \in S : copy[q] = p]]
      /\ tail_pos' = begin + Cardinality(words) + 1
  BY DEF CompactTo
<1>2. S = {p \in DOMAIN log : p < first}
  BY DEF At, Clean
<1>3. words = WordsOf(log, S)
  BY DEF WordsOf
<1>4. \A p \in S : {x \in words : x < p} = Earlier(log, S, p)
  BY <1>3 DEF Earlier
<1>5. \A p \in S : copy[p] = begin + Cardinality(Earlier(log, S, p))
  BY <1>4
<1>6. S \in SUBSET DOMAIN log
  BY <1>2
<1> HIDE DEF S, words, copy
<1>7. /\ Cardinality(words) \in Nat
      /\ \A p \in S : /\ Cardinality(Earlier(log, S, p)) \in Nat
                      /\ Cardinality(Earlier(log, S, p)) + size(log[p]) <= Cardinality(words)
      /\ \A p, q \in S : p < q =>
           Cardinality(Earlier(log, S, p)) + size(log[p]) <= Cardinality(Earlier(log, S, q))
  BY <1>3, <1>6, CopyOrder
<1>8. \A p \in DOMAIN log : p \in Nat /\ size(log[p]) \in Nat \ {0} /\ p + size(log[p]) <= tail_pos
  BY LogFacts
<1>9. tail_pos' \in Nat /\ begin <= tail_pos' /\ tail_pos \in Nat
  BY <1>1, <1>7 DEF IsLog
<1>10. Copies(log, S, copy, begin, tail_pos')
  <2>1. \A p \in S : copy[p] \in Nat /\ begin <= copy[p] /\ copy[p] + size(log[p]) <= tail_pos'
    <3> TAKE p \in S
    <3> DEFINE c == Cardinality(Earlier(log, S, p))
    <3>1. c \in Nat /\ copy[p] = begin + c /\ size(log[p]) \in Nat /\ c + size(log[p]) <= Cardinality(words)
      BY <1>5, <1>6, <1>7, <1>8
    <3> HIDE DEF c
    <3> QED
      BY <1>1, <1>7, <3>1
  <2>2. \A p, q \in S : p < q => copy[p] + size(log[p]) <= copy[q]
    <3> TAKE p, q \in S
    <3> HAVE p < q
    <3> DEFINE c == Cardinality(Earlier(log, S, p))
               d == Cardinality(Earlier(log, S, q))
    <3>1. c \in Nat /\ copy[p] = begin + c /\ size(log[p]) \in Nat /\ c + size(log[p]) <= d
      BY <1>5, <1>6, <1>7, <1>8
    <3>2. d \in Nat /\ copy[q] = begin + d
      BY <1>5, <1>7
    <3> HIDE DEF c, d
    <3> QED
      BY <3>1, <3>2
  <2> QED
    BY <2>1, <2>2 DEF Copies
<1>11. \A p, q \in S : copy[p] = copy[q] => p = q
  <2>1. ASSUME NEW p \in S, NEW q \in S, copy[p] = copy[q], p # q PROVE FALSE
    <3>1. p \in Nat /\ q \in Nat /\ size(log[p]) \in Nat \ {0} /\ size(log[q]) \in Nat \ {0}
          /\ copy[p] \in Nat /\ copy[q] \in Nat
      BY <1>6, <1>8, <1>10 DEF Copies
    <3>2. ~(p < q)
      BY <1>10, <2>1, <3>1 DEF Copies
    <3>3. ~(q < p)
      BY <1>10, <2>1, <3>1 DEF Copies
    <3> QED
      BY <2>1, <3>1, <3>2, <3>3
  <2> QED
    BY <2>1
<1>12. \A q \in S : copy[q] \notin kept
  <2> TAKE q \in S
  <2>1. copy[q] \in Nat /\ begin <= copy[q]
    BY <1>10 DEF Copies
  <2>2. \A p \in kept : p \in Nat /\ p < tail_pos
    BY <1>8, <1>9
  <2> QED
    BY <1>9, <2>1, <2>2
<1>13. Copied(log, log', first, copy)
  <2>1. DOMAIN log' = kept \cup {copy[q] : q \in S} /\ log' = [p \in DOMAIN log' |-> log'[p]]
    BY <1>1
  <2>2. \A p \in kept : log'[p] = log[p]
    BY <1>1
  <2>3. \A q \in S : log'[copy[q]] = log[q]
    <3> TAKE q \in S
    <3>1. log'[copy[q]] = log[CHOOSE r \in S : copy[r] = copy[q]]
      BY <1>1, <1>12
    <3>2. (CHOOSE r \in S : copy[r] = copy[q]) = q
      BY <1>11
    <3> QED
      BY <3>1, <3>2
  <2> QED
    BY <1>2, <2>1, <2>2, <2>3 DEF Copied
<1> HIDE DEF kept
<1>14. Copies(log, {p \in DOMAIN log : p < first}, copy, begin, tail_pos')
  BY <1>2, <1>10
<1> QED
  BY <1>9, <1>13, <1>14, Moves

(* The next page begins after a position. *)
LEMMA NextPage ==
  ASSUME NEW pos \in Nat
  PROVE  next_page(pos) \in Nat /\ pos <= next_page(pos)
<1> DEFINE v == virt_page_size
<1>1. v \in Nat /\ v > 0
  BY FormatAssumption DEF is_storage_supported, virt_page_size, CONTENT_WORD
<1>2. next_page(pos) = (pos \div v + 1) * v
  BY DEF next_page
<1> HIDE DEF v
<1>3. pos \div v \in Int /\ pos % v \in 0 .. v - 1 /\ pos = (pos \div v) * v + (pos % v)
  BY <1>1, Division
<1>4. (pos \div v + 1) * v = (pos \div v) * v + v
  BY <1>1, <1>3
<1>5. (pos \div v) * v \in Int
  BY <1>1, <1>3
<1> QED
  BY <1>1, <1>2, <1>3, <1>4, <1>5

-----------------------------------------------------------------------------
\* Operations.

(* The entries that an operation writes. *)
LEMMA Entries ==
  ASSUME NEW o \in Operations
  PROVE  /\ o.name = "transaction" => Len(o.updates) \in Nat /\ DOMAIN o.updates = 1 .. Len(o.updates)
         /\ Inserts(o) => /\ EntriesOf(o) # <<>> /\ Len(EntriesOf(o)) = 1
                          /\ EntriesOf(o)[1] = UpdateEntry(o.updates[1])
         /\ Clears(o) => /\ EntriesOf(o) # <<>> /\ Len(EntriesOf(o)) = 1
                         /\ EntriesOf(o)[1] = Entry("Clear", o.min_key, NoValue)
         /\ Transacts(o) => /\ EntriesOf(o) # <<>> /\ Len(EntriesOf(o)) = 1 + Len(o.updates)
                            /\ EntriesOf(o)[1] = Entry("Marker", Len(o.updates), NoValue)
                            /\ \A n \in 1 .. Len(o.updates) :
                                 EntriesOf(o)[n + 1] = UpdateEntry(o.updates[n])
         /\ EntriesOf(o) # <<>> => Inserts(o) \/ Clears(o) \/ Transacts(o)
         /\ EntriesOf(o) = <<>> => Len(EntriesOf(o)) = 0
<1>1. o.name = "transaction" => Len(o.updates) \in Nat /\ DOMAIN o.updates = 1 .. Len(o.updates)
  BY OperationsAssumption
<1>2. ASSUME Inserts(o)
      PROVE  EntriesOf(o) = <<UpdateEntry(o.updates[1])>>
  BY <1>2 DEF EntriesOf, Inserts
<1>3. ASSUME Clears(o)
      PROVE  EntriesOf(o) = <<Entry("Clear", o.min_key, NoValue)>>
  BY <1>3 DEF EntriesOf, Clears
<1>4. ASSUME Transacts(o)
      PROVE  EntriesOf(o) = [i \in 1 .. 1 + Len(o.updates) |->
                               IF i = 1 THEN Entry("Marker", Len(o.updates), NoValue)
                               ELSE UpdateEntry(o.updates[i - 1])]
  BY <1>1, <1>4 DEF EntriesOf, Transacts
<1>5. ASSUME Transacts(o)
      PROVE  /\ EntriesOf(o) # <<>> /\ Len(EntriesOf(o)) = 1 + Len(o.updates)
             /\ EntriesOf(o)[1] = Entry("Marker", Len(o.updates), NoValue)
             /\ \A n \in 1 .. Len(o.updates) : EntriesOf(o)[n + 1] = UpdateEntry(o.updates[n])
  <2> DEFINE es == EntriesOf(o)
             k == Len(o.updates)
  <2>1. k \in Nat /\ k > 1
    BY <1>1, <1>5 DEF Transacts
  <2>2. es = [i \in 1 .. 1 + k |-> IF i = 1 THEN Entry("Marker", k, NoValue)
                                   ELSE UpdateEntry(o.updates[i - 1])]
    BY <1>4, <1>5
  <2> HIDE DEF es, k
  <2>3. DOMAIN es = 1 .. 1 + k /\ es[1] = Entry("Marker", k, NoValue)
    BY <2>1, <2>2
  <2>4. \A n \in 1 .. k : es[n + 1] = UpdateEntry(o.updates[n])
    <3> TAKE n \in 1 .. k
    <3>1. n + 1 \in 1 .. 1 + k /\ n + 1 # 1 /\ n + 1 - 1 = n
      BY <2>1
    <3> QED
      BY <2>2, <3>1
  <2>5. Len(es) = 1 + k /\ es # <<>>
    BY <2>1, <2>2
  <2> QED
    BY <2>3, <2>4, <2>5 DEF es, k
<1>6. ASSUME EntriesOf(o) # <<>> PROVE Inserts(o) \/ Clears(o) \/ Transacts(o)
  BY <1>6 DEF EntriesOf, Inserts, Clears, Transacts
<1>7. Inserts(o) => /\ EntriesOf(o) # <<>> /\ Len(EntriesOf(o)) = 1
                    /\ EntriesOf(o)[1] = UpdateEntry(o.updates[1])
  BY <1>2
<1>8. Clears(o) => /\ EntriesOf(o) # <<>> /\ Len(EntriesOf(o)) = 1
                   /\ EntriesOf(o)[1] = Entry("Clear", o.min_key, NoValue)
  BY <1>3
<1>9. EntriesOf(o) = <<>> => Len(EntriesOf(o)) = 0
  OBVIOUS
<1> QED
  BY <1>1, <1>5, <1>6, <1>7, <1>8, <1>9

(* An operation that writes entries writes at least one. *)
LEMMA SomeEntries ==
  ASSUME NEW o \in Operations, EntriesOf(o) # <<>>
  PROVE  Len(EntriesOf(o)) \in Nat \ {0}
<1>1. CASE Inserts(o)
  BY <1>1, Entries
<1>2. CASE Clears(o)
  BY <1>2, Entries
<1>3. CASE Transacts(o)
  <2>1. Len(o.updates) \in Nat /\ Len(EntriesOf(o)) = 1 + Len(o.updates)
    BY <1>3, Entries DEF Transacts
  <2> QED
    BY <2>1
<1> QED
  BY <1>1, <1>2, <1>3, Entries

(* They are entries. *)
LEMMA EntriesAreEntries ==
  ASSUME NEW o \in Operations
  PROVE  /\ IsEntry(Partial) /\ Partial.kind = "Partial" /\ size(Partial) = 1
         /\ o.name = "transaction" =>
              \A i \in 1 .. Len(o.updates) : /\ IsEntry(UpdateEntry(o.updates[i]))
                                             /\ UpdateEntry(o.updates[i]).kind \in {"User", "Remove"}
         /\ Inserts(o) => UpdateEntry(o.updates[1]).kind = "User"
         /\ Transacts(o) => IsEntry(Entry("Marker", Len(o.updates), NoValue))
         /\ Clears(o) => IsEntry(Entry("Clear", o.min_key, NoValue))
<1>1. IsEntry(Partial) /\ Partial.kind = "Partial" /\ size(Partial) = 1
  BY DEF IsEntry, Partial, Entry, Kinds, size
<1>2. ASSUME o.name = "transaction", NEW i \in 1 .. Len(o.updates)
      PROVE  /\ IsEntry(UpdateEntry(o.updates[i]))
             /\ UpdateEntry(o.updates[i]).kind \in {"User", "Remove"}
  <2>1. /\ o.updates[i].key \in Nat
        /\ o.updates[i].value # NoValue => Len(o.updates[i].value) \in Nat
    BY <1>2, OperationsAssumption
  <2> QED
    BY <2>1 DEF IsEntry, UpdateEntry, Entry, Kinds
<1>3. Inserts(o) => UpdateEntry(o.updates[1]).kind = "User"
  BY DEF Inserts, UpdateEntry, Entry
<1>4. Transacts(o) => IsEntry(Entry("Marker", Len(o.updates), NoValue))
  <2>1. Transacts(o) => Len(o.updates) \in Nat
    BY Entries DEF Transacts
  <2> QED
    BY <2>1 DEF IsEntry, Entry, Kinds
<1>5. Clears(o) => IsEntry(Entry("Clear", o.min_key, NoValue))
  <2>1. Clears(o) => o.min_key \in Nat
    BY OperationsAssumption DEF Clears
  <2> QED
    BY <2>1 DEF IsEntry, Entry, Kinds
<1> QED
  BY <1>1, <1>2, <1>3, <1>4, <1>5

(* Each entry has a size. *)
LEMMA EntrySize ==
  ASSUME NEW e, IsEntry(e)
  PROVE  size(e) \in Nat \ {0}
BY DEF IsEntry, size, entry_size

(* The effect of a transaction. *)
LEMMA ApplyTransaction ==
  ASSUME NEW o \in Operations, o.name = "transaction", NEW c, NEW c2,
         c2 = [k \in Keys |-> c2[k]], UpdatedBy(c, c2, o.updates)
  PROVE  c2 = Model!Apply(o, c) /\ c2 = Model!Apply(o, c2)
<1>1. DOMAIN o.updates = 1 .. Len(o.updates)
  BY Entries
<1>2. ASSUME NEW d, UpdatedBy(d, c2, o.updates) PROVE c2 = Model!Apply(o, d)
  <2>1. Model!Apply(o, d) =
          [k \in Keys |-> IF Model!Updated(o.updates, k) = {} THEN d[k]
                          ELSE o.updates[CHOOSE i \in Model!Updated(o.updates, k) : TRUE].value]
    BY DEF Model!Apply, Model!Keys, Keys
  <2>2. ASSUME NEW k \in Keys
        PROVE  c2[k] = IF Model!Updated(o.updates, k) = {} THEN d[k]
                       ELSE o.updates[CHOOSE i \in Model!Updated(o.updates, k) : TRUE].value
    <3>1. Model!Updated(o.updates, k) = {i \in 1 .. Len(o.updates) : o.updates[i].key = k}
      BY <1>1 DEF Model!Updated
    <3>2. CASE Model!Updated(o.updates, k) = {}
      BY <1>2, <3>1, <3>2 DEF UpdatedBy
    <3>3. CASE Model!Updated(o.updates, k) # {}
      <4>1. PICK i \in Model!Updated(o.updates, k) : i = CHOOSE j \in Model!Updated(o.updates, k) : TRUE
        BY <3>3
      <4>2. c2[k] = o.updates[i].value
        BY <1>2, <3>1 DEF UpdatedBy
      <4> QED
        BY <3>3, <4>1, <4>2
    <3> QED
      BY <3>2, <3>3
  <2> QED
    BY <2>1, <2>2
<1>3. UpdatedBy(c2, c2, o.updates)
  BY DEF UpdatedBy
<1> QED
  BY <1>2, <1>3

(* The effect of a clear operation. *)
LEMMA ApplyClear ==
  ASSUME NEW o \in Operations, Clears(o), NEW c, NEW c2, c2 = [k \in Keys |-> c2[k]],
         \A k \in Keys : c2[k] = IF k < o.min_key THEN c[k] ELSE NoValue
  PROVE  c2 = Model!Apply(o, c) /\ c2 = Model!Apply(o, c2)
<1>1. ASSUME NEW d PROVE Model!Apply(o, d) = [k \in Keys |-> IF k < o.min_key THEN d[k] ELSE NoValue]
  BY DEF Model!Apply, Model!Keys, Keys, Clears
<1> QED
  BY <1>1

(* A content is a function of the keys. *)
LEMMA ContentShape ==
  ASSUME NEW l
  PROVE  Content(l) = [k \in Keys |-> Content(l)[k]]
BY Zenon DEF Content, Keys

-----------------------------------------------------------------------------
\* The steps of an operation.

(* Where the next entry is written. *)
LEMMA Appends ==
  ASSUME IsLog(log, tail_pos), PartialLast(log), NEW e, IsEntry(e),
         log' = With(log, write_pos, e), tail_pos' \in Nat, write_pos + size(e) <= tail_pos'
  PROVE  Appended(log, log', tail_pos', write_pos, e) /\ write_pos \in Nat
<1>1. write_pos = WritePos(log, tail_pos)
  BY Zenon DEF write_pos, WritePos
<1>2. Appended(log, With(log, WritePos(log, tail_pos), e), tail_pos', WritePos(log, tail_pos), e)
  BY <1>1, Writes
<1> QED
  BY <1>1, <1>2 DEF Appended

(* The next entry is written after the others. *)
LEMMA WritePosNat ==
  ASSUME IsLog(log, tail_pos)
  PROVE  write_pos \in Nat
<1>1. At(log, {"Partial"}) \in SUBSET Nat
  BY DEF At, IsLog
<1> QED
  BY <1>1, MinOfNats DEF write_pos, IsLog

(* Part of an entry is written: what the log stands for stays. *)
LEMMA PartKeeps ==
  ASSUME IsLog(log, tail_pos), op \in Operations, UnderWay(log, tail_pos, op, written), WritePart
  PROVE  /\ IsLog(log', tail_pos')
         /\ UnderWay(log', tail_pos', op, written)
         /\ Content(log') = Content(log)
<1>1. /\ written < Len(EntriesOf(op))
      /\ log' = With(log, write_pos, Partial)
      /\ tail_pos' \in write_pos + 1 .. write_pos + size(next_entry)
  BY DEF WritePart
<1>2. IsEntry(Partial) /\ Partial.kind = "Partial" /\ size(Partial) = 1
  BY EntriesAreEntries
<1>3. write_pos \in Nat
  BY WritePosNat
<1>4. tail_pos' \in Nat /\ write_pos + size(Partial) <= tail_pos'
  BY <1>1, <1>2, <1>3
<1>5. CASE EntriesOf(op) = <<>> /\ written = 0
  BY <1>1, <1>5, Entries
<1>6. CASE EntriesOf(op) # <<>> /\ written = 0 /\ Open(log)
  <2>1. PartialLast(log)
    BY <1>6, OpenRest
  <2>2. Appended(log, log', tail_pos', write_pos, Partial)
    BY <1>1, <1>2, <1>4, <2>1, Appends
  <2>3. Open(log') /\ Content(log') = Content(log)
    BY <1>2, <1>6, <2>2, OpenBegins
  <2> QED
    BY <1>6, <2>2, <2>3 DEF UnderWay, Appended
<1>7. CASE /\ Transacts(op)
           /\ written \in 1 .. Len(op.updates)
           /\ \E m \in DOMAIN log : Wrote(log, m, op.updates, written - 1)
  <2>1. PICK m \in DOMAIN log : Wrote(log, m, op.updates, written - 1)
    BY <1>7
  <2>2. PartialLast(log)
    BY <2>1 DEF Wrote
  <2>3. Appended(log, log', tail_pos', write_pos, Partial)
    BY <1>1, <1>2, <1>4, <2>2, Appends
  <2>4. Len(op.updates) \in Nat /\ written - 1 \in Nat /\ written - 1 < Len(op.updates)
    BY <1>7, Entries DEF Transacts
  <2>5. Wrote(log', m, op.updates, written - 1) /\ Content(log') = Content(log)
    BY <1>2, <2>1, <2>3, <2>4, UpdateBegins
  <2>6. m \in DOMAIN log'
    BY <2>5 DEF Wrote, MarkerAt
  <2> QED
    BY <1>7, <2>3, <2>5, <2>6 DEF UnderWay, Appended
<1>8. CASE EntriesOf(op) # <<>> /\ written = Len(EntriesOf(op))
  <2>1. Len(EntriesOf(op)) \in Nat
    BY <1>8, Entries DEF Transacts
  <2> QED
    BY <1>1, <1>8, <2>1
<1> QED
  BY <1>5, <1>6, <1>7, <1>8 DEF UnderWay

\* The keys of an accepted transaction are distinct.
LEMMA AcceptedKeys ==
  ASSUME NEW o \in Operations, Accepted(o), o.name = "transaction"
  PROVE  DistinctKeys(o.updates)
BY Entries DEF Accepted, transaction_valid, DistinctKeys

(* An entry is written: with the last one the operation takes effect. *)
LEMMA EntryKeeps ==
  ASSUME IsLog(log, tail_pos), op \in Operations, Accepted(op),
         UnderWay(log, tail_pos, op, written), WriteEntry
  PROVE  /\ IsLog(log', tail_pos')
         /\ UnderWay(log', tail_pos', op, written + 1)
         /\ Content(log') = Content(log) \/ Content(log') = Model!Apply(op, Content(log))
<1> DEFINE e == next_entry
<1>1. /\ written < Len(EntriesOf(op))
      /\ log' = With(log, write_pos, e)
      /\ tail_pos' = write_pos + size(e)
  BY DEF WriteEntry
<1>2. e = EntriesOf(op)[written + 1]
  BY DEF next_entry
<1> HIDE DEF e
<1>3. write_pos \in Nat
  BY WritePosNat
<1>4. ASSUME IsEntry(e), PartialLast(log)
      PROVE  Appended(log, log', tail_pos', write_pos, e) /\ IsLog(log', tail_pos')
  <2>1. tail_pos' \in Nat /\ write_pos + size(e) <= tail_pos'
    BY <1>1, <1>3, <1>4, EntrySize
  <2>2. Appended(log, log', tail_pos', write_pos, e)
    BY <1>1, <1>4, <2>1, Appends
  <2> QED
    BY <2>2 DEF Appended
<1>5. CASE EntriesOf(op) = <<>> /\ written = 0
  BY <1>1, <1>5, Entries
<1>6. CASE EntriesOf(op) # <<>> /\ written = 0 /\ Open(log)
  <2>0. PartialLast(log) /\ written + 1 = 1 /\ e = EntriesOf(op)[1]
    BY <1>2, <1>6, OpenRest
  <2>1. CASE Inserts(op)
    <3>1. /\ e = UpdateEntry(op.updates[1]) /\ Len(EntriesOf(op)) = 1 /\ Len(op.updates) = 1
          /\ op.name = "transaction"
      BY <2>0, <2>1, Entries DEF Inserts
    <3>2. IsEntry(e) /\ e.kind = "User"
      <4>1. 1 \in 1 .. Len(op.updates)
        BY <3>1
      <4> QED
        BY <2>1, <3>1, <4>1, EntriesAreEntries
    <3>3. Appended(log, log', tail_pos', write_pos, e) /\ IsLog(log', tail_pos')
      BY <1>4, <2>0, <3>2
    <3>4. InsertAt(log', tail_pos', write_pos)
      BY <1>1, <1>6, <3>2, <3>3, InsertWrites
    <3>5. \A k \in Keys : Content(log')[k] = IF k = e.arg THEN e.value ELSE Content(log)[k]
      BY <1>1, <1>6, <3>2, <3>3, InsertWrites
    <3>6. e.arg = op.updates[1].key /\ e.value = op.updates[1].value
      BY <3>1 DEF UpdateEntry, Entry
    <3>7. UpdatedBy(Content(log), Content(log'), op.updates)
      <4>1. \A i \in 1 .. Len(op.updates) : i = 1
        BY <3>1
      <4>2. 1 \in 1 .. Len(op.updates)
        BY <3>1
      <4> QED
        BY <3>5, <3>6, <4>1, <4>2 DEF UpdatedBy
    <3>8. Content(log') = Model!Apply(op, Content(log)) /\ Content(log') = Model!Apply(op, Content(log'))
      BY <3>1, <3>7, ContentShape, ApplyTransaction
    <3>9. log'[write_pos] = e /\ write_pos \in DOMAIN log'
      BY <3>3 DEF Appended
    <3>10. Written(log', tail_pos', op)
      BY <2>1, <3>4, <3>6, <3>9 DEF Written
    <3> QED
      BY <1>6, <2>0, <3>1, <3>3, <3>8, <3>10 DEF UnderWay
  <2>2. CASE Clears(op)
    <3>1. e = Entry("Clear", op.min_key, NoValue) /\ Len(EntriesOf(op)) = 1
      BY <2>0, <2>2, Entries
    <3>2. IsEntry(e) /\ e.kind = "Clear" /\ e.arg = op.min_key
      BY <2>2, <3>1, EntriesAreEntries DEF Entry
    <3>3. Appended(log, log', tail_pos', write_pos, e) /\ IsLog(log', tail_pos')
      BY <1>4, <2>0, <3>2
    <3>4. ClearAt(log', write_pos)
      BY <1>6, <3>2, <3>3, ClearWrites
    <3>5. \A k \in Keys : Content(log')[k] = IF k < op.min_key THEN Content(log)[k] ELSE NoValue
      <4>1. \A k \in Keys : Content(log')[k] = IF k < e.arg THEN Content(log)[k] ELSE NoValue
        BY <1>6, <3>2, <3>3, ClearWrites
      <4> QED
        BY <3>2, <4>1
    <3>6. Content(log') = Model!Apply(op, Content(log)) /\ Content(log') = Model!Apply(op, Content(log'))
      BY <2>2, <3>5, ContentShape, ApplyClear
    <3>7. Written(log', tail_pos', op)
      BY <2>2, <3>4 DEF Written, ClearAt
    <3> QED
      BY <1>6, <2>0, <3>1, <3>3, <3>6, <3>7 DEF UnderWay
  <2>3. CASE Transacts(op)
    <3>1. /\ e = Entry("Marker", Len(op.updates), NoValue)
          /\ Len(op.updates) \in Nat /\ Len(op.updates) > 1
      BY <2>0, <2>3, Entries DEF Transacts
    <3>2. IsEntry(e) /\ e.kind = "Marker" /\ e.arg = Len(op.updates) /\ e.arg > 0
      <4>1. IsEntry(e)
        BY <2>3, <3>1, EntriesAreEntries
      <4>2. e.kind = "Marker" /\ e.arg = Len(op.updates)
        BY <3>1 DEF Entry
      <4> QED
        BY <3>1, <4>1, <4>2
    <3>3. Appended(log, log', tail_pos', write_pos, e) /\ IsLog(log', tail_pos')
      BY <1>4, <2>0, <3>2
    <3>4. Wrote(log', write_pos, op.updates, 0) /\ Content(log') = Content(log)
      BY <1>6, <3>2, <3>3, MarkerWrites
    <3>5. write_pos \in DOMAIN log'
      BY <3>3 DEF Appended
    <3>6. written + 1 \in 1 .. Len(op.updates) /\ (written + 1) - 1 = 0
      BY <1>6, <3>1
    <3> QED
      BY <2>3, <3>3, <3>4, <3>5, <3>6 DEF UnderWay
  <2> QED
    BY <1>6, <2>1, <2>2, <2>3, Entries
<1>7. CASE /\ Transacts(op)
           /\ written \in 1 .. Len(op.updates)
           /\ \E m \in DOMAIN log : Wrote(log, m, op.updates, written - 1)
  <2> DEFINE n == written - 1
  <2>1. PICK m \in DOMAIN log : Wrote(log, m, op.updates, n)
    BY <1>7
  <2>2. PartialLast(log) /\ op.name = "transaction"
    BY <1>7, <2>1 DEF Wrote, Transacts
  <2>3. /\ Len(op.updates) \in Nat /\ n \in Nat /\ n < Len(op.updates)
        /\ n + 1 = written /\ n + 1 \in 1 .. Len(op.updates)
        /\ Len(EntriesOf(op)) = 1 + Len(op.updates) /\ EntriesOf(op) # <<>>
    BY <1>7, <2>2, Entries
  <2>4. e = UpdateEntry(op.updates[n + 1])
    <3>1. \A i \in 1 .. Len(op.updates) : EntriesOf(op)[i + 1] = UpdateEntry(op.updates[i])
      BY <1>7, Entries
    <3> QED
      BY <1>2, <2>3, <3>1
  <2>5. IsEntry(e)
    BY <2>2, <2>3, <2>4, EntriesAreEntries
  <2>6. Appended(log, log', tail_pos', write_pos, e) /\ IsLog(log', tail_pos')
    BY <1>4, <2>2, <2>5
  <2>7. DistinctKeys(op.updates)
    BY <2>2, AcceptedKeys
  <2> HIDE DEF n
  <2>8. /\ n + 1 < Len(op.updates) => Wrote(log', m, op.updates, n + 1) /\ Content(log') = Content(log)
        /\ n + 1 = Len(op.updates) =>
             /\ MarkerAt(log', m) /\ Complete(log', m)
             /\ UpdatedBy(Content(log), Content(log'), op.updates)
    BY <2>1, <2>3, <2>4, <2>5, <2>6, <2>7, UpdateWrites
  <2>9. CASE n + 1 < Len(op.updates)
    <3>1. Wrote(log', m, op.updates, written) /\ Content(log') = Content(log) /\ m \in DOMAIN log'
      BY <2>3, <2>8, <2>9 DEF Wrote, MarkerAt
    <3>2. written + 1 \in 1 .. Len(op.updates) /\ (written + 1) - 1 = written
      BY <2>3, <2>9
    <3> QED
      BY <1>7, <2>6, <3>1, <3>2 DEF UnderWay
  <2>10. CASE n + 1 = Len(op.updates)
    <3>1. Content(log') = Model!Apply(op, Content(log)) /\ Content(log') = Model!Apply(op, Content(log'))
      BY <2>2, <2>8, <2>10, ContentShape, ApplyTransaction
    <3>2. Written(log', tail_pos', op)
      BY <1>7, <2>8, <2>10 DEF Written, MarkerAt
    <3>3. written + 1 = Len(EntriesOf(op))
      BY <2>3, <2>10
    <3> QED
      BY <2>3, <2>6, <3>1, <3>2, <3>3 DEF UnderWay
  <2> QED
    BY <2>3, <2>9, <2>10
<1>8. CASE EntriesOf(op) # <<>> /\ written = Len(EntriesOf(op))
  <2>1. Len(EntriesOf(op)) \in Nat
    BY <1>8, Entries DEF Transacts
  <2> QED
    BY <1>1, <1>8, <2>1
<1> QED
  BY <1>5, <1>6, <1>7, <1>8 DEF UnderWay

(* delete_keys deletes one of the entries that are replaced. *)
LEMMA DeletesOne ==
  ASSUME IsLog(log, tail_pos), NEW keys, NEW end, DeleteKeys(keys, end)
  PROVE  \E pos \in Replaced(log, keys, end) :
           pos \in DOMAIN log /\ log' = Without(log, pos) /\ IsLog(log', tail_pos')
<1>1. Replaced(log, keys, end) # {} /\ Replaced(log, keys, end) \in SUBSET DOMAIN log
  BY DEF DeleteKeys, Replaced, At
<1>2. DOMAIN log \in SUBSET Nat
  BY DEF IsLog
<1>3. Min(Replaced(log, keys, end)) \in Replaced(log, keys, end)
  BY <1>1, <1>2, MinOfNats
<1>4. log' = Without(log, Min(Replaced(log, keys, end))) /\ tail_pos' = tail_pos
  BY DEF DeleteKeys, Pad
<1> QED
  BY <1>1, <1>3, <1>4, WithoutLog

(* The last entry of a log. *)
LEMMA LastEntry ==
  ASSUME NEW l, NEW t, IsLog(l, t), NEW last \in DOMAIN l, \A p \in DOMAIN l : p <= last
  PROVE  Max(DOMAIN l) = last
<1>1. DOMAIN l \in SUBSET Nat /\ \A p \in DOMAIN l : p <= t
  BY LogFacts
<1>2. t \in Nat /\ DOMAIN l # {}
  BY LogFacts
<1>3. Max(DOMAIN l) \in DOMAIN l /\ \A p \in DOMAIN l : p <= Max(DOMAIN l)
  BY <1>1, <1>2, MaxOfNats
<1>4. last \in Nat /\ Max(DOMAIN l) \in Nat
  BY <1>1, <1>3
<1> QED
  BY <1>3, <1>4

(* Remove entries are padded. *)
LEMMA PadsRemove ==
  ASSUME IsLog(log, tail_pos), Recoverable(log, tail_pos), PadRemoves
  PROVE  /\ Removes(log)
         /\ IsLog(log', tail_pos') /\ Removes(log') /\ Content(log') = Content(log)
<1>1. At(log, {"Remove"}) \in SUBSET DOMAIN log /\ At(log, {"Remove"}) # {}
  BY DEF PadRemoves, At
<1>2. DOMAIN log \in SUBSET Nat
  BY DEF IsLog
<1>3. PICK pos \in At(log, {"Remove"}) : log' = Without(log, pos) /\ tail_pos' = tail_pos
  BY <1>1, <1>2, MinOfNats DEF PadRemoves, Pad
<1>4. pos \in DOMAIN log /\ log[pos].kind = "Remove"
  BY <1>3 DEF At
<1>5. Removes(log)
  <2>1. ~Open(log)
    BY <1>4 DEF Open
  <2>2. \A s \in DOMAIN log : ~ClearAt(log, s) /\ ~MarkerAt(log, s) /\ ~InsertAt(log, tail_pos, s)
    BY <1>4 DEF ClearAt, MarkerAt, InsertAt, PadRemoves, At
  <2> QED
    BY <2>1, <2>2 DEF Recoverable
<1> QED
  BY <1>3, <1>4, <1>5, RemovePads, WithoutLog

(* A clear entry of a recoverable log. *)
LEMMA TheClear ==
  ASSUME IsLog(log, tail_pos), Recoverable(log, tail_pos), NEW clear \in At(log, {"Clear"})
  PROVE  ClearAt(log, clear)
<1>1. clear \in DOMAIN log /\ log[clear].kind = "Clear" /\ log[clear].arg \in Nat
  BY LogFacts DEF At
<1>2. ~Open(log) /\ ~Removes(log) /\ \A s \in DOMAIN log : ~InsertAt(log, tail_pos, s)
  BY <1>1 DEF Open, Removes, InsertAt
<1>3. \A s \in DOMAIN log : ~MarkerAt(log, s)
  <2>1. ASSUME NEW s \in DOMAIN log, MarkerAt(log, s) PROVE FALSE
    <3>1. s \in Nat /\ clear \in Nat
      BY <1>1 DEF IsLog
    <3>2. ~(clear < s) /\ ~(clear > s) /\ clear # s
      BY <1>1, <2>1 DEF MarkerAt, CleanBefore
    <3> QED
      BY <3>1, <3>2
  <2> QED
    BY <2>1
<1>4. PICK s \in DOMAIN log : ClearAt(log, s)
  BY <1>2, <1>3 DEF Recoverable
<1>5. s \in Nat /\ clear \in Nat /\ clear <= s /\ ~(clear < s)
  BY <1>1, <1>4 DEF IsLog, ClearAt, CleanBefore
<1>6. clear = s
  BY <1>5
<1> QED
  BY <1>4, <1>6

(* A clear entry is applied. *)
LEMMA ClearsOne ==
  ASSUME IsLog(log, tail_pos), Recoverable(log, tail_pos), NEW clear \in At(log, {"Clear"}),
         clear_delete(clear)
  PROVE  /\ ClearAt(log, clear)
         /\ IsLog(log', tail_pos') /\ Content(log') = Content(log)
         /\ Clean(log') \/ ClearAt(log', clear)
<1>1. clear \in DOMAIN log /\ log[clear].kind = "Clear" /\ log[clear].arg \in Nat
  BY LogFacts DEF At
<1>2. ClearAt(log, clear)
  BY TheClear
<1>3. CASE DeleteKeys(log[clear].arg .. MaxKey, clear)
  <2>1. PICK pos \in Replaced(log, log[clear].arg .. MaxKey, clear) :
          pos \in DOMAIN log /\ log' = Without(log, pos) /\ IsLog(log', tail_pos')
    BY <1>3, DeletesOne
  <2>2. ClearAt(Without(log, pos), clear) /\ Content(Without(log, pos)) = Content(log)
    BY <1>2, ClearDeletes
  <2> QED
    BY <1>2, <2>1, <2>2
<1>4. CASE Replaced(log, log[clear].arg .. MaxKey, clear) = {} /\ Pad(clear)
  <2>1. log' = Without(log, clear) /\ tail_pos' = tail_pos
    BY <1>4 DEF Pad
  <2>2. Clean(Without(log, clear)) /\ Content(Without(log, clear)) = Content(log)
    BY <1>1, <1>2, <1>4, ClearEnds
  <2> QED
    BY <1>2, <2>1, <2>2, WithoutLog
<1> QED
  BY <1>3, <1>4 DEF clear_delete, Conclude

(* A marker of a recoverable log. *)
LEMMA TheMarker ==
  ASSUME IsLog(log, tail_pos), Recoverable(log, tail_pos), NEW marker \in At(log, {"Marker"})
  PROVE  MarkerAt(log, marker)
<1>1. marker \in DOMAIN log /\ log[marker].kind = "Marker" /\ marker \in Nat
  BY DEF At, IsLog
<1>2. ~Open(log) /\ ~Removes(log) /\ \A s \in DOMAIN log : ~InsertAt(log, tail_pos, s)
  BY <1>1 DEF Open, Removes, InsertAt
<1>3. \A s \in DOMAIN log : ~ClearAt(log, s)
  <2>1. ASSUME NEW s \in DOMAIN log, ClearAt(log, s) PROVE FALSE
    <3>1. s \in Nat /\ marker <= s /\ ~(marker < s) /\ marker # s
      BY <1>1, <2>1 DEF IsLog, ClearAt, CleanBefore
    <3> QED
      BY <1>1, <3>1
  <2> QED
    BY <2>1
<1>4. PICK m \in DOMAIN log : MarkerAt(log, m)
  BY <1>2, <1>3 DEF Recoverable
<1>5. marker = m
  BY <1>4, OneMarker
<1> QED
  BY <1>4, <1>5

(* A complete transaction is applied. *)
LEMMA AppliesTransaction ==
  ASSUME IsLog(log, tail_pos), NEW marker, MarkerAt(log, marker), Complete(log, marker),
         transaction_apply(marker)
  PROVE  /\ IsLog(log', tail_pos') /\ Content(log') = Content(log)
         /\ \/ Removes(log')
            \/ MarkerAt(log', marker) /\ Complete(log', marker)
<1>1. CASE DeleteKeys(UpdatedKeys(log, marker), marker)
  <2>1. PICK pos \in Replaced(log, UpdatedKeys(log, marker), marker) :
          pos \in DOMAIN log /\ log' = Without(log, pos) /\ IsLog(log', tail_pos')
    BY <1>1, DeletesOne
  <2>2. /\ MarkerAt(Without(log, pos), marker)
        /\ Complete(Without(log, pos), marker)
        /\ Content(Without(log, pos)) = Content(log)
    BY TransactionDeletes
  <2> QED
    BY <2>1, <2>2
<1>2. CASE Replaced(log, UpdatedKeys(log, marker), marker) = {} /\ Pad(marker)
  <2>1. log' = Without(log, marker) /\ tail_pos' = tail_pos
    BY <1>2 DEF Pad
  <2>2. Removes(Without(log, marker)) /\ Content(Without(log, marker)) = Content(log)
    BY <1>2, TransactionEnds
  <2> QED
    BY <2>1, <2>2, WithoutLog
<1> QED
  BY <1>1, <1>2 DEF transaction_apply, Conclude, UpdatedKeys

(* An incomplete transaction is rolled back. *)
LEMMA RollsBack ==
  ASSUME IsLog(log, tail_pos), NEW marker, MarkerAt(log, marker), ~Complete(log, marker),
         roll_back(marker)
  PROVE  /\ IsLog(log', tail_pos') /\ Content(log') = Content(log)
         /\ Clean(log') \/ MarkerAt(log', marker)
<1> DEFINE after == {p \in DOMAIN log : p > marker}
<1>1. CASE after = {}
  <2>1. log' = Without(log, marker) /\ tail_pos' = tail_pos
    BY <1>1 DEF roll_back, Pad
  <2>2. \A p \in DOMAIN log : ~(p > marker)
    BY <1>1
  <2>3. Clean(Without(log, marker)) /\ Content(Without(log, marker)) = Content(log)
    BY <2>2, RollBackEnds
  <2> QED
    BY <2>1, <2>3, WithoutLog
<1>2. CASE after # {}
  <2>1. log' = Without(log, Min(after)) /\ tail_pos' = tail_pos
    BY <1>2 DEF roll_back, Pad
  <2>2. after \in SUBSET Nat
    BY DEF IsLog
  <2>3. Min(after) \in after
    BY <1>2, <2>2, MinOfNats
  <2>4. PICK pos \in DOMAIN log : pos = Min(after) /\ pos > marker
    BY <2>3
  <2>5. MarkerAt(Without(log, pos), marker) /\ Content(Without(log, pos)) = Content(log)
    BY <2>4, RollBackDeletes
  <2> QED
    BY <2>1, <2>4, <2>5, WithoutLog
<1> QED
  BY <1>1, <1>2

(* What an operation leaves when it is interrupted is recoverable. *)
LEMMA UnderWayRecoverable ==
  ASSUME NEW l, NEW t, NEW o, NEW n, UnderWay(l, t, o, n)
  PROVE  Recoverable(l, t)
<1>1. CASE Clean(l)
  BY <1>1, CleanOpen DEF Recoverable
<1>2. CASE Open(l)
  BY <1>2 DEF Recoverable
<1>3. CASE \E m \in DOMAIN l : Wrote(l, m, o.updates, n - 1)
  BY <1>3 DEF Recoverable, Wrote
<1>4. CASE Written(l, t, o)
  BY <1>4, CleanOpen DEF Written, Recoverable
<1> QED
  BY <1>1, <1>2, <1>3, <1>4 DEF UnderWay

(* The steps of recovery keep what the log stands for. *)
LEMMA RecoverKeeps ==
  ASSUME IsLog(log, tail_pos), Recoverable(log, tail_pos), RecoverStep
  PROVE  /\ IsLog(log', tail_pos')
         /\ Recoverable(log', tail_pos')
         /\ Content(log') = Content(log)
<1>1. CASE PadRemoves
  BY <1>1, PadsRemove DEF Recoverable
<1>2. ASSUME NEW clear \in At(log, {"Clear"}), clear_delete(clear)
      PROVE  IsLog(log', tail_pos') /\ Recoverable(log', tail_pos') /\ Content(log') = Content(log)
  <2>1. /\ IsLog(log', tail_pos') /\ Content(log') = Content(log)
        /\ Clean(log') \/ ClearAt(log', clear)
    BY <1>2, ClearsOne
  <2> QED
    BY <2>1, CleanOpen DEF Recoverable, ClearAt
<1>3. ASSUME NEW marker \in At(log, {"Marker"}), recover_transaction(marker)
      PROVE  IsLog(log', tail_pos') /\ Recoverable(log', tail_pos') /\ Content(log') = Content(log)
  <2>1. MarkerAt(log, marker)
    BY TheMarker
  <2>2. CASE Complete(log, marker)
    <3>1. /\ IsLog(log', tail_pos') /\ Content(log') = Content(log)
          /\ \/ Removes(log')
             \/ MarkerAt(log', marker) /\ Complete(log', marker)
      BY <1>3, <2>1, <2>2, AppliesTransaction DEF recover_transaction
    <3> QED
      BY <3>1 DEF Recoverable, MarkerAt
  <2>3. CASE ~Complete(log, marker)
    <3>1. /\ IsLog(log', tail_pos') /\ Content(log') = Content(log)
          /\ Clean(log') \/ MarkerAt(log', marker)
      BY <1>3, <2>1, <2>3, RollsBack DEF recover_transaction
    <3> QED
      BY <3>1, CleanOpen DEF Recoverable, MarkerAt
  <2> QED
    BY <2>2, <2>3
<1>4. ASSUME At(log, {"Clear", "Marker"}) = {}, NEW partial \in At(log, {"Partial"}), Pad(partial)
      PROVE  IsLog(log', tail_pos') /\ Recoverable(log', tail_pos') /\ Content(log') = Content(log)
  <2>1. partial \in DOMAIN log /\ log[partial].kind = "Partial"
    BY DEF At
  <2>2. \A s \in DOMAIN log : ~ClearAt(log, s) /\ ~MarkerAt(log, s) /\ ~InsertAt(log, tail_pos, s)
    BY <1>4, <2>1 DEF ClearAt, MarkerAt, InsertAt, At
  <2>3. Open(log)
    BY <2>1, <2>2 DEF Recoverable, Removes
  <2>4. log' = Without(log, partial) /\ tail_pos' = tail_pos
    BY <1>4 DEF Pad
  <2>5. Clean(Without(log, partial)) /\ Content(Without(log, partial)) = Content(log)
    BY <2>1, <2>3, PadPartial
  <2> QED
    BY <2>4, <2>5, WithoutLog, CleanOpen DEF Recoverable
<1>5. CASE recover_insert
  <2> DEFINE last == Max(DOMAIN log)
  <2>1. /\ At(log, {"Marker", "Clear", "Partial", "Remove"}) = {}
        /\ DOMAIN log # {}
        /\ last + size(log[last]) = tail_pos
        /\ DeleteKeys({log[last].arg}, last)
    BY <1>5 DEF recover_insert
  <2>2. \A p \in DOMAIN log : log[p].kind = "User"
    BY <2>1, LogFacts DEF At, Kinds
  <2>3. PICK pos \in Replaced(log, {log[last].arg}, last) :
          pos \in DOMAIN log /\ log' = Without(log, pos) /\ IsLog(log', tail_pos')
    BY <2>1, DeletesOne
  <2>4. last \in DOMAIN log /\ \A p \in DOMAIN log : p <= last
    <3>1. DOMAIN log \in SUBSET Nat /\ tail_pos \in Nat /\ \A p \in DOMAIN log : p <= tail_pos
      BY LogFacts
    <3> QED
      BY <2>1, <3>1, MaxOfNats
  <2> HIDE DEF last
  <2>5. pos < last /\ log[pos].arg = log[last].arg /\ pos \in Nat /\ last \in Nat
    BY <2>3, <2>4 DEF Replaced, IsLog
  <2>6. pos # last
    BY <2>5
  <2>7. ~Clean(log)
    BY <2>3, <2>4, <2>5, <2>6 DEF Clean, Distinct
  <2>8. ~Open(log) /\ ~Removes(log)
    BY <2>2, <2>7, CleanOpen DEF At
  <2>9. \A s \in DOMAIN log : ~ClearAt(log, s) /\ ~MarkerAt(log, s)
    BY <2>2 DEF ClearAt, MarkerAt
  <2>10. PICK x \in DOMAIN log : InsertAt(log, tail_pos, x)
    BY <2>8, <2>9 DEF Recoverable
  <2>11. x = last
    <3>1. x \in Nat /\ last \in Nat /\ last <= x /\ x <= last
      BY <2>4, <2>5, <2>10 DEF InsertAt, IsLog
    <3> QED
      BY <3>1
  <2>12. InsertAt(Without(log, pos), tail_pos, last) /\ Content(Without(log, pos)) = Content(log)
    BY <2>3, <2>10, <2>11, InsertDeletes
  <2>13. tail_pos' = tail_pos
    BY <2>1 DEF DeleteKeys, Pad
  <2> QED
    BY <2>3, <2>12, <2>13 DEF Recoverable, InsertAt
<1> QED
  BY <1>1, <1>2, <1>3, <1>4, <1>5 DEF RecoverStep

(* When no step of recovery is left, the log is clean. *)
LEMMA RecoverEnds ==
  ASSUME IsLog(log, tail_pos), Recoverable(log, tail_pos), RecoverDone
  PROVE  Clean(log)
<1>1. \A p \in DOMAIN log : log[p].kind = "User"
  BY LogFacts DEF RecoverDone, At, Kinds
<1>2. CASE Open(log)
  BY <1>1, <1>2, CleanOpen DEF At
<1>3. CASE Removes(log)
  BY <1>1, <1>3, CleanOpen DEF At
<1>4. \A s \in DOMAIN log : ~ClearAt(log, s) /\ ~MarkerAt(log, s)
  BY <1>1 DEF ClearAt, MarkerAt
<1>5. ASSUME NEW last \in DOMAIN log, InsertAt(log, tail_pos, last) PROVE Clean(log)
  <2>1. Max(DOMAIN log) = last
    BY <1>5, LastEntry DEF InsertAt
  <2>2. last + size(log[last]) = tail_pos
    BY <1>5 DEF InsertAt
  <2>3. Replaced(log, {log[last].arg}, last) = {}
    BY <2>1, <2>2 DEF RecoverDone
  <2> QED
    BY <1>5, <2>3, InsertEnds
<1> QED
  BY <1>2, <1>3, <1>4, <1>5 DEF Recoverable

(* Applying an operation keeps what the log stands for, except that a        *)
(* removal, which writes no entry, takes effect when it deletes one.        *)
LEMMA ApplyKeeps ==
  ASSUME IsLog(log, tail_pos), op \in Operations, UnderWay(log, tail_pos, op, written), ApplyStep
  PROVE  /\ IsLog(log', tail_pos')
         /\ UnderWay(log', tail_pos', op, written)
         /\ Content(log') = Content(log) \/ Content(log') = Model!Apply(op, Content(log))
<1>0. Recoverable(log, tail_pos)
  BY UnderWayRecoverable
<1>1. written = Len(EntriesOf(op))
  BY DEF ApplyStep
<1>2. CASE EntriesOf(op) = <<>> /\ written = 0 /\ Clean(log)
  <2>1. \A p \in DOMAIN log : log[p].kind = "User"
    BY <1>2 DEF Clean
  <2>2. At(log, {"Clear"}) = {} /\ At(log, {"Marker"}) = {} /\ At(log, {"Remove"}) = {}
    BY <2>1 DEF At
  <2>3. deletes_key(op) /\ DeleteKeys({deleted_key(op)}, delete_end(op))
    BY <2>2 DEF ApplyStep, PadRemoves
  <2>4. PICK pos \in Replaced(log, {deleted_key(op)}, delete_end(op)) :
          pos \in DOMAIN log /\ log' = Without(log, pos) /\ IsLog(log', tail_pos')
    BY <2>3, DeletesOne
  <2>5. log[pos].arg = deleted_key(op)
    BY DEF Replaced
  <2>6. /\ Clean(log')
        /\ \A k \in Keys : Content(log')[k] = IF k = deleted_key(op) THEN NoValue ELSE Content(log)[k]
    BY <1>2, <2>4, <2>5, RemoveDeletes
  <2>7. Content(log') = Model!Apply(op, Content(log))
    <3>1. CASE op.name = "remove_found"
      <4>1. deleted_key(op) = op.key
        BY <3>1 DEF deleted_key
      <4>2. Model!Apply(op, Content(log)) = [k \in Keys |-> IF k = op.key THEN NoValue ELSE Content(log)[k]]
        BY <3>1 DEF Model!Apply, Model!Keys, Keys
      <4> QED
        BY <2>6, <4>1, <4>2, ContentShape
    <3>2. CASE op.name = "transaction" /\ Len(op.updates) = 1
      <4>1. deleted_key(op) = op.updates[1].key
        BY <3>2 DEF deleted_key
      <4>2. op.updates[1].value = NoValue
        BY <1>2, <3>2, Entries DEF Inserts
      <4>3. \A i \in 1 .. Len(op.updates) : i = 1
        BY <3>2
      <4>4. 1 \in 1 .. Len(op.updates)
        BY <3>2
      <4>5. UpdatedBy(Content(log), Content(log'), op.updates)
        BY <2>6, <4>1, <4>2, <4>3, <4>4 DEF UpdatedBy
      <4> QED
        BY <3>2, <4>5, ContentShape, ApplyTransaction
    <3> QED
      BY <2>3, <3>1, <3>2 DEF deletes_key
  <2> QED
    BY <1>2, <2>4, <2>6, <2>7 DEF UnderWay
<1>3. CASE EntriesOf(op) # <<>> /\ written = 0
  BY <1>1, <1>3, SomeEntries
<1>4. CASE Transacts(op) /\ written \in 1 .. Len(op.updates)
  BY <1>1, <1>4, Entries DEF Transacts
<1>5. CASE /\ EntriesOf(op) # <<>>
           /\ Written(log, tail_pos, op)
           /\ Content(log) = Model!Apply(op, Content(log))
  <2>0. SUFFICES IsLog(log', tail_pos') /\ Written(log', tail_pos', op) /\ Content(log') = Content(log)
    BY <1>1, <1>5 DEF UnderWay
  <2>1. CASE Clears(op)
    <3>1. ~Inserts(op) /\ ~Transacts(op) /\ ~deletes_key(op)
      BY <2>1 DEF Clears, Inserts, Transacts, deletes_key
    <3>2. \A p \in DOMAIN log : log[p].kind \in {"User", "Clear"}
      <4>1. CASE Clean(log)
        BY <4>1 DEF Clean
      <4>2. ASSUME NEW s \in DOMAIN log, ClearAt(log, s)
            PROVE  \A p \in DOMAIN log : log[p].kind \in {"User", "Clear"}
        <5>1. \A p \in DOMAIN log : p \in Nat /\ p <= s
          BY <4>2 DEF IsLog, ClearAt
        <5>2. \A p \in DOMAIN log : p < s \/ p = s
          BY <5>1
        <5> QED
          BY <4>2, <5>2 DEF ClearAt, CleanBefore
      <4> QED
        BY <1>5, <3>1, <4>1, <4>2 DEF Written
    <3>3. At(log, {"Marker"}) = {} /\ At(log, {"Remove"}) = {}
      BY <3>2 DEF At
    <3>4. PICK clear \in At(log, {"Clear"}) : clear_delete(clear)
      BY <3>1, <3>3 DEF ApplyStep, PadRemoves
    <3>5. /\ IsLog(log', tail_pos') /\ Content(log') = Content(log)
          /\ Clean(log') \/ ClearAt(log', clear)
      BY <1>0, <3>4, ClearsOne
    <3> QED
      BY <2>1, <3>5 DEF Written, ClearAt
  <2>2. CASE Inserts(op)
    <3>1. ~Clears(op) /\ ~Transacts(op)
      BY <2>2, Entries DEF Clears, Inserts, Transacts
    <3>2. PICK last \in DOMAIN log : InsertAt(log, tail_pos, last) /\ log[last].arg = op.updates[1].key
      BY <1>5, <3>1 DEF Written
    <3>3. At(log, {"Clear"}) = {} /\ At(log, {"Marker"}) = {} /\ At(log, {"Remove"}) = {}
      BY <3>2 DEF At, InsertAt
    <3>4. DeleteKeys({deleted_key(op)}, delete_end(op))
      BY <3>3 DEF ApplyStep, PadRemoves
    <3>5. deleted_key(op) = log[last].arg
      BY <2>2, <3>2 DEF deleted_key, Inserts
    <3>6. delete_end(op) = last
      <4>1. Max(DOMAIN log) = last
        BY <3>2, LastEntry DEF InsertAt
      <4> QED
        BY <1>5, <4>1 DEF delete_end
    <3>7. PICK pos \in Replaced(log, {log[last].arg}, last) :
            pos \in DOMAIN log /\ log' = Without(log, pos) /\ IsLog(log', tail_pos')
      BY <3>4, <3>5, <3>6, DeletesOne
    <3>8. /\ InsertAt(Without(log, pos), tail_pos, last)
          /\ Without(log, pos)[last] = log[last]
          /\ Content(Without(log, pos)) = Content(log)
      BY <3>2, <3>7, InsertDeletes
    <3>9. tail_pos' = tail_pos
      BY <3>4 DEF DeleteKeys, Pad
    <3>10. InsertAt(log', tail_pos', last) /\ log'[last].arg = op.updates[1].key /\ last \in DOMAIN log'
      BY <3>2, <3>7, <3>8, <3>9 DEF InsertAt
    <3> QED
      BY <2>2, <3>7, <3>8, <3>10 DEF Written
  <2>3. CASE Transacts(op)
    <3>1. ~Clears(op) /\ ~Inserts(op) /\ ~deletes_key(op)
      BY <2>3, Entries DEF Clears, Inserts, Transacts, deletes_key
    <3>2. CASE Removes(log)
      <4>1. At(log, {"Clear"}) = {} /\ At(log, {"Marker"}) = {}
        BY <3>2 DEF At, Removes
      <4>2. PadRemoves
        BY <3>1, <4>1 DEF ApplyStep
      <4>3. IsLog(log', tail_pos') /\ Removes(log') /\ Content(log') = Content(log)
        BY <1>0, <4>2, PadsRemove
      <4> QED
        BY <2>3, <4>3 DEF Written
    <3>3. ASSUME NEW m \in DOMAIN log, MarkerAt(log, m), Complete(log, m)
          PROVE  IsLog(log', tail_pos') /\ Written(log', tail_pos', op) /\ Content(log') = Content(log)
      <4>1. At(log, {"Marker"}) = {m}
        BY <3>3, OneMarker
      <4>2. At(log, {"Clear"}) = {}
        <5>1. \A p \in DOMAIN log : p < m \/ p = m \/ p > m
          BY <3>3 DEF IsLog
        <5> QED
          BY <3>3, <5>1 DEF MarkerAt, CleanBefore, At
      <4>3. ~PadRemoves
        BY <4>1 DEF PadRemoves, At
      <4>4. transaction_apply(m)
        BY <3>1, <4>1, <4>2, <4>3 DEF ApplyStep
      <4>5. /\ IsLog(log', tail_pos') /\ Content(log') = Content(log)
            /\ \/ Removes(log')
               \/ MarkerAt(log', m) /\ Complete(log', m)
        BY <3>3, <4>4, AppliesTransaction
      <4> QED
        BY <2>3, <4>5 DEF Written, MarkerAt
    <3> QED
      BY <1>5, <3>1, <3>2, <3>3 DEF Written
  <2> QED
    BY <1>5, <2>1, <2>2, <2>3, Entries
<1> QED
  BY <1>2, <1>3, <1>4, <1>5 DEF UnderWay

(* When nothing is left to apply, the operation took effect. *)
LEMMA AppliedEnds ==
  ASSUME IsLog(log, tail_pos), op \in Operations, UnderWay(log, tail_pos, op, written), Applied
  PROVE  Clean(log) /\ Content(log) = Model!Apply(op, Content(log))
<1>1. /\ written = Len(EntriesOf(op))
      /\ At(log, {"Clear", "Marker", "Remove"}) = {}
      /\ deletes_key(op) => Replaced(log, {deleted_key(op)}, delete_end(op)) = {}
  BY DEF Applied
<1>2. CASE EntriesOf(op) = <<>> /\ written = 0 /\ Clean(log)
  <2>0. /\ op.name \in {"transaction", "clear", "prepare", "remove_found"}
        /\ op.name # "clear" /\ ~Transacts(op)
    BY <1>2, OperationsAssumption, Entries DEF Clears
  <2>1. ASSUME deletes_key(op), deleted_key(op) \in Keys
        PROVE  Content(log)[deleted_key(op)] = NoValue
    <3>1. Replaced(log, {deleted_key(op)}, tail_pos) = {}
      BY <1>1, <1>2, <2>1 DEF delete_end
    <3>2. \A p \in DOMAIN log : log[p].kind = "User" /\ p < tail_pos
      BY <1>2, LogFacts DEF Clean
    <3>3. \A p \in DOMAIN log : log[p].arg # deleted_key(op)
      BY <3>1, <3>2 DEF Replaced, At
    <3>4. Open(log)
      BY <1>2, CleanOpen
    <3> QED
      BY <2>1, <3>3, <3>4, OpenContent
  <2>2. CASE op.name = "prepare"
    BY <1>2, <2>2 DEF Model!Apply
  <2>3. CASE op.name = "remove_found"
    <3>1. deletes_key(op) /\ deleted_key(op) = op.key
      BY <2>3 DEF deletes_key, deleted_key
    <3>2. Model!Apply(op, Content(log)) = [k \in Keys |-> IF k = op.key THEN NoValue ELSE Content(log)[k]]
      BY <2>3 DEF Model!Apply, Model!Keys, Keys
    <3>3. \A k \in Keys : Content(log)[k] = IF k = op.key THEN NoValue ELSE Content(log)[k]
      BY <2>1, <3>1
    <3> QED
      BY <1>2, <3>2, <3>3, ContentShape
  <2>4. CASE op.name = "transaction"
    <3>1. Len(op.updates) \in Nat /\ (Len(op.updates) = 0 \/ Len(op.updates) = 1)
      <4>1. Len(op.updates) \in Nat /\ ~(Len(op.updates) > 1)
        BY <2>0, <2>4, Entries DEF Transacts
      <4>2. \A n \in Nat : n > 1 \/ n = 0 \/ n = 1
        OBVIOUS
      <4> QED
        BY <4>1, <4>2, Zenon
    <3>2. UpdatedBy(Content(log), Content(log), op.updates)
      <4>1. CASE Len(op.updates) = 0
        <5>1. \A i \in 1 .. Len(op.updates) : FALSE
          BY <4>1
        <5> QED
          BY <5>1 DEF UpdatedBy
      <4>2. CASE Len(op.updates) = 1
        <5>1. deletes_key(op) /\ deleted_key(op) = op.updates[1].key
          BY <2>4, <4>2 DEF deletes_key, deleted_key
        <5>2. op.updates[1].value = NoValue
          BY <1>2, <2>4, <4>2, Entries DEF Inserts
        <5>3. \A i \in 1 .. Len(op.updates) : i = 1
          BY <4>2
        <5> QED
          BY <2>1, <5>1, <5>2, <5>3 DEF UpdatedBy
      <4> QED
        BY <3>1, <4>1, <4>2
    <3> QED
      BY <1>2, <2>4, <3>2, ContentShape, ApplyTransaction
  <2> QED
    BY <2>0, <2>2, <2>3, <2>4
<1>3. CASE EntriesOf(op) # <<>> /\ written = 0
  BY <1>1, <1>3, SomeEntries
<1>4. CASE Transacts(op) /\ written \in 1 .. Len(op.updates)
  BY <1>1, <1>4, Entries DEF Transacts
<1>5. CASE /\ EntriesOf(op) # <<>>
           /\ Written(log, tail_pos, op)
           /\ Content(log) = Model!Apply(op, Content(log))
  <2>1. \A s \in DOMAIN log : ~ClearAt(log, s) /\ ~MarkerAt(log, s)
    BY <1>1 DEF At, ClearAt, MarkerAt
  <2>2. At(log, {"Remove"}) = {}
    BY <1>1 DEF At
  <2>3. ASSUME NEW last \in DOMAIN log, InsertAt(log, tail_pos, last), Inserts(op),
               log[last].arg = op.updates[1].key
        PROVE  Clean(log)
    <3>1. Max(DOMAIN log) = last
      BY <2>3, LastEntry DEF InsertAt
    <3>2. deletes_key(op) /\ deleted_key(op) = log[last].arg /\ delete_end(op) = last
      BY <1>5, <2>3, <3>1 DEF deletes_key, deleted_key, delete_end, Inserts
    <3>3. Replaced(log, {log[last].arg}, last) = {}
      BY <1>1, <3>2
    <3> QED
      BY <2>3, <3>3, InsertEnds
  <2>4. Removes(log) => Clean(log)
    BY <2>2, CleanOpen
  <2> QED
    BY <1>5, <2>1, <2>3, <2>4 DEF Written
<1> QED
  BY <1>2, <1>3, <1>4, <1>5 DEF UnderWay

(* A compaction keeps a clean log clean. *)
LEMMA CompactKeeps ==
  ASSUME IsLog(log, tail_pos), Clean(log), Compact
  PROVE  IsLog(log', tail_pos') /\ Clean(log') /\ Content(log') = Content(log)
<1>1. tail_pos \in Nat
  BY DEF IsLog
<1>2. PICK begin \in {tail_pos, next_page(tail_pos)} : \E first \in 0 .. begin : CompactTo(first, begin)
  BY DEF Compact
<1>3. begin \in Nat /\ tail_pos <= begin
  BY <1>1, <1>2, NextPage
<1>4. PICK first \in 0 .. begin : CompactTo(first, begin)
  BY <1>2
<1>5. first \in Nat
  BY <1>3
<1> QED
  BY <1>3, <1>4, <1>5, Compacts

\* What a step that works on the log leads to.
Worked(n) ==
  /\ IsLog(log', tail_pos')
  /\ Recoverable(log', tail_pos')
  /\ phase = "running" =>
       /\ verdict # "Ok" => Clean(log') /\ n = 0
       /\ verdict = "Ok" => UnderWay(log', tail_pos', op, n)
  /\ \/ Content(log') = Content(log)
     \/ phase = "running" /\ verdict = "Ok" /\ Content(log') = Model!Apply(op, Content(log))

(* An entry is written. *)
LEMMA WriteWorks ==
  ASSUME LogInv, WriteStep
  PROVE  Worked(written + 1)
<1>1. phase = "running" /\ verdict = "Ok" /\ WriteEntry
  BY DEF WriteStep
<1>2. IsLog(log, tail_pos) /\ op \in Operations /\ Accepted(op) /\ UnderWay(log, tail_pos, op, written)
  BY <1>1 DEF LogInv
<1>3. /\ IsLog(log', tail_pos')
      /\ UnderWay(log', tail_pos', op, written + 1)
      /\ Content(log') = Content(log) \/ Content(log') = Model!Apply(op, Content(log))
  BY <1>1, <1>2, EntryKeeps
<1>4. Recoverable(log', tail_pos')
  BY <1>3, UnderWayRecoverable
<1> QED
  BY <1>1, <1>3, <1>4 DEF Worked

(* Another step of an operation or of recovery. *)
LEMMA OtherWorks ==
  ASSUME LogInv, OtherStep
  PROVE  Worked(written)
<1>0. IsLog(log, tail_pos)
  BY DEF LogInv
<1>1. CASE phase = "recovering" /\ RecoverStep
  <2>1. Recoverable(log, tail_pos)
    BY <1>1 DEF LogInv
  <2> QED
    BY <1>0, <1>1, <2>1, RecoverKeeps DEF Worked
<1>2. CASE phase = "running" /\ verdict = "Ok" /\ WritePart
  <2>1. op \in Operations /\ UnderWay(log, tail_pos, op, written)
    BY <1>2 DEF LogInv
  <2>2. IsLog(log', tail_pos') /\ UnderWay(log', tail_pos', op, written) /\ Content(log') = Content(log)
    BY <1>0, <1>2, <2>1, PartKeeps
  <2>3. Recoverable(log', tail_pos')
    BY <2>2, UnderWayRecoverable
  <2> QED
    BY <1>2, <2>2, <2>3 DEF Worked
<1>3. CASE phase = "running" /\ verdict = "Ok" /\ ApplyStep
  <2>1. op \in Operations /\ UnderWay(log, tail_pos, op, written)
    BY <1>3 DEF LogInv
  <2>2. /\ IsLog(log', tail_pos')
        /\ UnderWay(log', tail_pos', op, written)
        /\ Content(log') = Content(log) \/ Content(log') = Model!Apply(op, Content(log))
    BY <1>0, <1>3, <2>1, ApplyKeeps
  <2>3. Recoverable(log', tail_pos')
    BY <2>2, UnderWayRecoverable
  <2> QED
    BY <1>3, <2>2, <2>3 DEF Worked
<1>4. CASE phase = "running" /\ verdict \in {"Ok", "NoLifetime"} /\ Compact
  <2>1. op \in Operations
    BY <1>4 DEF LogInv
  <2>2. written = 0 /\ At(log, {"Partial"}) = {}
    BY <1>4 DEF Compact
  <2>3. Clean(log)
    <3>1. CASE verdict # "Ok"
      BY <1>4, <3>1 DEF LogInv
    <3>2. CASE verdict = "Ok"
      <4>1. UnderWay(log, tail_pos, op, written)
        BY <1>4, <3>2 DEF LogInv
      <4>2. ~(written \in 1 .. Len(op.updates))
        BY <2>2
      <4>3. ~(EntriesOf(op) # <<>> /\ written = Len(EntriesOf(op)))
        BY <2>1, <2>2, SomeEntries
      <4>4. Clean(log) \/ Open(log)
        BY <4>1, <4>2, <4>3 DEF UnderWay
      <4> QED
        BY <2>2, <4>4, CleanOpen
    <3> QED
      BY <3>1, <3>2
  <2>4. IsLog(log', tail_pos') /\ Clean(log') /\ Content(log') = Content(log)
    BY <1>0, <1>4, <2>3, CompactKeeps
  <2>5. UnderWay(log', tail_pos', op, written)
    BY <2>2, <2>4, CleanOpen DEF UnderWay
  <2>6. Recoverable(log', tail_pos')
    BY <2>5, UnderWayRecoverable
  <2> QED
    BY <2>2, <2>4, <2>5, <2>6 DEF Worked
<1> QED
  BY <1>1, <1>2, <1>3, <1>4 DEF OtherStep

-----------------------------------------------------------------------------
\* The invariant.

(* An operation that is not refused was accepted. *)
LEMMA OkAccepted ==
  ASSUME NEW o \in Operations, NEW c, Model!Verdict(o, c) = "Ok"
  PROVE  Accepted(o)
<1>1. ASSUME o.name = "transaction" PROVE transaction_valid(o.updates)
  <2>1. Model!transaction_valid(o.updates)
    BY <1>1 DEF Model!Verdict
  <2> QED
    BY <2>1 DEF Model!transaction_valid, transaction_valid, Model!max_value_len, max_value_len,
                Model!virt_page_size, virt_page_size, Model!CONTENT_WORD, CONTENT_WORD
<1>2. ASSUME o.name = "clear" PROVE o.min_key <= MaxKey
  <2>1. ~(o.min_key > MaxKey) /\ o.min_key \in Nat /\ MaxKey \in Nat
    BY <1>2, OperationsAssumption, FormatAssumption DEF Model!Verdict
  <2> QED
    BY <2>1
<1> QED
  BY <1>1, <1>2 DEF Accepted

(* The empty log. *)
LEMMA LogInit ==
  ASSUME Init
  PROVE  LogInv /\ Content(log) = [k \in Keys |-> NoValue]
<1>1. DOMAIN log = {} /\ log = [p \in DOMAIN log |-> log[p]] /\ tail_pos = 0
  BY DEF Init
<1>2. IsLog(log, tail_pos) /\ Open(log)
  BY <1>1 DEF IsLog, Open
<1>3. LogInv
  BY <1>2 DEF LogInv, Init, Recoverable
<1>4. \A k \in Keys : Content(log)[k] = NoValue
  BY <1>1, <1>2, OpenContent
<1> QED
  BY <1>3, <1>4, ContentShape

(* A call finds a clean log. *)
LEMMA CallInv ==
  ASSUME LogInv, NEW o \in Operations, Call(o)
  PROVE  LogInv'
<1>1. IsLog(log, tail_pos) /\ Clean(log)
  BY DEF LogInv, Call
<1>2. log' = log /\ tail_pos' = tail_pos /\ op' = o /\ written' = 0 /\ phase' = "running"
  BY DEF Call
<1>3. ASSUME verdict' = "Ok" PROVE Accepted(o)
  BY <1>3, OkAccepted DEF Call
<1>4. UnderWay(log, tail_pos, o, 0)
  BY <1>1, CleanOpen DEF UnderWay
<1> QED
  BY <1>1, <1>2, <1>3, <1>4 DEF LogInv

(* A step of an operation or of recovery. *)
LEMMA WorkInv ==
  ASSUME LogInv, Work
  PROVE  LogInv'
<1>1. Worked(written')
  BY WriteWorks, OtherWorks DEF Work
<1>2. op' = op /\ verdict' = verdict /\ phase' = phase
  BY DEF Work
<1>3. phase \in {"recovering", "running"}
  BY DEF Work, WriteStep, OtherStep
<1> QED
  BY <1>1, <1>2, <1>3 DEF LogInv, Worked

(* An operation returns when the log is clean. *)
LEMMA ReturnInv ==
  ASSUME LogInv, Return
  PROVE  LogInv' /\ (verdict = "Ok" => Content(log) = Model!Apply(op, Content(log)))
<1>1. IsLog(log, tail_pos) /\ phase = "running" /\ op \in Operations
  BY DEF LogInv, Return
<1>2. ASSUME verdict = "Ok" PROVE Clean(log) /\ Content(log) = Model!Apply(op, Content(log))
  <2>1. UnderWay(log, tail_pos, op, written) /\ Applied
    BY <1>1, <1>2 DEF LogInv, Return
  <2> QED
    BY <1>1, <2>1, AppliedEnds
<1>3. Clean(log)
  BY <1>1, <1>2 DEF LogInv
<1>4. log' = log /\ tail_pos' = tail_pos /\ phase' = "ready"
  BY DEF Return
<1> QED
  BY <1>1, <1>2, <1>3, <1>4 DEF LogInv

(* A power loss leaves what recovery understands, and the operation under way *)
(* took effect or did not.                                                  *)
LEMMA PowerLossInv ==
  ASSUME LogInv, PowerLoss
  PROVE  /\ LogInv'
         /\ \/ Content(log') = Content(log)
            \/ phase = "running" /\ verdict = "Ok" /\ Content(log') = Model!Apply(op, Content(log))
<1>1. phase' = "off"
  BY DEF PowerLoss
<1>2. ASSUME UNCHANGED <<log, tail_pos>>
      PROVE  IsLog(log', tail_pos') /\ Recoverable(log', tail_pos') /\ Content(log') = Content(log)
  <2>1. IsLog(log, tail_pos)
    BY DEF LogInv
  <2>2. Clean(log) => Recoverable(log, tail_pos)
    BY CleanOpen DEF Recoverable
  <2>3. Recoverable(log, tail_pos)
    BY <2>2, UnderWayRecoverable DEF LogInv
  <2> QED
    BY <1>2, <2>1, <2>3
<1>3. ASSUME WriteStep \/ OtherStep
      PROVE  /\ IsLog(log', tail_pos') /\ Recoverable(log', tail_pos')
             /\ \/ Content(log') = Content(log)
                \/ phase = "running" /\ verdict = "Ok" /\ Content(log') = Model!Apply(op, Content(log))
  BY <1>3, WriteWorks, OtherWorks DEF Worked
<1> QED
  BY <1>1, <1>2, <1>3 DEF PowerLoss, LogInv

(* Recovery leaves a clean log. *)
LEMMA RecoveredInv ==
  ASSUME LogInv, Recovered
  PROVE  LogInv'
<1>1. IsLog(log, tail_pos) /\ Recoverable(log, tail_pos) /\ RecoverDone
  BY DEF LogInv, Recovered
<1>2. Clean(log)
  BY <1>1, RecoverEnds
<1> QED
  BY <1>1, <1>2 DEF LogInv, Recovered

(* Every step keeps the invariant. *)
LEMMA LogStep ==
  ASSUME LogInv, [Next]_vars
  PROVE  LogInv'
<1>1. CASE \E o \in Operations : Call(o)
  BY <1>1, CallInv
<1>2. CASE Work
  BY <1>2, WorkInv
<1>3. CASE Return
  BY <1>3, ReturnInv
<1>4. CASE PowerLoss
  BY <1>4, PowerLossInv
<1>5. CASE Boot
  BY <1>5 DEF Boot, LogInv
<1>6. CASE Recovered
  BY <1>6, RecoveredInv
<1>7. CASE UNCHANGED vars
  BY <1>7 DEF vars, LogInv
<1> QED
  BY <1>1, <1>2, <1>3, <1>4, <1>5, <1>6, <1>7 DEF Next

-----------------------------------------------------------------------------
\* Theorems.

(* In every behaviour the log has one of the shapes that the step under way  *)
(* or recovery expects, whatever was interrupted and however often.         *)
THEOREM LogInvariant == Spec => []LogInv
BY LogInit, LogStep, PTL DEF Spec

(* Between operations, find returns what the log stands for, for any keys,   *)
(* values and number of updates of a transaction.                           *)
THEOREM FindsTheContent == Spec => []FindsContent
<1>1. LogInv => FindsContent
  BY FindContent DEF LogInv, FindsContent, Keys
<1> QED
  BY LogInvariant, <1>1, PTL

(* No step reads an entry that it would report as an invalid storage. *)
THEOREM LogIsUnderstood == Spec => []LogUnderstood
<1>1. ASSUME LogInv PROVE LogUnderstood
  <2>1. IsLog(log, tail_pos) /\ \A p \in DOMAIN log : p \in Nat
    BY <1>1 DEF LogInv, IsLog
  <2>2. Recoverable(log, tail_pos)
    <3>1. Clean(log) => Recoverable(log, tail_pos)
      BY CleanOpen DEF Recoverable
    <3> QED
      BY <1>1, <3>1, UnderWayRecoverable DEF LogInv
  <2>3. ASSUME NEW s \in At(log, {"Clear"})
        PROVE  /\ \A p \in DOMAIN log : p < s => log[p].kind = "User"
               /\ \A p \in DOMAIN log : p <= s
    <3>1. ClearAt(log, s)
      BY <2>1, <2>2, TheClear
    <3> QED
      BY <3>1 DEF ClearAt, CleanBefore
  <2>4. ASSUME NEW s \in At(log, {"Marker"})
        PROVE  /\ \A p \in DOMAIN log : p < s => log[p].kind = "User"
               /\ Cardinality(Updates(log, s)) <= log[s].arg
               /\ \A p \in DOMAIN log : p > s => log[p].kind \in {"User", "Remove", "Partial"}
               /\ Complete(log, s) =>
                    /\ \A p \in DOMAIN log : p > s => p \in Updates(log, s)
                    /\ \A p, q \in Updates(log, s) : log[p].arg = log[q].arg => p = q
    <3>1. MarkerAt(log, s)
      BY <2>1, <2>2, TheMarker
    <3> QED
      BY <3>1 DEF MarkerAt, CleanBefore, Updates, At, Distinct
  <2>5. \A s \in At(log, {"Marker", "Clear"}) :
          \/ s \in At(log, {"Clear"}) /\ log[s].kind = "Clear"
          \/ s \in At(log, {"Marker"}) /\ log[s].kind = "Marker"
    BY DEF At
  <2> QED
    BY <2>3, <2>4, <2>5 DEF LogUnderstood
<1> QED
  BY LogInvariant, <1>1, PTL

(* The log implements the atomic map: an operation takes effect in one step, *)
(* the one that completes its last entry (or deletes the entry of a removed *)
(* key), and neither the deletions that follow, nor a compaction, nor a     *)
(* recovery that is itself interrupted changes what the log stands for.     *)
THEOREM LogImplementsModel == Spec => LogAtomic
<1>1. ASSUME Init PROVE Model!ModelInit
  BY <1>1, LogInit DEF Model!ModelInit, Model!Keys, Keys, Init
<1>2. ASSUME LogInv, [Next]_vars PROVE [Model!ModelNext]_(Model!modelVars)
  <2> USE <1>2
  <2>1. ASSUME NEW o \in Operations, Call(o) PROVE Model!ModelCall(o)
    BY <2>1 DEF Call, Model!ModelCall
  <2>2. CASE Work
    <3>1. op' = op /\ verdict' = verdict /\ phase' = phase
      BY <2>2 DEF Work
    <3>2. \/ Content(log') = Content(log)
          \/ phase = "running" /\ verdict = "Ok" /\ Content(log') = Model!Apply(op, Content(log))
      BY <2>2, WriteWorks, OtherWorks DEF Work, Worked
    <3>3. CASE Content(log') = Content(log)
      BY <3>1, <3>3 DEF Model!modelVars
    <3>4. CASE phase = "running" /\ verdict = "Ok" /\ Content(log') = Model!Apply(op, Content(log))
      BY <3>1, <3>4 DEF Model!ModelCommit, Model!ModelNext
    <3> QED
      BY <3>2, <3>3, <3>4
  <2>3. CASE Return
    BY <2>3, ReturnInv DEF Return, Model!ModelReturn, Model!ModelNext
  <2>4. CASE PowerLoss
    <3>1. phase' = "off" /\ op' = NoOp /\ verdict' = "Ok"
      BY <2>4 DEF PowerLoss
    <3>2. \/ Content(log') = Content(log)
          \/ phase = "running" /\ verdict = "Ok" /\ Content(log') = Model!Apply(op, Content(log))
      BY <2>4, PowerLossInv
    <3> QED
      BY <3>1, <3>2 DEF Model!ModelPowerLoss, Model!ModelNext
  <2>5. CASE Boot
    BY <2>5 DEF Boot, Model!modelVars
  <2>6. CASE Recovered
    BY <2>6 DEF Recovered, Model!ModelRecover, Model!ModelNext
  <2>7. CASE UNCHANGED vars
    BY <2>7 DEF vars, Model!modelVars
  <2> QED
    BY <2>1, <2>2, <2>3, <2>4, <2>5, <2>6, <2>7 DEF Next, Model!ModelNext
<1> QED
  BY LogInvariant, <1>1, <1>2, PTL DEF Spec, LogAtomic, Model!ModelSpec

=============================================================================
