-------------------------- MODULE OperationsProofs --------------------------
(***************************************************************************)
(* The safety of the request states and their loaders, for any operations, *)
(* sessions, lists and arguments, and whatever the guards admit.           *)
(*                                                                         *)
(* A key is in one place at a time: in the batch its loader collects, in a *)
(* batch that is read, or answered.  So no answer is ever replaced, and a  *)
(* count that is read was asked for through a page that had been answered. *)
(***************************************************************************)
EXTENDS Operations, TLAPS

\* The keys of a batch that is read.
KeysOf(b) == b.left \cup DOMAIN b.read

\* What a key may be answered now, in a request state.
IsFresh(s, k, result) ==
    IF result.ok THEN opened[s][k.list] <= result.rows /\ result.rows <= rows[k.list]
                 ELSE s \in failed

\* Only a request state that was made is used, and no list shrinks.
Made ==
    /\ \A s \in Sessions, l \in Lists : opened[s] # Null => opened[s][l] <= rows[l]
    /\ \A o \in Operation : stage[o] = "executing" => opened[SessionOf[o]] # Null
    /\ \A s \in Sessions : cached[s] # {} => opened[s] # Null

\* Each key that a request state has a thunk for is in one place.
InOnePlace ==
    /\ \A s \in Sessions, t \in Kinds : batch[s][t] # Null =>
         \A k \in batch[s][t].keys :
             /\ k.kind = t /\ k \in cached[s] /\ value[s][k] = Null
             /\ \A b \in running : b.session = s => k \notin KeysOf(b)
    /\ \A b \in running :
         /\ b.left \cap DOMAIN b.read = {}
         /\ \A k \in KeysOf(b) : k \in cached[b.session] /\ value[b.session][k] = Null
         /\ \A c \in running : b # c /\ b.session = c.session =>
              KeysOf(b) \cap KeysOf(c) = {}
    /\ \A s \in Sessions, k \in Keys : value[s][k] # Null => k \in cached[s]

\* What was read, delivered or not, is of the request.
Fresh ==
    /\ \A s \in Sessions, k \in Keys : value[s][k] # Null => IsFresh(s, k, value[s][k])
    /\ \A b \in running : \A k \in DOMAIN b.read : IsFresh(b.session, k, b.read[k])

\* What a count of l may be, in a request state.
IsCovering(s, l, result) ==
    result.ok => value[s][through[s][l]].rows <= result.rows

\* A count was asked for through a page that had been answered, and what was
\* read of it covers the page.
Covered ==
    /\ \A s \in Sessions, l \in Lists :
         /\ CountOf(l) \in cached[s] => through[s][l] # Null
         /\ through[s][l] # Null =>
              /\ through[s][l].list = l
              /\ value[s][through[s][l]] # Null /\ value[s][through[s][l]].ok
         /\ value[s][CountOf(l)] # Null => IsCovering(s, l, value[s][CountOf(l)])
    /\ \A b \in running, l \in Lists : CountOf(l) \in DOMAIN b.read =>
         IsCovering(b.session, l, b.read[CountOf(l)])

IInv == TypeOK /\ Made /\ InOnePlace /\ Fresh /\ Covered

-----------------------------------------------------------------------------
(* Keys and batches.                                                         *)

LEMMA KeyFields ==
    /\ \A k \in Keys : k.list \in Lists /\ k.kind \in Kinds
    /\ \A k \in PageKeys : k \in Keys
    /\ \A l \in Lists : /\ CountOf(l) \in Keys /\ CountOf(l).list = l
                        /\ CountOf(l) \notin PageKeys
    /\ \A l, m \in Lists : CountOf(l) = CountOf(m) => l = m
BY DEF Keys, PageKeys, CountKeys, CountOf, Kinds

LEMMA NoNull ==
    /\ \A r \in Result : r # Null
    /\ \A b \in Batch : b # Null
    /\ \A k \in PageKeys : k # Null
    /\ \A f \in [Lists -> 0..MaxRows] : f # Null
BY NullAssumption

\* The fields of a batch that is read.
LEMMA RunningFields ==
    ASSUME NEW b \in Running
    PROVE  /\ b.session \in Sessions /\ b.kind \in Kinds /\ b.left \subseteq Keys
           /\ DOMAIN b.read \subseteq Keys
           /\ \A k \in DOMAIN b.read : b.read[k] \in Result
           /\ KeysOf(b) \subseteq Keys
<1>1. b.session \in Sessions /\ b.kind \in Kinds /\ b.left \in SUBSET Keys
  BY DEF Running
<1>2. b.read \in UNION {[keys -> Result] : keys \in SUBSET Keys}
  BY DEF Running
<1>3. PICK keys \in SUBSET Keys : b.read \in [keys -> Result]
  BY <1>2
<1>4. QED
  BY <1>1, <1>3 DEF KeysOf

LEMMA BatchUpdate ==
    ASSUME NEW S, NEW T, NEW C, NEW L, NEW R,
           NEW b \in [session: S, kind: T, ctx: C, left: L, read: R],
           NEW left \in L, NEW read \in R
    PROVE  LET c == [b EXCEPT !.left = left, !.read = read] IN
           /\ c \in [session: S, kind: T, ctx: C, left: L, read: R]
           /\ c.session = b.session /\ c.left = left /\ c.read = read
OBVIOUS

\* Batch b becomes batch c, which has the results of a group of its keys too.
BecomesFilled(b, group, result, c) ==
    /\ running' = (running \ {b}) \cup {c}
    /\ c.session = b.session /\ c.left = b.left \ group
    /\ DOMAIN c.read = group \cup DOMAIN b.read
    /\ \A k \in DOMAIN c.read :
         c.read[k] = IF k \in group THEN result[k] ELSE b.read[k]
    /\ KeysOf(c) = KeysOf(b)

\* Some keys of a batch get their results, and the batch keeps all its keys.
LEMMA FilledBatch ==
    ASSUME NEW b \in Running, NEW group \in SUBSET b.left, NEW result \in [group -> Result],
           Filled(b, group, result)
    PROVE  \E c \in Running : BecomesFilled(b, group, result, c)
<1> DEFINE read == [k \in group \cup DOMAIN b.read |->
                      IF k \in group THEN result[k] ELSE b.read[k]]
           c == [b EXCEPT !.left = @ \ group, !.read = read]
<1>1. running' = (running \ {b}) \cup {c}
  BY DEF Filled
<1>2. /\ b.session \in Sessions /\ b.kind \in Kinds /\ b.left \subseteq Keys
      /\ DOMAIN b.read \subseteq Keys
      /\ \A k \in DOMAIN b.read : b.read[k] \in Result
  BY RunningFields
<1>3. read \in [group \cup DOMAIN b.read -> Result]
  BY <1>2
<1>4. read \in UNION {[keys -> Result] : keys \in SUBSET Keys}
  BY <1>2, <1>3
<1>5. /\ DOMAIN read = group \cup DOMAIN b.read
      /\ \A k \in DOMAIN read : read[k] = IF k \in group THEN result[k] ELSE b.read[k]
  OBVIOUS
<1> HIDE DEF read
<1>6. c \in Running /\ c.session = b.session /\ c.left = b.left \ group /\ c.read = read
  BY <1>2, <1>4, BatchUpdate DEF Running
<1> HIDE DEF c
<1>7. KeysOf(c) = KeysOf(b)
  BY <1>5, <1>6 DEF KeysOf
<1>8. BecomesFilled(b, group, result, c)
  BY <1>1, <1>5, <1>6, <1>7 DEF BecomesFilled
<1>9. QED
  BY <1>6, <1>8

\* The groups are parts of what is left.
LEMMA GroupIsLeft == ASSUME NEW b, NEW group \in Groups(b) PROVE group \in SUBSET b.left
BY DEF Groups

-----------------------------------------------------------------------------
(* One lemma per action.                                                     *)

\* Whether a result covers the page depends on the answers alone.
LEMMA CoveringSame ==
    ASSUME UNCHANGED <<value, through>>
    PROVE  \A s, l, result : IsCovering(s, l, result)' <=> IsCovering(s, l, result)
BY DEF IsCovering

\* Counts stay covered as long as no answer comes, no count is asked for, and no
\* batch has read more.
LEMMA CoveredStays ==
    ASSUME Covered, UNCHANGED <<value, through>>,
           \A s \in Sessions, l \in Lists : CountOf(l) \in cached'[s] => CountOf(l) \in cached[s],
           \A b \in running', l \in Lists : CountOf(l) \in DOMAIN b.read => b \in running
    PROVE  Covered'
<1>1. \A s \in Sessions, l \in Lists :
        /\ CountOf(l) \in cached'[s] => through'[s][l] # Null
        /\ through'[s][l] # Null =>
             /\ through'[s][l].list = l
             /\ value'[s][through'[s][l]] # Null /\ value'[s][through'[s][l]].ok
        /\ value'[s][CountOf(l)] # Null => IsCovering(s, l, value[s][CountOf(l)])
  BY DEF Covered
<1>2. \A b \in running', l \in Lists : CountOf(l) \in DOMAIN b.read =>
        IsCovering(b.session, l, b.read[CountOf(l)])
  BY DEF Covered
<1>3. QED
  BY <1>1, <1>2, CoveringSame DEF Covered

\* What the parts of the invariant depend on.
LEMMA LoadersSame ==
    ASSUME IInv, UNCHANGED <<cached, value, batch, running, through>>
    PROVE  InOnePlace' /\ Covered'
<1>1. InOnePlace'
  BY DEF IInv, InOnePlace, KeysOf
<1>2. Covered'
  BY CoveredStays DEF IInv
<1>3. QED
  BY <1>1, <1>2

LEMMA InsertKeeps ==
    ASSUME IInv, NEW l \in Lists, Insert(l)
    PROVE  IInv'
<1>1. UNCHANGED <<opened, stage, bounded, asked, cached, value, batch, running,
                  through, failed>>
  BY DEF Insert, loaders
<1>2. /\ rows \in [Lists -> 0..MaxRows] /\ rows' \in [Lists -> 0..MaxRows]
      /\ \A m \in Lists : rows[m] <= rows'[m]
  BY BoundAssumption DEF Insert, IInv, TypeOK
<1>3. TypeOK'
  BY <1>1, <1>2 DEF IInv, TypeOK
<1>4. \A s \in Sessions : opened[s] # Null => opened[s] \in [Lists -> 0..MaxRows]
  BY DEF IInv, TypeOK
<1>5. \A r \in Result : r.rows \in 0..MaxRows
  BY DEF Result
<1>6. Made'
  BY <1>1, <1>2, <1>4, BoundAssumption DEF IInv, Made
<1>7. \A s \in Sessions, k \in Keys, r \in Result :
        IsFresh(s, k, r) => IsFresh(s, k, r)'
  BY <1>1, <1>2, <1>5, KeyFields, BoundAssumption DEF IsFresh
<1>8. Fresh'
  <2>1. \A s \in Sessions, k \in Keys : value[s][k] # Null => value[s][k] \in Result
    BY DEF IInv, TypeOK
  <2>2. \A b \in running : b \in Running
    BY DEF IInv, TypeOK
  <2>3. ASSUME NEW s \in Sessions, NEW k \in Keys, value'[s][k] # Null
        PROVE  IsFresh(s, k, value[s][k])'
    BY <1>1, <1>7, <2>1, <2>3 DEF IInv, Fresh
  <2>4. ASSUME NEW b \in running', NEW k \in DOMAIN b.read
        PROVE  IsFresh(b.session, k, b.read[k])'
    BY <1>1, <1>7, <2>2, RunningFields DEF IInv, Fresh
  <2>5. QED
    BY <2>3, <2>4 DEF Fresh
<1>9. QED
  BY <1>1, <1>3, <1>6, <1>8, LoadersSame DEF IInv

LEMMA OpenKeeps ==
    ASSUME IInv, NEW s \in Sessions, Open(s)
    PROVE  IInv'
<1>1. /\ UNCHANGED <<rows, stage, bounded, asked, cached, value, batch, running,
                     through, failed>>
      /\ opened[s] = Null /\ opened' = [opened EXCEPT ![s] = rows]
  BY DEF Open, loaders
<1>2. TypeOK'
  BY <1>1 DEF IInv, TypeOK
<1>3. /\ opened'[s] = rows /\ rows \in [Lists -> 0..MaxRows] /\ opened'[s] # Null
      /\ \A q \in Sessions \ {s} : opened'[q] = opened[q]
      /\ cached[s] = {}
  BY <1>1, NoNull DEF IInv, TypeOK, Made
<1>4. Made'
  BY <1>1, <1>3, BoundAssumption DEF IInv, Made
<1>5. Fresh'
  <2>1. ASSUME NEW q \in Sessions, NEW k \in Keys, value'[q][k] # Null
        PROVE  IsFresh(q, k, value[q][k])'
    BY <1>1, <1>3, <2>1 DEF IInv, Fresh, InOnePlace, IsFresh
  <2>2. ASSUME NEW b \in running', NEW k \in DOMAIN b.read
        PROVE  IsFresh(b.session, k, b.read[k])'
    <3>1. b \in running /\ b.session \in Sessions
      BY <1>1, RunningFields DEF IInv, TypeOK
    <3>2. b.session # s
      BY <1>3, <3>1 DEF IInv, InOnePlace, KeysOf
    <3>3. QED
      BY <1>1, <1>3, <3>1, <3>2 DEF IInv, Fresh, IsFresh
  <2>3. QED
    BY <2>1, <2>2 DEF Fresh
<1>6. QED
  BY <1>1, <1>2, <1>4, <1>5, LoadersSame DEF IInv

LEMMA ArriveKeeps ==
    ASSUME IInv, NEW o \in Operation, Arrive(o)
    PROVE  IInv'
<1>1. /\ UNCHANGED <<rows, opened, asked, cached, value, batch, running, through, failed>>
      /\ opened[SessionOf[o]] # Null
      /\ \A q \in Operation \ {o} : stage'[q] = stage[q]
      /\ stage' \in [Operation -> Stages] /\ bounded' \in [Operation -> BOOLEAN]
  BY AdmissionsAssumption DEF Arrive, loaders, IInv, TypeOK, Stages
<1>2. TypeOK'
  BY <1>1 DEF IInv, TypeOK
<1>3. Made' /\ Fresh'
  BY <1>1 DEF IInv, Made, Fresh, IsFresh
<1>4. QED
  BY <1>1, <1>2, <1>3, LoadersSame DEF IInv

LEMMA KeyAdded ==
    ASSUME NEW C, NEW K, NEW b \in [ctx: C, keys: SUBSET K], NEW k \in K
    PROVE  LET c == [b EXCEPT !.keys = @ \cup {k}] IN
           c \in [ctx: C, keys: SUBSET K] /\ c.keys = b.keys \cup {k}
OBVIOUS

\* A key that joins a batch is in no other place.
LEMMA JoinKeepsPlaces ==
    ASSUME IInv, NEW s \in Sessions, NEW o \in Operation, NEW k \in Keys,
           k \notin cached[s], Join(s, o, k), UNCHANGED <<value, running>>
    PROVE  /\ batch' \in [Sessions -> [Kinds -> Batch \cup {Null}]]
           /\ InOnePlace'
<1> DEFINE old == batch[s][k.kind]
           new == IF old = Null THEN [ctx |-> o, keys |-> {k}]
                                ELSE [old EXCEPT !.keys = @ \cup {k}]
<1>1. k.kind \in Kinds
  BY KeyFields
<1>2. /\ batch \in [Sessions -> [Kinds -> Batch \cup {Null}]]
      /\ cached \in [Sessions -> SUBSET Keys]
  BY DEF IInv, TypeOK
<1>3. old \in Batch \cup {Null}
  BY <1>1, <1>2
<1>4. new \in Batch /\ new.keys = IF old = Null THEN {k} ELSE old.keys \cup {k}
  <2> HIDE DEF old
  <2>1. CASE old = Null
    BY <2>1 DEF Batch
  <2>2. CASE old # Null
    <3>1. old \in [ctx: Operation, keys: SUBSET Keys]
      BY <1>3, <2>2 DEF Batch
    <3>2. QED
      BY <2>2, <3>1, KeyAdded DEF Batch
  <2>3. QED
    BY <2>1, <2>2
<1>5. batch' = [batch EXCEPT ![s][k.kind] = new]
  BY DEF Join
<1> HIDE DEF new
<1>6. /\ batch' \in [Sessions -> [Kinds -> Batch \cup {Null}]]
      /\ batch'[s][k.kind] = new
      /\ \A q \in Sessions, t \in Kinds :
           q # s \/ t # k.kind => batch'[q][t] = batch[q][t]
  BY <1>1, <1>2, <1>4, <1>5
<1>7. /\ cached'[s] = cached[s] \cup {k}
      /\ \A q \in Sessions : cached[q] \subseteq cached'[q]
  BY <1>2 DEF Join
<1>8. /\ value[s][k] = Null
      /\ \A b \in running : b.session = s => k \notin KeysOf(b)
  BY DEF IInv, InOnePlace
<1>9. ASSUME NEW q \in Sessions, NEW t \in Kinds, batch'[q][t] # Null,
             NEW j \in batch'[q][t].keys
      PROVE  /\ j.kind = t /\ j \in cached'[q] /\ value[q][j] = Null
             /\ \A b \in running : b.session = q => j \notin KeysOf(b)
  <2>1. CASE q = s /\ t = k.kind /\ j = k
    BY <1>7, <1>8, <2>1
  <2>2. CASE ~(q = s /\ t = k.kind /\ j = k)
    <3>1. batch[q][t] # Null /\ j \in batch[q][t].keys
      BY <1>4, <1>6, <1>9, <2>2
    <3>2. QED
      BY <1>7, <3>1 DEF IInv, InOnePlace
  <2>3. QED
    BY <2>1, <2>2
<1>10. ASSUME NEW b \in running
       PROVE  /\ b.left \cap DOMAIN b.read = {}
              /\ \A j \in KeysOf(b) : j \in cached'[b.session] /\ value[b.session][j] = Null
              /\ \A c \in running : b # c /\ b.session = c.session =>
                   KeysOf(b) \cap KeysOf(c) = {}
  <2>1. b.session \in Sessions
    BY RunningFields DEF IInv, TypeOK
  <2>2. QED
    BY <1>7, <2>1 DEF IInv, InOnePlace
<1>11. \A q \in Sessions, j \in Keys : value[q][j] # Null => j \in cached'[q]
  BY <1>7 DEF IInv, InOnePlace
<1>12. InOnePlace'
  BY <1>9, <1>10, <1>11 DEF InOnePlace, KeysOf
<1>13. QED
  BY <1>6, <1>12

LEMMA AskSteps ==
    ASSUME IInv, NEW o \in Operation, NEW k \in Keys, Ask(o, k)
    PROVE  /\ State(o) \in Sessions /\ opened[State(o)] # Null
           /\ UNCHANGED <<rows, opened, stage, bounded, value, running, failed>>
           /\ asked' \in [Operation -> SUBSET Keys]
           /\ cached' = [cached EXCEPT ![State(o)] = @ \cup {k}]
           /\ batch' \in [Sessions -> [Kinds -> Batch \cup {Null}]]
           /\ InOnePlace' /\ Made' /\ Fresh'
<1> DEFINE s == State(o)
<1>1. s \in Sessions
  BY SessionAssumption DEF State
<1>2. UNCHANGED <<rows, opened, stage, bounded, value, running, failed>>
  BY DEF Ask
<1>3. opened[s] # Null
  BY DEF Ask, State, IInv, Made
<1>4. asked' \in [Operation -> SUBSET Keys]
  BY DEF Ask, IInv, TypeOK
<1>5. cached \in [Sessions -> SUBSET Keys]
  BY DEF IInv, TypeOK
<1>6. cached' = [cached EXCEPT ![s] = @ \cup {k}]
  <2>1. CASE k \in cached[s]
    <3>1. cached' = cached /\ cached[s] \cup {k} = cached[s]
      BY <2>1 DEF Ask
    <3>2. QED
      BY <1>5, <3>1
  <2>2. CASE k \notin cached[s]
    BY <2>2 DEF Ask, Join
  <2>3. QED
    BY <2>1, <2>2
<1>7. batch' \in [Sessions -> [Kinds -> Batch \cup {Null}]] /\ InOnePlace'
  <2>1. CASE k \in cached[s]
    BY <1>2, <2>1 DEF Ask, IInv, TypeOK, InOnePlace, KeysOf
  <2>2. CASE k \notin cached[s]
    BY <1>1, <1>2, <2>2, JoinKeepsPlaces DEF Ask
  <2>3. QED
    BY <2>1, <2>2
<1>8. Made'
  BY <1>1, <1>2, <1>3, <1>5, <1>6 DEF IInv, Made
<1>9. Fresh'
  BY <1>2 DEF IInv, Fresh, IsFresh
<1>10. QED
  BY <1>1, <1>2, <1>3, <1>4, <1>6, <1>7, <1>8, <1>9

LEMMA LoadPageKeeps ==
    ASSUME IInv, NEW o \in Operation, NEW p \in PageKeys, LoadPage(o, p)
    PROVE  IInv'
<1>1. p \in Keys
  BY KeyFields
<1>2. /\ State(o) \in Sessions
      /\ UNCHANGED <<rows, opened, stage, bounded, value, running, failed>>
      /\ asked' \in [Operation -> SUBSET Keys]
      /\ cached' = [cached EXCEPT ![State(o)] = @ \cup {p}]
      /\ batch' \in [Sessions -> [Kinds -> Batch \cup {Null}]]
      /\ InOnePlace' /\ Made' /\ Fresh'
  BY <1>1, AskSteps DEF LoadPage
<1>3. UNCHANGED through
  BY DEF LoadPage
<1>4. TypeOK'
  BY <1>1, <1>2, <1>3 DEF IInv, TypeOK
<1>5. \A s \in Sessions, l \in Lists : CountOf(l) \in cached'[s] => CountOf(l) \in cached[s]
  BY <1>2, KeyFields DEF IInv, TypeOK
<1>6. Covered'
  BY <1>2, <1>3, <1>5, CoveredStays DEF IInv
<1>7. QED
  BY <1>2, <1>4, <1>6 DEF IInv

LEMMA LoadCountKeeps ==
    ASSUME IInv, NEW o \in Operation, NEW p \in PageKeys, LoadCount(o, p)
    PROVE  IInv'
<1> DEFINE k == CountOf(p.list)
           s == State(o)
<1>1. p.list \in Lists /\ k \in Keys
  BY KeyFields
<1>2. /\ s \in Sessions
      /\ UNCHANGED <<rows, opened, stage, bounded, value, running, failed>>
      /\ asked' \in [Operation -> SUBSET Keys]
      /\ cached' = [cached EXCEPT ![s] = @ \cup {k}]
      /\ batch' \in [Sessions -> [Kinds -> Batch \cup {Null}]]
      /\ InOnePlace' /\ Made' /\ Fresh'
  BY <1>1, AskSteps DEF LoadCount, CountOf
<1>3. /\ value[s][p] # Null /\ value[s][p].ok
      /\ through' = IF k \in cached[s] THEN through
                    ELSE [through EXCEPT ![s][p.list] = p]
  BY DEF LoadCount, HasConnection, Answered, Answer, CountOf
<1>4. through \in [Sessions -> [Lists -> PageKeys \cup {Null}]]
  BY DEF IInv, TypeOK
<1>5. through' \in [Sessions -> [Lists -> PageKeys \cup {Null}]]
  BY <1>1, <1>2, <1>3, <1>4
<1>6. TypeOK'
  BY <1>1, <1>2, <1>5 DEF IInv, TypeOK
<1>7. Covered'
  <2>1. CASE k \in cached[s]
    <3>1. cached' = cached /\ through' = through
      BY <1>2, <1>3, <2>1 DEF IInv, TypeOK
    <3>2. QED
      BY <1>2, <3>1, CoveredStays DEF IInv
  <2>2. CASE k \notin cached[s]
    <3>1. /\ through'[s][p.list] = p /\ p # Null
          /\ \A q \in Sessions, l \in Lists : q # s \/ l # p.list =>
               through'[q][l] = through[q][l]
      BY <1>1, <1>2, <1>3, <1>4, <2>2, NoNull
    <3>2. \A q \in Sessions, l \in Lists : CountOf(l) \in cached'[q] =>
            CountOf(l) \in cached[q] \/ (q = s /\ l = p.list)
      BY <1>1, <1>2, KeyFields DEF IInv, TypeOK
    <3>3. /\ value[s][k] = Null
          /\ \A b \in running : b.session = s => k \notin KeysOf(b)
      BY <1>1, <1>2, <2>2 DEF IInv, InOnePlace
    <3>4. ASSUME NEW q \in Sessions, NEW l \in Lists
          PROVE  /\ CountOf(l) \in cached'[q] => through'[q][l] # Null
                 /\ through'[q][l] # Null =>
                      /\ through'[q][l].list = l
                      /\ value[q][through'[q][l]] # Null /\ value[q][through'[q][l]].ok
                 /\ value[q][CountOf(l)] # Null => IsCovering(q, l, value[q][CountOf(l)])'
      <4>1. CASE q = s /\ l = p.list
        BY <1>3, <3>1, <3>3, <4>1
      <4>2. CASE q # s \/ l # p.list
        <5>1. /\ through'[q][l] = through[q][l] /\ value' = value
              /\ CountOf(l) \in cached'[q] => CountOf(l) \in cached[q]
          BY <1>2, <3>1, <3>2, <4>2
        <5>2. QED
          BY <5>1 DEF IInv, Covered, IsCovering
      <4>3. QED
        BY <4>1, <4>2
    <3>5. ASSUME NEW b \in running, NEW l \in Lists, CountOf(l) \in DOMAIN b.read
          PROVE  IsCovering(b.session, l, b.read[CountOf(l)])'
      <4>1. b.session \in Sessions
        BY RunningFields DEF IInv, TypeOK
      <4>2. b.session # s \/ l # p.list
        BY <3>3, <3>5 DEF KeysOf
      <4>3. through'[b.session][l] = through[b.session][l] /\ value' = value
        BY <1>2, <3>1, <4>1, <4>2
      <4>4. IsCovering(b.session, l, b.read[CountOf(l)])
        BY <3>5 DEF IInv, Covered
      <4>5. QED
        BY <4>3, <4>4 DEF IsCovering
    <3>6. QED
      BY <1>2, <3>4, <3>5 DEF Covered
  <2>3. QED
    BY <2>1, <2>2
<1>8. QED
  BY <1>2, <1>6, <1>7 DEF IInv

\* A batch that was collected is read: all its keys are left.
LEMMA FireKeeps ==
    ASSUME IInv, NEW s \in Sessions, NEW t \in Kinds, Fire(s, t)
    PROVE  IInv'
<1> DEFINE old == batch[s][t]
           new == [session |-> s, kind |-> t, ctx |-> old.ctx, left |-> old.keys,
                   read |-> <<>>]
<1>1. UNCHANGED <<rows, opened, stage, bounded, asked, cached, value, through, failed>>
  BY DEF Fire
<1>2. /\ batch \in [Sessions -> [Kinds -> Batch \cup {Null}]]
      /\ running \subseteq Running
  BY DEF IInv, TypeOK
<1>3. old \in Batch /\ old # Null
  BY <1>2 DEF Fire
<1>4. old.ctx \in Operation /\ old.keys \in SUBSET Keys
  BY <1>3 DEF Batch
<1>5. running' = running \cup {new}
  BY DEF Fire
<1>6. new.session = s /\ new.left = old.keys /\ DOMAIN new.read = {}
  OBVIOUS
<1>7. new \in Running
  <2>1. <<>> \in [{} -> Result]
    OBVIOUS
  <2>2. <<>> \in UNION {[keys -> Result] : keys \in SUBSET Keys}
    BY <2>1
  <2>3. QED
    BY <1>4, <2>2 DEF Running
<1>8. KeysOf(new) = old.keys
  BY <1>6 DEF KeysOf
<1>9. /\ batch' \in [Sessions -> [Kinds -> Batch \cup {Null}]]
      /\ batch'[s][t] = Null
      /\ \A q \in Sessions, u \in Kinds : q # s \/ u # t => batch'[q][u] = batch[q][u]
  BY <1>2 DEF Fire
<1> HIDE DEF new
<1>10. TypeOK'
  BY <1>1, <1>2, <1>5, <1>7, <1>9 DEF IInv, TypeOK
<1>11. \A k \in old.keys :
         /\ k.kind = t /\ k \in cached[s] /\ value[s][k] = Null
         /\ \A b \in running : b.session = s => k \notin KeysOf(b)
  BY <1>3 DEF IInv, InOnePlace
<1>12. InOnePlace'
  <2>1. ASSUME NEW q \in Sessions, NEW u \in Kinds, batch'[q][u] # Null,
               NEW k \in batch'[q][u].keys
        PROVE  /\ k.kind = u /\ k \in cached'[q] /\ value'[q][k] = Null
               /\ \A b \in running' : b.session = q => k \notin KeysOf(b)
    <3>1. (q # s \/ u # t) /\ batch'[q][u] = batch[q][u]
      BY <1>9, <2>1
    <3>2. /\ k.kind = u /\ k \in cached[q] /\ value[q][k] = Null
          /\ \A b \in running : b.session = q => k \notin KeysOf(b)
      BY <2>1, <3>1 DEF IInv, InOnePlace
    <3>3. new.session = q => k \notin KeysOf(new)
      BY <1>6, <1>8, <1>11, <3>1, <3>2
    <3>4. QED
      BY <1>1, <1>5, <3>2, <3>3
  <2>2. ASSUME NEW b \in running'
        PROVE  /\ b.left \cap DOMAIN b.read = {}
               /\ \A k \in KeysOf(b) : k \in cached[b.session] /\ value[b.session][k] = Null
               /\ \A c \in running' : b # c /\ b.session = c.session =>
                    KeysOf(b) \cap KeysOf(c) = {}
    <3>1. ASSUME NEW c \in running, c.session = s
          PROVE  KeysOf(c) \cap KeysOf(new) = {}
      BY <1>8, <1>11, <3>1
    <3>2. CASE b = new
      BY <1>5, <1>6, <1>8, <1>11, <3>1, <3>2
    <3>3. CASE b \in running
      BY <1>5, <1>6, <3>1, <3>3 DEF IInv, InOnePlace
    <3>4. QED
      BY <1>5, <3>2, <3>3
  <2>3. QED
    BY <1>1, <2>1, <2>2 DEF IInv, InOnePlace, KeysOf
<1>13. Made'
  BY <1>1 DEF IInv, Made
<1>14. Fresh'
  BY <1>1, <1>5, <1>6 DEF IInv, Fresh, IsFresh
<1>15. Covered'
  BY <1>1, <1>5, <1>6, CoveredStays DEF IInv
<1>16. QED
  BY <1>10, <1>12, <1>13, <1>14, <1>15 DEF IInv

\* A group of a batch gets results which are of the request, and cover the page.
LEMMA FillKeeps ==
    ASSUME IInv, NEW b \in running, NEW group \in Groups(b),
           NEW result \in [group -> Result], Filled(b, group, result),
           UNCHANGED <<rows, opened, stage, bounded, asked, cached, value, batch, through>>,
           failed' \in SUBSET Sessions, failed \subseteq failed',
           \A k \in group : IsFresh(b.session, k, result[k])',
           \A l \in Lists : CountOf(l) \in group =>
               IsCovering(b.session, l, result[CountOf(l)])
    PROVE  IInv'
<1>1. b \in Running /\ running \subseteq Running /\ b.session \in Sessions
  BY RunningFields DEF IInv, TypeOK
<1>2. group \in SUBSET b.left
  BY GroupIsLeft
<1>3. PICK c \in Running : BecomesFilled(b, group, result, c)
  BY <1>1, <1>2, FilledBatch
<1> USE <1>3 DEF BecomesFilled
<1>4. TypeOK'
  <2>1. running' \in SUBSET Running
    BY <1>1, <1>3
  <2>2. QED
    BY <2>1 DEF IInv, TypeOK
<1>5. Made'
  BY DEF IInv, Made
<1>6. InOnePlace'
  <2>1. ASSUME NEW q \in Sessions, NEW u \in Kinds, batch[q][u] # Null,
               NEW k \in batch[q][u].keys
        PROVE  /\ k.kind = u /\ k \in cached[q] /\ value[q][k] = Null
               /\ \A d \in running' : d.session = q => k \notin KeysOf(d)
    BY <1>3, <2>1 DEF IInv, InOnePlace
  <2>2. ASSUME NEW d \in running'
        PROVE  /\ d.left \cap DOMAIN d.read = {}
               /\ \A k \in KeysOf(d) : k \in cached[d.session] /\ value[d.session][k] = Null
               /\ \A e \in running' : d # e /\ d.session = e.session =>
                    KeysOf(d) \cap KeysOf(e) = {}
    <3>1. /\ b.left \cap DOMAIN b.read = {}
          /\ \A k \in KeysOf(b) : k \in cached[b.session] /\ value[b.session][k] = Null
          /\ \A e \in running : b # e /\ b.session = e.session =>
               KeysOf(b) \cap KeysOf(e) = {}
      BY DEF IInv, InOnePlace
    <3>2. CASE d = c
      BY <1>2, <1>3, <3>1, <3>2
    <3>3. CASE d \in running /\ d # b
      <4>1. /\ d.left \cap DOMAIN d.read = {}
            /\ \A k \in KeysOf(d) : k \in cached[d.session] /\ value[d.session][k] = Null
            /\ \A e \in running : d # e /\ d.session = e.session =>
                 KeysOf(d) \cap KeysOf(e) = {}
        BY <3>3 DEF IInv, InOnePlace
      <4>2. QED
        BY <1>3, <3>3, <4>1
    <3>4. QED
      BY <1>3, <3>2, <3>3
  <2>3. QED
    BY <2>1, <2>2 DEF IInv, InOnePlace, KeysOf
<1>7. Fresh'
  <2>1. ASSUME NEW q \in Sessions, NEW k \in Keys, NEW r, IsFresh(q, k, r)
        PROVE  IsFresh(q, k, r)'
    BY <2>1 DEF IsFresh
  <2>2. ASSUME NEW d \in running', NEW k \in DOMAIN d.read
        PROVE  IsFresh(d.session, k, d.read[k])'
    <3>1. d.session \in Sessions /\ k \in Keys
      BY <1>1, <1>3, RunningFields
    <3>2. CASE d = c /\ k \in group
      BY <1>3, <3>2 DEF IsFresh
    <3>3. CASE d = c /\ k \notin group
      <4>1. k \in DOMAIN b.read /\ d.read[k] = b.read[k] /\ d.session = b.session
        BY <1>3, <2>2, <3>3
      <4>2. IsFresh(b.session, k, b.read[k])
        BY <4>1 DEF IInv, Fresh
      <4>3. QED
        BY <4>1, <4>2 DEF IsFresh
    <3>4. CASE d \in running
      BY <2>1, <2>2, <3>1, <3>4 DEF IInv, Fresh
    <3>5. QED
      BY <1>3, <3>2, <3>3, <3>4
  <2>3. ASSUME NEW q \in Sessions, NEW k \in Keys, value[q][k] # Null
        PROVE  IsFresh(q, k, value[q][k])'
    BY <2>3 DEF IInv, Fresh, IsFresh
  <2>4. QED
    BY <2>2, <2>3 DEF Fresh
<1>8. Covered'
  <2>1. ASSUME NEW d \in running', NEW l \in Lists, CountOf(l) \in DOMAIN d.read
        PROVE  IsCovering(d.session, l, d.read[CountOf(l)])'
    <3>1. CASE d = c /\ CountOf(l) \in group
      BY <1>3, <2>1, <3>1 DEF IsCovering
    <3>2. CASE d = c /\ CountOf(l) \notin group
      <4>1. /\ d.session = b.session /\ CountOf(l) \in DOMAIN b.read
            /\ d.read[CountOf(l)] = b.read[CountOf(l)]
        BY <2>1, <3>2
      <4>2. IsCovering(b.session, l, b.read[CountOf(l)])
        BY <4>1 DEF IInv, Covered
      <4>3. QED
        BY <4>1, <4>2, CoveringSame
    <3>3. CASE d \in running
      <4>1. IsCovering(d.session, l, d.read[CountOf(l)])
        BY <2>1, <3>3 DEF IInv, Covered
      <4>2. QED
        BY <4>1, CoveringSame
    <3>4. QED
      BY <1>3, <3>1, <3>2, <3>3
  <2>2. QED
    BY <2>1, CoveringSame DEF IInv, Covered
<1>9. QED
  BY <1>4, <1>5, <1>6, <1>7, <1>8 DEF IInv

\* A statement reads the lists as they are: what it counts covers any page that
\* was answered before.
LEMMA ReadGroupKeeps ==
    ASSUME IInv, NEW b \in running, ReadGroup(b)
    PROVE  IInv'
<1>1. PICK group \in Groups(b) :
        Filled(b, group, [k \in group |-> [ok |-> TRUE, rows |-> rows[k.list]]])
  BY DEF ReadGroup
<1> DEFINE s == b.session
<1>0. PICK result : result = [k \in group |-> [ok |-> TRUE, rows |-> rows[k.list]]]
  OBVIOUS
<1>2. /\ UNCHANGED <<rows, opened, stage, bounded, asked, cached, value, batch, through,
                      failed>>
      /\ rows \in [Lists -> 0..MaxRows] /\ failed \in SUBSET Sessions
  BY DEF ReadGroup, IInv, TypeOK
<1>3. b \in Running /\ s \in Sessions /\ group \subseteq b.left /\ group \subseteq Keys
  BY RunningFields, GroupIsLeft DEF IInv, TypeOK
<1>4. \A k \in group : k.list \in Lists
  BY <1>3, KeyFields
<1>5. result \in [group -> Result]
  BY <1>0, <1>2, <1>4 DEF Result
<1>6. \A k \in group : k \in cached[s] /\ opened[s] # Null
  BY <1>3 DEF IInv, InOnePlace, KeysOf, Made
<1>7. \A k \in group : opened[s] \in [Lists -> 0..MaxRows] /\ opened[s][k.list] <= rows[k.list]
  BY <1>3, <1>4, <1>6 DEF IInv, TypeOK, Made
<1>8. \A k \in group : IsFresh(s, k, result[k])'
  BY <1>0, <1>2, <1>4, <1>7, BoundAssumption DEF IsFresh
<1>9. ASSUME NEW l \in Lists, CountOf(l) \in group
      PROVE  IsCovering(s, l, result[CountOf(l)])
  <2> DEFINE p == through[s][l]
  <2>1. CountOf(l) \in cached[s] /\ CountOf(l).list = l
    BY <1>6, <1>9, KeyFields
  <2>2. p # Null /\ p.list = l /\ value[s][p] # Null /\ value[s][p].ok
    BY <1>3, <2>1 DEF IInv, Covered
  <2>3. p \in PageKeys /\ p \in Keys
    BY <1>3, <2>2, KeyFields DEF IInv, TypeOK
  <2>4. value[s][p].rows <= rows[l]
    BY <1>3, <2>2, <2>3 DEF IInv, Fresh, IsFresh
  <2>5. result[CountOf(l)].rows = rows[l]
    BY <1>0, <1>9, <2>1
  <2>6. QED
    BY <2>4, <2>5 DEF IsCovering
<1>10. Filled(b, group, result)
  BY <1>0, <1>1
<1>11. /\ UNCHANGED <<rows, opened, stage, bounded, asked, cached, value, batch, through>>
       /\ failed' \in SUBSET Sessions /\ failed \subseteq failed'
  BY <1>2
<1>12. QED
  BY <1>5, <1>8, <1>9, <1>10, <1>11, FillKeeps

\* The keys of a group that fails get the error, which the request state answers
\* for.
LEMMA GroupFailsKeeps ==
    ASSUME IInv, NEW b \in running, GroupFails(b)
    PROVE  IInv'
<1>1. PICK group \in Groups(b) :
        Filled(b, group, [k \in group |-> [ok |-> FALSE, rows |-> 0]])
  BY DEF GroupFails
<1> DEFINE result == [k \in group |-> [ok |-> FALSE, rows |-> 0]]
<1>2. b.session \in Sessions
  BY RunningFields DEF IInv, TypeOK
<1>3. /\ UNCHANGED <<rows, opened, stage, bounded, asked, cached, value, batch, through>>
      /\ failed' = failed \cup {b.session} /\ failed' \in SUBSET Sessions
  BY <1>2 DEF GroupFails, IInv, TypeOK
<1>4. result \in [group -> Result]
  BY BoundAssumption DEF Result
<1>5. \A k \in group : IsFresh(b.session, k, result[k])'
  BY <1>3 DEF IsFresh
<1>6. \A l \in Lists : CountOf(l) \in group => IsCovering(b.session, l, result[CountOf(l)])
  BY DEF IsCovering
<1>7. Filled(b, group, result)
  BY <1>1
<1> HIDE DEF result
<1>8. failed \subseteq failed'
  BY <1>3
<1>9. QED
  BY <1>3, <1>4, <1>5, <1>6, <1>7, <1>8, FillKeeps

\* A batch that was read answers its keys, which had no answer.
LEMMA DeliverKeeps ==
    ASSUME IInv, NEW b \in running, Deliver(b)
    PROVE  IInv'
<1> DEFINE s == b.session
<1>1. /\ UNCHANGED <<rows, opened, stage, bounded, asked, cached, batch, through, failed>>
      /\ b.left = {} /\ running' = running \ {b}
  BY DEF Deliver
<1>2. /\ b \in Running /\ s \in Sessions /\ DOMAIN b.read \subseteq Keys
      /\ \A k \in DOMAIN b.read : b.read[k] \in Result
      /\ running \subseteq Running
  BY RunningFields DEF IInv, TypeOK
<1>3. value \in [Sessions -> [Keys -> Result \cup {Null}]]
  BY DEF IInv, TypeOK
<1>4. /\ value' \in [Sessions -> [Keys -> Result \cup {Null}]]
      /\ \A k \in Keys : value'[s][k] = IF k \in DOMAIN b.read THEN b.read[k]
                                                             ELSE value[s][k]
      /\ \A q \in Sessions : q # s => value'[q] = value[q]
  BY <1>2, <1>3 DEF Deliver
<1>5. \A k \in DOMAIN b.read : k \in KeysOf(b) /\ k \in cached[s] /\ value[s][k] = Null
  BY DEF IInv, InOnePlace, KeysOf
<1>6. TypeOK'
  BY <1>1, <1>4 DEF IInv, TypeOK
<1>7. Made'
  BY <1>1 DEF IInv, Made
<1>8. InOnePlace'
  <2>1. ASSUME NEW q \in Sessions, NEW u \in Kinds, batch[q][u] # Null,
               NEW k \in batch[q][u].keys
        PROVE  /\ k.kind = u /\ k \in cached[q] /\ value'[q][k] = Null
               /\ \A d \in running' : d.session = q => k \notin KeysOf(d)
    <3>1. k \in Keys
      BY <2>1 DEF IInv, TypeOK, Batch
    <3>2. /\ k.kind = u /\ k \in cached[q] /\ value[q][k] = Null
          /\ \A d \in running : d.session = q => k \notin KeysOf(d)
      BY <2>1 DEF IInv, InOnePlace
    <3>3. QED
      BY <1>1, <1>4, <1>5, <3>1, <3>2
  <2>2. ASSUME NEW d \in running'
        PROVE  /\ d.left \cap DOMAIN d.read = {}
               /\ \A k \in KeysOf(d) : k \in cached[d.session] /\ value'[d.session][k] = Null
               /\ \A e \in running' : d # e /\ d.session = e.session =>
                    KeysOf(d) \cap KeysOf(e) = {}
    <3>1. d \in running /\ d # b /\ d.session \in Sessions /\ KeysOf(d) \subseteq Keys
      BY <1>1, <1>2, RunningFields
    <3>2. /\ d.left \cap DOMAIN d.read = {}
          /\ \A k \in KeysOf(d) : k \in cached[d.session] /\ value[d.session][k] = Null
          /\ \A e \in running : d # e /\ d.session = e.session =>
               KeysOf(d) \cap KeysOf(e) = {}
      BY <3>1 DEF IInv, InOnePlace
    <3>3. QED
      BY <1>1, <1>4, <1>5, <3>1, <3>2
  <2>3. ASSUME NEW q \in Sessions, NEW k \in Keys, value'[q][k] # Null
        PROVE  k \in cached[q]
    BY <1>4, <1>5, <2>3 DEF IInv, InOnePlace
  <2>4. QED
    BY <1>1, <2>1, <2>2, <2>3 DEF InOnePlace, KeysOf
<1>9. Fresh'
  <2>1. ASSUME NEW q \in Sessions, NEW k \in Keys, value'[q][k] # Null
        PROVE  IsFresh(q, k, value[q][k])'
    <3>1. CASE q = s /\ k \in DOMAIN b.read
      <4>1. value'[q][k] = b.read[k] /\ IsFresh(s, k, b.read[k])
        BY <1>4, <3>1 DEF IInv, Fresh
      <4>2. QED
        BY <1>1, <3>1, <4>1 DEF IsFresh
    <3>2. CASE ~(q = s /\ k \in DOMAIN b.read)
      <4>1. value'[q][k] = value[q][k]
        BY <1>4, <3>2
      <4>2. QED
        BY <1>1, <2>1, <4>1 DEF IInv, Fresh, IsFresh
    <3>3. QED
      BY <3>1, <3>2
  <2>2. ASSUME NEW d \in running', NEW k \in DOMAIN d.read
        PROVE  IsFresh(d.session, k, d.read[k])'
    BY <1>1 DEF IInv, Fresh, IsFresh
  <2>3. QED
    BY <2>1, <2>2 DEF Fresh
<1>10. Covered'
  <2>1. ASSUME NEW q \in Sessions, NEW l \in Lists, through[q][l] # Null
        PROVE  /\ through[q][l].list = l
               /\ value'[q][through[q][l]] = value[q][through[q][l]]
               /\ value[q][through[q][l]] # Null /\ value[q][through[q][l]].ok
    <3>1. through[q][l] \in Keys
      BY <2>1, KeyFields DEF IInv, TypeOK
    <3>2. QED
      BY <1>4, <1>5, <2>1, <3>1 DEF IInv, Covered
  <2>2. ASSUME NEW q \in Sessions, NEW l \in Lists, value'[q][CountOf(l)] # Null
        PROVE  IsCovering(q, l, value[q][CountOf(l)])'
    <3>1. CountOf(l) \in Keys
      BY KeyFields
    <3>2. CASE q = s /\ CountOf(l) \in DOMAIN b.read
      <4>1. /\ value'[q][CountOf(l)] = b.read[CountOf(l)]
            /\ IsCovering(s, l, b.read[CountOf(l)])
            /\ CountOf(l) \in cached[q]
        BY <1>4, <1>5, <3>1, <3>2 DEF IInv, Covered
      <4>2. through[q][l] # Null
        BY <4>1 DEF IInv, Covered
      <4>3. value'[q][through[q][l]] = value[q][through[q][l]]
        BY <2>1, <4>2
      <4>4. QED
        BY <1>1, <3>2, <4>1, <4>3 DEF IsCovering
    <3>3. CASE ~(q = s /\ CountOf(l) \in DOMAIN b.read)
      <4>1. value'[q][CountOf(l)] = value[q][CountOf(l)]
        BY <1>4, <3>1, <3>3
      <4>2. CountOf(l) \in cached[q] /\ IsCovering(q, l, value[q][CountOf(l)])
        BY <2>2, <3>1, <4>1 DEF IInv, InOnePlace, Covered
      <4>3. through[q][l] # Null
        BY <4>2 DEF IInv, Covered
      <4>4. value'[q][through[q][l]] = value[q][through[q][l]]
        BY <2>1, <4>3
      <4>5. QED
        BY <1>1, <4>1, <4>2, <4>4 DEF IsCovering
    <3>4. QED
      BY <3>2, <3>3
  <2>3. ASSUME NEW d \in running', NEW l \in Lists, CountOf(l) \in DOMAIN d.read
        PROVE  IsCovering(d.session, l, d.read[CountOf(l)])'
    <3>1. d \in running /\ d.session \in Sessions
      BY <1>1, <1>2, RunningFields
    <3>2. CountOf(l) \in cached[d.session] /\ IsCovering(d.session, l, d.read[CountOf(l)])
      BY <2>3, <3>1 DEF IInv, InOnePlace, KeysOf, Covered
    <3>3. through[d.session][l] # Null
      BY <3>1, <3>2 DEF IInv, Covered
    <3>4. value'[d.session][through[d.session][l]] = value[d.session][through[d.session][l]]
      BY <2>1, <3>1, <3>3
    <3>5. QED
      BY <1>1, <3>2, <3>4 DEF IsCovering
  <2>4. ASSUME NEW q \in Sessions, NEW l \in Lists, CountOf(l) \in cached[q]
        PROVE  through[q][l] # Null
    BY <2>4 DEF IInv, Covered
  <2>5. QED
    BY <1>1, <2>1, <2>2, <2>3, <2>4 DEF Covered
<1>11. QED
  BY <1>6, <1>7, <1>8, <1>9, <1>10 DEF IInv

-----------------------------------------------------------------------------
(* The invariant, and what follows from it.                                  *)

LEMMA InitHolds == Init => IInv
<1> SUFFICES ASSUME Init PROVE IInv
  OBVIOUS
<1>1. TypeOK
  BY BoundAssumption DEF Init, TypeOK, Stages
<1>2. Made
  BY DEF Init, Made
<1>3. InOnePlace
  BY DEF Init, InOnePlace
<1>4. Fresh
  BY DEF Init, Fresh
<1>5. Covered
  BY KeyFields DEF Init, Covered
<1>6. QED
  BY <1>1, <1>2, <1>3, <1>4, <1>5 DEF IInv

LEMMA IdleKeeps == IInv /\ UNCHANGED vars => IInv'
<1> SUFFICES ASSUME IInv, UNCHANGED vars PROVE IInv'
  OBVIOUS
<1>1. TypeOK'
  BY DEF vars, IInv, TypeOK
<1>2. Made' /\ Fresh'
  BY DEF vars, IInv, Made, Fresh, IsFresh
<1>3. InOnePlace' /\ Covered'
  BY LoadersSame DEF vars
<1>4. QED
  BY <1>1, <1>2, <1>3 DEF IInv

LEMMA NextKeeps == IInv /\ Next => IInv'
<1> SUFFICES ASSUME IInv, Next PROVE IInv'
  OBVIOUS
<1>1. ASSUME NEW l \in Lists, Insert(l) PROVE IInv'
  BY <1>1, InsertKeeps
<1>2. ASSUME NEW s \in Sessions, Open(s) PROVE IInv'
  BY <1>2, OpenKeeps
<1>3. ASSUME NEW o \in Operation, Arrive(o) PROVE IInv'
  BY <1>3, ArriveKeeps
<1>4. ASSUME NEW o \in Operation, NEW p \in PageKeys, LoadPage(o, p) PROVE IInv'
  BY <1>4, LoadPageKeeps
<1>5. ASSUME NEW o \in Operation, NEW p \in PageKeys, LoadCount(o, p) PROVE IInv'
  BY <1>5, LoadCountKeeps
<1>6. ASSUME NEW s \in Sessions, NEW t \in Kinds, Fire(s, t) PROVE IInv'
  BY <1>6, FireKeeps
<1>7. ASSUME NEW b \in running, ReadGroup(b) PROVE IInv'
  BY <1>7, ReadGroupKeeps
<1>8. ASSUME NEW b \in running, GroupFails(b) PROVE IInv'
  BY <1>8, GroupFailsKeeps
<1>9. ASSUME NEW b \in running, Deliver(b) PROVE IInv'
  BY <1>9, DeliverKeeps
<1>10. QED
  BY <1>1, <1>2, <1>3, <1>4, <1>5, <1>6, <1>7, <1>8, <1>9 DEF Next

LEMMA IInvHolds == Spec => []IInv
BY InitHolds, NextKeeps, IdleKeeps, PTL DEF Spec

\* The variables hold what the request states and loaders can hold, whatever is
\* asked, and however batches are collected, read and delivered.
THEOREM TypeCorrect == Spec => []TypeOK
BY IInvHolds, PTL DEF IInv

\* What an operation is answered comes from its own HTTP request: a list as it
\* was at some instant since the request began, and an error only if a statement
\* of this request has failed.
THEOREM AnswersHold == Spec => []AnswersAreOfTheRequest
<1>1. IInv => AnswersAreOfTheRequest
  <2> SUFFICES ASSUME IInv, NEW o \in Operation, NEW k \in Keys, Answered(o, k)
               PROVE  IsFresh(SessionOf[o], k, Answer(o, k))
    BY DEF AnswersAreOfTheRequest, IsFresh
  <2>1. SessionOf[o] \in Sessions
    BY SessionAssumption
  <2>2. QED
    BY <2>1 DEF IInv, Fresh, Answered, Answer, State
<1>2. QED
  BY <1>1, IInvHolds, PTL

\* A count is not older than the page it was first asked for through, although
\* it is read by another loader, in a batch of other operations.
THEOREM CountCoversHolds == Spec => []CountCoversPage
<1>1. IInv => CountCoversPage
  BY DEF IInv, Covered, IsCovering, CountCoversPage, CountOf
<1>2. QED
  BY <1>1, IInvHolds, PTL
=============================================================================
