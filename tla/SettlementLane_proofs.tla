------------------------ MODULE SettlementLane_proofs ------------------------
(***************************************************************************)
(* Proofs about the settlement lane, for every value of its constants: any *)
(* number of workers, readers, settlements and requests.                   *)
(***************************************************************************)
EXTENDS SettlementLane, FiniteSetTheorems, TLAPS

USE LaneConstants

\* The invariant of one settlement.
Backed(h) == credits[h] + Cardinality(Crediting(h)) <= rows[h]
Bounded(h) == rows[h] > 0 =>
                rows[h] + Cardinality(Recording(h)) <= Cardinality(Worker)

LEMMA HashByHash ==
  CreditsBacked /\ RowsBounded <=> \A h \in Hash : Backed(h) /\ Bounded(h)
BY DEF CreditsBacked, RowsBounded, Backed, Bounded

LEMMA LaneInit == Init => LaneInv
<1> SUFFICES ASSUME Init PROVE LaneInv
  OBVIOUS
<1>1. TypeOK
  BY DEF Init, TypeOK
<1>2. \A h \in Hash : Recording(h) = {} /\ Crediting(h) = {}
  BY DEF Init, Recording, Crediting, Working, Idle
<1>3. CreditsBacked /\ RowsBounded
  <2>1. Cardinality({}) = 0
    BY FS_EmptySet
  <2>2. \A h \in Hash : rows[h] = 0 /\ credits[h] = 0
    BY DEF Init
  <2> QED BY <1>2, <2>1, <2>2 DEF CreditsBacked, RowsBounded
<1>4. \A w \in Worker : req[w].pc = "idle"
  BY DEF Init, Idle
<1>5. PaidForInFlight
  BY <1>4 DEF PaidForInFlight
<1>6. CreditCovered
  BY DEF Init, CreditCovered
<1> QED BY <1>1, <1>3, <1>5, <1>6 DEF LaneInv

\* The counted sets are finite.
LEMMA CountsAreNumbers ==
  ASSUME NEW h \in Hash
  PROVE  /\ IsFiniteSet(Recording(h)) /\ Cardinality(Recording(h)) \in Nat
         /\ IsFiniteSet(Crediting(h)) /\ Cardinality(Crediting(h)) \in Nat
         /\ Cardinality(Worker) \in Nat
         /\ Cardinality(Recording(h)) <= Cardinality(Worker)
<1>1. Recording(h) \subseteq Worker /\ Crediting(h) \subseteq Worker
  BY DEF Recording, Crediting
<1> QED BY <1>1, FS_Subset, FS_CardinalityType

LEMMA CountsAreNumbersNext ==
  ASSUME NEW h \in Hash
  PROVE  /\ IsFiniteSet(Recording(h)') /\ Cardinality(Recording(h)') \in Nat
         /\ IsFiniteSet(Crediting(h)') /\ Cardinality(Crediting(h)') \in Nat
<1>1. Recording(h)' \subseteq Worker /\ Crediting(h)' \subseteq Worker
  BY DEF Recording, Crediting
<1> QED BY <1>1, FS_Subset, FS_CardinalityType

\* A step that records and credits nothing keeps the counts in order when it
\* adds nobody to those who owe a credit, and nobody to those about to record a
\* settlement that has a row.
LEMMA QuietStep ==
  ASSUME TypeOK, CreditsBacked, RowsBounded, UNCHANGED <<rows, credits>>,
         \A h \in Hash : /\ Crediting(h)' \subseteq Crediting(h)
                         /\ rows[h] > 0 => Recording(h)' \subseteq Recording(h)
  PROVE  CreditsBacked' /\ RowsBounded'
<1>1. ASSUME NEW h \in Hash PROVE Backed(h)'
  <2>1. Cardinality(Crediting(h)') <= Cardinality(Crediting(h))
    BY CountsAreNumbers, FS_Subset
  <2>2. credits[h] \in Nat /\ rows[h] \in Nat
    BY DEF TypeOK
  <2> QED BY <2>1, <2>2, CountsAreNumbers, CountsAreNumbersNext, HashByHash
          DEF Backed
<1>2. ASSUME NEW h \in Hash PROVE Bounded(h)'
  <2> SUFFICES ASSUME rows[h] > 0
               PROVE  rows[h] + Cardinality(Recording(h)')
                        <= Cardinality(Worker)
    BY DEF Bounded
  <2>1. Cardinality(Recording(h)') <= Cardinality(Recording(h))
    BY CountsAreNumbers, FS_Subset
  <2>2. rows[h] \in Nat
    BY DEF TypeOK
  <2> QED BY <2>1, <2>2, CountsAreNumbers, CountsAreNumbersNext, HashByHash
          DEF Bounded
<1> QED BY <1>1, <1>2 DEF CreditsBacked, RowsBounded, Backed, Bounded

\* The request of w moves to x and nobody else's changes.
LEMMA OneMoves ==
  ASSUME TypeOK, NEW w \in Worker, NEW x, req' = [req EXCEPT ![w] = x]
  PROVE  /\ req'[w] = x
         /\ \A v \in Worker : v # w => req'[v] = req[v]
         /\ \A h \in Hash :
              /\ \A v \in Worker : v # w =>
                   /\ v \in Recording(h)' <=> v \in Recording(h)
                   /\ v \in Crediting(h)' <=> v \in Crediting(h)
              /\ w \in Recording(h)' <=> x.pc = "record" /\ x.item.hash = h
              /\ w \in Crediting(h)'
                   <=> x.pc \in {"credit", "insert", "advance"} /\ x.item.hash = h
<1>1. req'[w] = x /\ \A v \in Worker : v # w => req'[v] = req[v]
  BY DEF TypeOK
<1> QED BY <1>1 DEF Recording, Crediting, Working

\* What ending an item leaves: an idle slot or the next item, to be verified.
LEMMA ItemEnds ==
  ASSUME TypeOK, NEW w \in Worker, req[w] # Idle, EndItem(w)
  PROVE  \E x : /\ req' = [req EXCEPT ![w] = x]
                /\ x \in Request \cup {Idle}
                /\ x.pc \in {"idle", "verify"}
<1>1. req[w] \in Request
  BY DEF TypeOK
<1>2. CASE req[w].rest = <<>>
  <2>1. req' = [req EXCEPT ![w] = Idle] /\ Idle.pc = "idle"
    BY <1>2 DEF EndItem, Idle
  <2> QED BY <2>1
<1>3. CASE req[w].rest # <<>>
  <2> DEFINE x == [req[w] EXCEPT !.pc = "verify", !.item = Head(req[w].rest),
                                 !.row = 0, !.rest = Tail(req[w].rest)]
  <2>1. req[w].rest \in Seq(Item)
    BY <1>1 DEF Request
  <2>2. Head(req[w].rest) \in Item /\ Tail(req[w].rest) \in Seq(Item)
    BY <1>3, <2>1
  <2>3. ASSUME NEW r \in Request, NEW i \in Item, NEW t \in Seq(Item)
        PROVE  /\ [r EXCEPT !.pc = "verify", !.item = i, !.row = 0, !.rest = t]
                    \in Request
               /\ [r EXCEPT !.pc = "verify", !.item = i, !.row = 0, !.rest = t].pc
                    = "verify"
    <3>1. [r EXCEPT !.pc = "verify", !.item = i] \in Request
      BY DEF Request, Steps
    <3>2. ASSUME NEW q \in Request
          PROVE  [q EXCEPT !.row = 0, !.rest = t] \in Request
      <4>1. 0 \in 0..MaxSubs
        OBVIOUS
      <4>2. [q EXCEPT !.row = 0] \in Request
        BY <4>1 DEF Request
      <4>3. ASSUME NEW p \in Request PROVE [p EXCEPT !.rest = t] \in Request
        BY DEF Request
      <4>4. [q EXCEPT !.row = 0, !.rest = t]
              = [[q EXCEPT !.row = 0] EXCEPT !.rest = t]
        BY DEF Request
      <4> QED BY <4>2, <4>3, <4>4
    <3>3. [r EXCEPT !.pc = "verify", !.item = i, !.row = 0, !.rest = t]
            = [[r EXCEPT !.pc = "verify", !.item = i]
                 EXCEPT !.row = 0, !.rest = t]
      BY DEF Request
    <3>4. [r EXCEPT !.pc = "verify", !.item = i, !.row = 0, !.rest = t].pc
            = "verify"
      <4>1. "pc" \in DOMAIN r
        BY DEF Request
      <4> QED BY <4>1
    <3> QED BY <3>1, <3>2, <3>3, <3>4
  <2>4. req' = [req EXCEPT ![w] = x]
    BY <1>3 DEF EndItem
  <2> QED BY <1>1, <2>2, <2>3, <2>4
<1> QED BY <1>2, <1>3

\* Going on to another step keeps the rest of the request.
LEMMA GoesOn ==
  ASSUME TypeOK, NEW w \in Worker, req[w] # Idle, NEW pc \in Steps, GoTo(w, pc)
  PROVE  \E x \in Request : /\ req' = [req EXCEPT ![w] = x] /\ x.pc = pc
                            /\ x.item = req[w].item /\ x.tier = req[w].tier
                            /\ x.lane = req[w].lane
<1> DEFINE x == [req[w] EXCEPT !.pc = pc]
<1>1. req[w] \in Request
  BY DEF TypeOK
<1>2. x \in Request /\ x.pc = pc /\ x.item = req[w].item
      /\ x.tier = req[w].tier /\ x.lane = req[w].lane
  BY <1>1 DEF Request
<1>3. req' = [req EXCEPT ![w] = x]
  BY DEF GoTo
<1> QED BY <1>2, <1>3

\* Nobody's payment is taken back, so what was paid for stays paid for.
LEMMA PaidStays ==
  ASSUME TypeOK, PaidForInFlight, NEW w \in Worker, NEW x,
         req' = [req EXCEPT ![w] = x], UNCHANGED paid,
         x.pc \in {"check", "record", "credit", "insert", "advance"} =>
           paid[x.item.hash] # 0 /\ paid[x.item.hash] >= PayPrice,
         x.pc = "insert" => /\ x.tier = "monthly"
                            /\ paid[x.item.hash] >= TierAmount["monthly"]
  PROVE  PaidForInFlight'
<1> SUFFICES ASSUME NEW v \in Worker
             PROVE  /\ req'[v].pc \in {"check", "record", "credit", "insert",
                                       "advance"} =>
                         /\ paid[req'[v].item.hash] # 0
                         /\ paid[req'[v].item.hash] >= PayPrice
                    /\ req'[v].pc = "insert" =>
                         /\ req'[v].tier = "monthly"
                         /\ paid[req'[v].item.hash] >= TierAmount["monthly"]
  BY DEF PaidForInFlight
<1>1. CASE v = w
  BY <1>1 DEF TypeOK
<1>2. CASE v # w
  BY <1>2 DEF TypeOK, PaidForInFlight
<1> QED BY <1>1, <1>2

Owing == {"credit", "insert", "advance"}

\* What a step owes beyond the types of the other variables.
Kept == /\ req' \in [Worker -> Request \cup {Idle}]
        /\ CreditsBacked' /\ RowsBounded' /\ PaidForInFlight' /\ CreditCovered'

\* A step of one request that records and credits nothing.
LEMMA MoveKeeps ==
  ASSUME LaneInv, NEW w \in Worker, NEW x \in Request \cup {Idle},
         req' = [req EXCEPT ![w] = x],
         UNCHANGED <<paid, rows, credits, given>>,
         x.pc = "record" => rows[x.item.hash] = 0,
         x.pc \in Owing => req[w].pc \in Owing /\ x.item = req[w].item,
         x.pc \in {"check", "record"} \cup Owing =>
           paid[x.item.hash] # 0 /\ paid[x.item.hash] >= PayPrice,
         x.pc = "insert" => /\ x.tier = "monthly"
                            /\ paid[x.item.hash] >= TierAmount["monthly"]
  PROVE  Kept
<1>1. TypeOK /\ CreditsBacked /\ RowsBounded /\ PaidForInFlight /\ CreditCovered
  BY DEF LaneInv
<1>2. ASSUME NEW h \in Hash
      PROVE  /\ Crediting(h)' \subseteq Crediting(h)
             /\ rows[h] > 0 => Recording(h)' \subseteq Recording(h)
  <2>1. Crediting(h)' \subseteq Worker /\ Recording(h)' \subseteq Worker
    BY DEF Crediting, Recording
  <2>2. w \in Crediting(h)' => w \in Crediting(h)
    BY <1>1, OneMoves DEF Owing, Crediting, Working
  <2>3. rows[h] > 0 => w \notin Recording(h)'
    <3> SUFFICES ASSUME w \in Recording(h)' PROVE rows[h] = 0
      OBVIOUS
    <3> QED BY <1>1, OneMoves
  <2>4. \A v \in Worker : v # w =>
          /\ v \in Recording(h)' <=> v \in Recording(h)
          /\ v \in Crediting(h)' <=> v \in Crediting(h)
    BY <1>1, OneMoves
  <2> QED BY <2>1, <2>2, <2>3, <2>4
<1>3. CreditsBacked' /\ RowsBounded'
  BY <1>1, <1>2, QuietStep
<1>4. PaidForInFlight'
  BY <1>1, PaidStays DEF Owing
<1>5. CreditCovered'
  BY <1>1 DEF CreditCovered
<1>6. req' \in [Worker -> Request \cup {Idle}]
  BY <1>1 DEF TypeOK
<1> QED BY <1>3, <1>4, <1>5, <1>6 DEF Kept

\* Ending an item with nothing recorded and nothing credited.
LEMMA EndKeeps ==
  ASSUME LaneInv, NEW w \in Worker, req[w] # Idle, EndItem(w),
         UNCHANGED <<paid, rows, credits, given>>
  PROVE  Kept
<1>1. PICK x : /\ req' = [req EXCEPT ![w] = x] /\ x \in Request \cup {Idle}
               /\ x.pc \in {"idle", "verify"}
  BY ItemEnds DEF LaneInv
<1> QED BY <1>1, MoveKeeps DEF Owing

\* A credit: what was owed is given.
LEMMA GiveKeeps ==
  ASSUME LaneInv, NEW w \in Worker, req[w].pc \in Owing, EndItem(w),
         NEW what \in {"pass", "subscription", "period"},
         NEW tier \in Tier \cup {NoTier}, NEW row \in 0..MaxSubs,
         Give(w, what, tier, row), UNCHANGED <<paid, rows>>,
         tier # NoTier => paid[req[w].item.hash] >= TierAmount[tier],
         what = "subscription" => req[w].tier = "monthly"
  PROVE  /\ Kept
         /\ credits' \in [Hash -> Nat] /\ given' \subseteq Credit
<1> DEFINE g == req[w].item.hash
           new == [hash |-> g, what |-> what, tier |-> tier,
                   asked |-> req[w].tier, row |-> row,
                   charged |-> req[w].item.charged]
<1>1. TypeOK /\ CreditsBacked /\ RowsBounded /\ PaidForInFlight /\ CreditCovered
  BY DEF LaneInv
<1>2. req[w] \in Request /\ req[w] # Idle
  BY <1>1 DEF TypeOK, Owing, Idle
<1>3. /\ req[w].item \in Item /\ g \in Hash /\ req[w].item.charged \in 0..MaxSubs
      /\ req[w].tier \in Tier \cup {NoTier}
  BY <1>2 DEF Request, Item
<1>4. credits' = [credits EXCEPT ![g] = @ + 1] /\ given' = given \cup {new}
  BY DEF Give
<1>5. credits' \in [Hash -> Nat] /\ given' \subseteq Credit
  <2>1. new \in Credit
    BY <1>3 DEF Credit
  <2>2. credits \in [Hash -> Nat] /\ given \subseteq Credit
    BY <1>1 DEF TypeOK
  <2> QED BY <1>3, <1>4, <2>1, <2>2
<1>6. PICK x : /\ req' = [req EXCEPT ![w] = x] /\ x \in Request \cup {Idle}
               /\ x.pc \in {"idle", "verify"}
  BY <1>1, <1>2, ItemEnds
<1>7. req' \in [Worker -> Request \cup {Idle}]
  BY <1>1, <1>6 DEF TypeOK
<1>8. ASSUME NEW h \in Hash
      PROVE  /\ Recording(h)' = Recording(h)
             /\ Crediting(h)' = Crediting(h) \ {w}
             /\ w \in Crediting(h) <=> h = g
             /\ rows[h] \in Nat /\ credits[h] \in Nat
  <2>1. /\ Crediting(h)' \subseteq Worker /\ Recording(h)' \subseteq Worker
        /\ Crediting(h) \subseteq Worker /\ Recording(h) \subseteq Worker
    BY DEF Crediting, Recording
  <2>2. /\ w \notin Recording(h) /\ w \notin Recording(h)'
        /\ w \notin Crediting(h)'
        /\ w \in Crediting(h) <=> h = g
    BY <1>1, <1>6, OneMoves DEF Owing, Crediting, Recording, Working
  <2>3. \A v \in Worker : v # w =>
          /\ v \in Recording(h)' <=> v \in Recording(h)
          /\ v \in Crediting(h)' <=> v \in Crediting(h)
    BY <1>1, <1>6, OneMoves
  <2>4. rows[h] \in Nat /\ credits[h] \in Nat
    BY <1>1 DEF TypeOK
  <2>5. Recording(h)' = Recording(h)
    BY <2>1, <2>2, <2>3
  <2>6. Crediting(h)' = Crediting(h) \ {w}
    BY <2>1, <2>2, <2>3
  <2> QED BY <2>2, <2>4, <2>5, <2>6
<1>9. ASSUME NEW h \in Hash PROVE Bounded(h)'
  <2>1. Bounded(h) /\ rows'[h] = rows[h]
    BY <1>1, HashByHash
  <2>2. Recording(h)' = Recording(h)
    BY <1>8
  <2> QED BY <2>1, <2>2 DEF Bounded
<1>10. ASSUME NEW h \in Hash PROVE Backed(h)'
  <2>1. CASE h = g
    <3>1. Cardinality(Crediting(h)') = Cardinality(Crediting(h)) - 1
      BY <1>8, <2>1, CountsAreNumbers, FS_RemoveElement
    <3>2. credits'[h] = credits[h] + 1
      BY <1>1, <1>3, <1>4, <2>1 DEF TypeOK
    <3> QED BY <1>1, <1>8, <3>1, <3>2, CountsAreNumbers, HashByHash DEF Backed
  <2>2. CASE h # g
    <3>1. Crediting(h)' = Crediting(h) /\ credits'[h] = credits[h]
      <4>1. Crediting(h)' = Crediting(h)
        BY <1>8, <2>2
      <4>2. credits'[h] = credits[h]
        BY <1>1, <1>3, <1>4, <2>2 DEF TypeOK
      <4> QED BY <4>1, <4>2
    <3>2. Backed(h) /\ rows'[h] = rows[h]
      BY <1>1, HashByHash
    <3> QED BY <3>1, <3>2 DEF Backed
  <2> QED BY <2>1, <2>2
<1>11. PaidForInFlight'
  BY <1>1, <1>6, PaidStays
<1>12. CreditCovered'
  <2>1. paid[g] >= PayPrice
    BY <1>1 DEF PaidForInFlight, Owing
  <2>2. new.hash = g /\ new.tier = tier /\ new.what = what
        /\ new.asked = req[w].tier
    OBVIOUS
  <2> HIDE DEF new, g
  <2>3. /\ paid[new.hash] >= PayPrice
        /\ new.tier # NoTier => paid[new.hash] >= TierAmount[new.tier]
        /\ new.what = "subscription" => new.asked = "monthly"
    BY <2>1, <2>2 DEF g
  <2> QED BY <1>1, <1>4, <2>3 DEF CreditCovered
<1>13. CreditsBacked' /\ RowsBounded'
  BY <1>9, <1>10 DEF CreditsBacked, RowsBounded, Backed, Bounded
<1> QED BY <1>5, <1>7, <1>11, <1>12, <1>13 DEF Kept

\* Recording: the row comes first, then the credit it backs.
LEMMA RecordStep ==
  ASSUME LaneInv, NEW w \in Worker, Record(w)
  PROVE  LaneInv'
<1> DEFINE g == req[w].item.hash
<1>1. TypeOK /\ CreditsBacked /\ RowsBounded /\ PaidForInFlight /\ CreditCovered
  BY DEF LaneInv
<1>2. /\ req[w].pc = "record" /\ rows' = [rows EXCEPT ![g] = @ + 1]
      /\ GoTo(w, "credit")
      /\ UNCHANGED <<paid, latest, holder, begun, credits, given>>
  BY DEF Record
<1>3. req[w] \in Request /\ req[w] # Idle
  BY <1>1, <1>2 DEF TypeOK, Idle
<1>4. g \in Hash
  BY <1>3 DEF Request, Item
<1>5. PICK x \in Request : /\ req' = [req EXCEPT ![w] = x] /\ x.pc = "credit"
                           /\ x.item = req[w].item
  BY <1>1, <1>2, <1>3, GoesOn DEF Steps
<1>6. /\ rows'[g] = rows[g] + 1
      /\ \A h \in Hash : h # g => rows'[h] = rows[h]
      /\ \A h \in Hash : rows[h] \in Nat /\ credits[h] \in Nat
  BY <1>1, <1>2, <1>4 DEF TypeOK
<1>7. ASSUME NEW h \in Hash
      PROVE  /\ \A v \in Worker : v # w =>
                  /\ v \in Recording(h)' <=> v \in Recording(h)
                  /\ v \in Crediting(h)' <=> v \in Crediting(h)
             /\ w \notin Recording(h)' /\ w \notin Crediting(h)
             /\ w \in Recording(h) <=> h = g
             /\ w \in Crediting(h)' <=> h = g
             /\ Recording(h) \subseteq Worker /\ Recording(h)' \subseteq Worker
             /\ Crediting(h) \subseteq Worker /\ Crediting(h)' \subseteq Worker
  <2>1. \A v \in Worker : v # w =>
          /\ v \in Recording(h)' <=> v \in Recording(h)
          /\ v \in Crediting(h)' <=> v \in Crediting(h)
    BY <1>1, <1>5, OneMoves
  <2>2. /\ w \notin Crediting(h)
        /\ w \in Recording(h) <=> h = g
    BY <1>2 DEF Recording, Crediting, Working
  <2>3. /\ w \notin Recording(h)'
        /\ w \in Crediting(h)' <=> h = g
    <3>1. x.item.hash = g /\ x.pc = "credit" /\ x.pc # "record"
      BY <1>5
    <3>2. w \in Recording(h)' <=> x.pc = "record" /\ x.item.hash = h
      BY <1>1, <1>5, OneMoves
    <3>3. w \in Crediting(h)'
            <=> x.pc \in {"credit", "insert", "advance"} /\ x.item.hash = h
      BY <1>1, <1>5, OneMoves
    <3> HIDE DEF g
    <3> QED BY <3>1, <3>2, <3>3
  <2>4. /\ Recording(h) \subseteq Worker /\ Recording(h)' \subseteq Worker
        /\ Crediting(h) \subseteq Worker /\ Crediting(h)' \subseteq Worker
    BY DEF Recording, Crediting
  <2> QED BY <2>1, <2>2, <2>3, <2>4
<1>8. ASSUME NEW h \in Hash PROVE Backed(h)' /\ Bounded(h)'
  <2>1. Backed(h) /\ Bounded(h)
    BY <1>1, HashByHash
  <2>2. CASE h = g
    <3>1. Crediting(h)' = Crediting(h) \cup {w}
      BY <1>7, <2>2
    <3>2. Recording(h)' = Recording(h) \ {w}
      BY <1>7, <2>2
    <3>3. Cardinality(Crediting(h)') = Cardinality(Crediting(h)) + 1
      BY <1>7, <3>1, CountsAreNumbers, FS_AddElement
    <3>4. Cardinality(Recording(h)') = Cardinality(Recording(h)) - 1
      BY <1>7, <2>2, <3>2, CountsAreNumbers, FS_RemoveElement
    <3>8. /\ rows'[h] = rows[h] + 1 /\ rows[h] \in Nat
          /\ credits'[h] = credits[h] /\ credits[h] \in Nat
      BY <1>2, <1>6, <2>2
    <3>5. Backed(h)'
      BY <2>1, <3>8, <3>3, CountsAreNumbers DEF Backed
    <3>6. rows[h] + 1 + (Cardinality(Recording(h)) - 1) <= Cardinality(Worker)
      BY <2>1, <3>8, CountsAreNumbers DEF Bounded
    <3>7. Bounded(h)'
      BY <3>8, <3>4, <3>6, CountsAreNumbers DEF Bounded
    <3> QED BY <3>5, <3>7
  <2>3. CASE h # g
    <3>4. w \notin Crediting(h)' /\ w \notin Recording(h)
      BY <1>7, <2>3
    <3>1. Crediting(h)' = Crediting(h)
      <4>1. /\ Crediting(h) \subseteq Worker /\ Crediting(h)' \subseteq Worker
            /\ w \notin Crediting(h)
            /\ \A v \in Worker : v # w =>
                 (v \in Crediting(h)' <=> v \in Crediting(h))
        BY <1>7
      <4> QED BY <3>4, <4>1
    <3>2. Recording(h)' = Recording(h)
      <4>1. /\ Recording(h) \subseteq Worker /\ Recording(h)' \subseteq Worker
            /\ w \notin Recording(h)'
            /\ \A v \in Worker : v # w =>
                 (v \in Recording(h)' <=> v \in Recording(h))
        BY <1>7
      <4> QED BY <3>4, <4>1
    <3>3. rows'[h] = rows[h] /\ credits'[h] = credits[h]
      BY <1>2, <1>6, <2>3
    <3> QED BY <2>1, <3>1, <3>2, <3>3 DEF Backed, Bounded
  <2> QED BY <2>2, <2>3
<1>9. CreditsBacked' /\ RowsBounded'
  BY <1>8 DEF CreditsBacked, RowsBounded, Backed, Bounded
<1>10. PaidForInFlight'
  <2>1. paid[x.item.hash] # 0 /\ paid[x.item.hash] >= PayPrice
    BY <1>1, <1>2, <1>5 DEF PaidForInFlight
  <2> QED BY <1>1, <1>2, <1>5, <2>1, PaidStays
<1>11. CreditCovered'
  BY <1>1, <1>2 DEF CreditCovered
<1>12. TypeOK'
  <2>1. rows' \in [Hash -> Nat]
    BY <1>1, <1>2, <1>4 DEF TypeOK
  <2>2. req' \in [Worker -> Request \cup {Idle}]
    BY <1>1, <1>5 DEF TypeOK
  <2> QED BY <1>1, <1>2, <2>1, <2>2 DEF TypeOK
<1> QED BY <1>9, <1>10, <1>11, <1>12 DEF LaneInv

\* A step that leaves the ledgers alone and moves one request.
LEMMA OnlyRequests ==
  ASSUME LaneInv, Kept, UNCHANGED <<paid, rows, latest, holder, begun, credits,
                                    given>>
  PROVE  LaneInv'
<1>1. TypeOK'
  BY DEF LaneInv, TypeOK, Kept
<1> QED BY <1>1 DEF LaneInv, Kept

LEMMA LookupStep ==
  ASSUME LaneInv, NEW w \in Worker, Lookup(w)
  PROVE  LaneInv'
<1>1. TypeOK /\ req[w] # Idle
  BY DEF LaneInv, Lookup, Idle
<1>2. CASE EndItem(w)
  BY <1>1, <1>2, EndKeeps, OnlyRequests DEF Lookup
<1>3. CASE GoTo(w, "verify")
  <2>1. PICK x \in Request : req' = [req EXCEPT ![w] = x] /\ x.pc = "verify"
    BY <1>1, <1>3, GoesOn DEF Steps
  <2>2. Kept
    BY <2>1, MoveKeeps DEF Lookup, Owing
  <2> QED BY <2>2, OnlyRequests DEF Lookup
<1> QED BY <1>2, <1>3 DEF Lookup

LEMMA VerifyStep ==
  ASSUME LaneInv, NEW w \in Worker, Verify(w)
  PROVE  LaneInv'
<1>1. TypeOK /\ req[w] # Idle
  BY DEF LaneInv, Verify, Idle
<1>2. CASE EndItem(w)
  BY <1>1, <1>2, EndKeeps, OnlyRequests DEF Verify
<1>3. CASE /\ paid[req[w].item.hash] >= PayPrice /\ paid[req[w].item.hash] # 0
           /\ GoTo(w, "check")
  <2>1. PICK x \in Request : /\ req' = [req EXCEPT ![w] = x] /\ x.pc = "check"
                             /\ x.item = req[w].item
    BY <1>1, <1>3, GoesOn DEF Steps
  <2>2. Kept
    BY <1>3, <2>1, MoveKeeps DEF Verify, Owing
  <2> QED BY <2>2, OnlyRequests DEF Verify
<1> QED BY <1>2, <1>3 DEF Verify

LEMMA CheckStep ==
  ASSUME LaneInv, NEW w \in Worker, Check(w)
  PROVE  LaneInv'
<1>1. TypeOK /\ req[w] # Idle /\ req[w].pc = "check" /\ PaidForInFlight
  BY DEF LaneInv, Check, Idle
<1>2. CASE EndItem(w)
  BY <1>1, <1>2, EndKeeps, OnlyRequests DEF Check
<1>3. CASE ~(rows[req[w].item.hash] > 0) /\ GoTo(w, "record")
  <2>1. PICK x \in Request : /\ req' = [req EXCEPT ![w] = x] /\ x.pc = "record"
                             /\ x.item = req[w].item
    BY <1>1, <1>3, GoesOn DEF Steps
  <2>2. req[w] \in Request
    BY <1>1 DEF TypeOK
  <2>3. rows[req[w].item.hash] \in Nat
    BY <1>1, <2>2 DEF TypeOK, Request, Item
  <2>4. rows[x.item.hash] = 0
    BY <1>3, <2>1, <2>3
  <2>5. paid[x.item.hash] # 0 /\ paid[x.item.hash] >= PayPrice
    BY <1>1, <2>1 DEF PaidForInFlight
  <2>6. Kept
    BY <2>1, <2>4, <2>5, MoveKeeps DEF Check, Owing
  <2> QED BY <2>6, OnlyRequests DEF Check
<1> QED BY <1>2, <1>3 DEF Check

-----------------------------------------------------------------------------
(* Tiers *)

\* The best PAYG bundle an amount of at least PAY_PRICE covers is covered.
LEMMA BestIsCovered ==
  ASSUME NEW amount \in Nat, amount >= PayPrice
  PROVE  BestCovered(amount) \in Payg /\ amount >= TierAmount[BestCovered(amount)]
<1> DEFINE covered == {t \in Payg : amount >= TierAmount[t]}
<1>1. Payg = {"payg5", "payg50"} /\ TierAmount["payg5"] = 1000
      /\ TierAmount["payg50"] = 8000
  BY DEF Payg, Tier, TierAmount
<1>2. Cheapest \in covered
  BY <1>1 DEF Cheapest
<1>3. \E t \in covered : \A u \in covered : TierAmount[u] <= TierAmount[t]
  <2>1. CASE amount >= 8000
    BY <1>1, <2>1
  <2>2. CASE ~(amount >= 8000)
    BY <1>1, <1>2, <2>2
  <2> QED BY <2>1, <2>2
<1>4. BestCovered(amount) \in covered
  BY <1>2, <1>3 DEF BestCovered
<1> QED BY <1>4

\* What a claim is credited is a tier its amount covers; a subscription is what
\* the client declared.
LEMMA TierIsCovered ==
  ASSUME NEW asked \in Tier \cup {NoTier}, NEW amount \in Nat,
         amount >= PayPrice
  PROVE  LET tier == TierFor(asked, amount)
         IN /\ tier \in Tier /\ tier # NoTier
            /\ amount >= TierAmount[tier]
            /\ tier = "monthly" => asked = "monthly"
<1>1. BestCovered(amount) \in Payg /\ amount >= TierAmount[BestCovered(amount)]
  BY BestIsCovered
<1>2. Tier = {"payg5", "payg50", "monthly"} /\ Payg = Tier \ {"monthly"}
      /\ NoTier = "none"
  BY DEF Tier, Payg, TierAmount, NoTier
<1>3. CASE asked # NoTier /\ amount >= TierAmount[asked]
  BY <1>2, <1>3 DEF TierFor
<1>4. CASE ~(asked # NoTier /\ amount >= TierAmount[asked])
  BY <1>1, <1>2, <1>4 DEF TierFor
<1> QED BY <1>3, <1>4

\* A request that owes a credit presents a settlement that was paid for.
LEMMA OwingIsPaid ==
  ASSUME LaneInv, NEW w \in Worker, req[w].pc \in Owing
  PROVE  /\ req[w] \in Request /\ req[w] # Idle
         /\ req[w].item \in Item /\ req[w].item.hash \in Hash
         /\ req[w].tier \in Tier \cup {NoTier}
         /\ paid[req[w].item.hash] \in Nat
         /\ paid[req[w].item.hash] # 0
         /\ paid[req[w].item.hash] >= PayPrice
<1>1. TypeOK /\ PaidForInFlight
  BY DEF LaneInv
<1>2. req[w] \in Request /\ req[w] # Idle
  BY <1>1 DEF TypeOK, Idle, Owing
<1>3. /\ req[w].item \in Item /\ req[w].item.hash \in Hash
      /\ req[w].tier \in Tier \cup {NoTier}
  BY <1>2 DEF Request, Item
<1>4. paid[req[w].item.hash] \in Nat
  <2>1. paid[req[w].item.hash] \in Amount \cup {0}
    BY <1>1, <1>3 DEF TypeOK
  <2>2. Amount \cup {0} \subseteq Nat
    OBVIOUS
  <2> QED BY <2>1, <2>2
<1>5. /\ paid[req[w].item.hash] # 0
      /\ paid[req[w].item.hash] >= PayPrice
  BY <1>1 DEF PaidForInFlight, Owing
<1> QED BY <1>2, <1>3, <1>4, <1>5

-----------------------------------------------------------------------------
(* The credits *)

LEMMA CreditPassStep ==
  ASSUME LaneInv, NEW w \in Worker, CreditPass(w)
  PROVE  LaneInv'
<1> DEFINE tier == IF req[w].lane = "claim"
                   THEN TierFor(req[w].tier, paid[req[w].item.hash])
                   ELSE NoTier
<1>1. /\ req[w].pc \in Owing
      /\ Give(w, "pass", tier, 0) /\ EndItem(w)
      /\ UNCHANGED <<paid, rows, latest, holder, begun>>
  BY DEF CreditPass, Owing
<1>2. /\ tier \in Tier \cup {NoTier}
      /\ tier # NoTier => paid[req[w].item.hash] >= TierAmount[tier]
  BY <1>1, OwingIsPaid, TierIsCovered
<1> HIDE DEF tier
<1>3. 0 \in 0..MaxSubs
  OBVIOUS
<1>4. Kept /\ credits' \in [Hash -> Nat] /\ given' \subseteq Credit
  BY <1>1, <1>2, <1>3, GiveKeeps
<1>5. TypeOK'
  BY <1>1, <1>4 DEF LaneInv, TypeOK, Kept
<1> QED BY <1>4, <1>5 DEF LaneInv, Kept

LEMMA CreditSubscriptionStep ==
  ASSUME LaneInv, NEW w \in Worker, CreditSubscription(w)
  PROVE  LaneInv'
<1> DEFINE g == req[w].item.hash
<1>1. /\ req[w].pc \in Owing /\ TypeOK
      /\ TierFor(req[w].tier, paid[g]) = "monthly"
      /\ latest' = [latest EXCEPT ![req[w].item.subject] = 0]
      /\ GoTo(w, "insert")
      /\ UNCHANGED <<paid, rows, holder, begun, credits, given>>
  BY DEF CreditSubscription, Owing, LaneInv
<1>2. /\ req[w] \in Request /\ req[w] # Idle /\ req[w].item \in Item
      /\ paid[g] \in Nat /\ paid[g] # 0 /\ paid[g] >= PayPrice
      /\ req[w].tier \in Tier \cup {NoTier}
  BY <1>1, OwingIsPaid
<1>3. paid[g] >= TierAmount["monthly"] /\ req[w].tier = "monthly"
  BY <1>1, <1>2, TierIsCovered
<1>4. PICK x \in Request : /\ req' = [req EXCEPT ![w] = x] /\ x.pc = "insert"
                           /\ x.item = req[w].item /\ x.tier = req[w].tier
  BY <1>1, <1>2, GoesOn DEF Steps
<1>5. Kept
  BY <1>1, <1>2, <1>3, <1>4, MoveKeeps
<1>6. /\ latest' \in [Subject -> 0..MaxSubs]
      /\ \A s \in Subject : latest'[s] = 0 \/ latest'[s] = latest[s]
  <2>1. latest \in [Subject -> 0..MaxSubs] /\ 0 \in 0..MaxSubs
    BY <1>1 DEF TypeOK
  <2> QED BY <1>1, <2>1
<1>7. TypeOK'
  <2>1. \A s \in Subject : latest'[s] # 0 =>
          latest'[s] <= Len(holder) /\ holder[latest'[s]] = s
    BY <1>1, <1>6 DEF TypeOK
  <2>2. /\ paid' \in [Hash -> Amount \cup {0}] /\ rows' \in [Hash -> Nat]
        /\ holder' \in Seq(Subject) /\ Len(holder') <= MaxSubs
        /\ begun' \in 0..MaxRequests /\ credits' \in [Hash -> Nat]
        /\ given' \subseteq Credit /\ holder' = holder
    BY <1>1 DEF TypeOK
  <2> QED BY <1>5, <1>6, <2>1, <2>2 DEF TypeOK, Kept
<1> QED BY <1>5, <1>7 DEF LaneInv, Kept

LEMMA InsertSubscriptionStep ==
  ASSUME LaneInv, NEW w \in Worker, InsertSubscription(w)
  PROVE  LaneInv'
<1> DEFINE n == Len(holder) + 1
           s == req[w].item.subject
<1>1. /\ req[w].pc = "insert" /\ req[w].pc \in Owing /\ Len(holder) < MaxSubs
      /\ holder' = Append(holder, s)
      /\ latest' = [latest EXCEPT ![s] = Len(holder')]
      /\ Give(w, "subscription", "monthly", Len(holder')) /\ EndItem(w)
      /\ UNCHANGED <<paid, rows, begun>>
  BY DEF InsertSubscription, Owing
<1>2. TypeOK /\ PaidForInFlight
  BY DEF LaneInv
<1>3. /\ req[w].item \in Item /\ s \in Subject
      /\ paid[req[w].item.hash] >= TierAmount["monthly"]
      /\ req[w].tier = "monthly"
  BY <1>1, <1>2, OwingIsPaid DEF PaidForInFlight, Item
<1>4. /\ holder \in Seq(Subject) /\ Len(holder) \in Nat
      /\ holder' \in Seq(Subject) /\ Len(holder') = n
      /\ n \in 1..MaxSubs /\ n \in 0..MaxSubs
      /\ holder'[n] = s
      /\ \A i \in 1..Len(holder) : holder'[i] = holder[i]
  BY <1>1, <1>2, <1>3 DEF TypeOK
<1>5. "monthly" \in Tier \cup {NoTier}
  BY DEF Tier, TierAmount
<1>6. Kept /\ credits' \in [Hash -> Nat] /\ given' \subseteq Credit
  BY <1>1, <1>3, <1>4, <1>5, GiveKeeps
<1> HIDE DEF n
<1>7. /\ latest' \in [Subject -> 0..MaxSubs]
      /\ latest'[s] = n
      /\ \A r \in Subject : r # s => latest'[r] = latest[r]
  BY <1>1, <1>2, <1>3, <1>4 DEF TypeOK
<1>8. ASSUME NEW r \in Subject, latest'[r] # 0
      PROVE  latest'[r] <= Len(holder') /\ holder'[latest'[r]] = r
  <2>1. CASE r = s
    BY <1>4, <1>7, <2>1
  <2>2. CASE r # s
    <3>1. /\ latest'[r] = latest[r] /\ latest[r] \in 0..MaxSubs
          /\ latest[r] <= Len(holder) /\ holder[latest[r]] = r
      BY <1>2, <1>7, <1>8, <2>2 DEF TypeOK
    <3> QED BY <1>4, <1>8, <3>1 DEF n
  <2> QED BY <2>1, <2>2
<1>9. TypeOK'
  <2>1. /\ paid' \in [Hash -> Amount \cup {0}] /\ rows' \in [Hash -> Nat]
        /\ begun' \in 0..MaxRequests
    BY <1>1, <1>2 DEF TypeOK
  <2>2. Len(holder') <= MaxSubs
    BY <1>4
  <2> QED BY <1>4, <1>6, <1>7, <1>8, <2>1, <2>2 DEF TypeOK, Kept
<1> QED BY <1>6, <1>9 DEF LaneInv, Kept

LEMMA CreditPeriodStep ==
  ASSUME LaneInv, NEW w \in Worker, CreditPeriod(w)
  PROVE  LaneInv'
<1> DEFINE i == latest[req[w].item.subject]
           x == [req[w] EXCEPT !.pc = "advance", !.row = i]
<1>1. /\ req[w].pc \in Owing /\ TypeOK
      /\ UNCHANGED <<paid, rows, latest, holder, begun, credits, given>>
      /\ EndItem(w) \/ req' = [req EXCEPT ![w] = x]
  <2>1. req[w].pc \in Owing /\ TypeOK
    BY DEF CreditPeriod, Owing, LaneInv
  <2>2. req[w] \in Request /\ req[w] # Idle
    BY <2>1, OwingIsPaid
  <2>3. EndItem(w) \/ req' = [req EXCEPT ![w].pc = "advance", ![w].row = i]
    BY DEF CreditPeriod
  <2>4. [req EXCEPT ![w].pc = "advance", ![w].row = i] = [req EXCEPT ![w] = x]
    BY <2>1, <2>2 DEF TypeOK, Request
  <2> QED BY <2>1, <2>3, <2>4 DEF CreditPeriod
<1>2. /\ req[w] \in Request /\ req[w] # Idle /\ req[w].item \in Item
      /\ paid[req[w].item.hash] # 0 /\ paid[req[w].item.hash] >= PayPrice
  BY <1>1, OwingIsPaid
<1>3. i \in 0..MaxSubs
  BY <1>1, <1>2 DEF TypeOK, Item
<1> HIDE DEF i
<1>4. x \in Request /\ x.pc = "advance" /\ x.item = req[w].item
  <2>1. [req[w] EXCEPT !.pc = "advance"] \in Request
    BY <1>2 DEF Request, Steps
  <2>2. ASSUME NEW r \in Request PROVE [r EXCEPT !.row = i] \in Request
    BY <1>3 DEF Request
  <2>3. x = [[req[w] EXCEPT !.pc = "advance"] EXCEPT !.row = i]
    BY <1>2 DEF Request
  <2>4. x.pc = "advance" /\ x.item = req[w].item
    BY <1>2 DEF Request
  <2> QED BY <2>1, <2>2, <2>3, <2>4
<1> HIDE DEF x
<1>5. CASE EndItem(w)
  BY <1>1, <1>2, <1>5, EndKeeps, OnlyRequests
<1>6. CASE req' = [req EXCEPT ![w] = x]
  <2>1. Kept
    BY <1>1, <1>2, <1>4, <1>6, MoveKeeps DEF Owing
  <2> QED BY <1>1, <2>1, OnlyRequests
<1> QED BY <1>1, <1>5, <1>6

LEMMA AdvancePeriodStep ==
  ASSUME LaneInv, NEW w \in Worker, AdvancePeriod(w)
  PROVE  LaneInv'
<1>1. /\ req[w].pc \in Owing
      /\ Give(w, "period", NoTier, req[w].row) /\ EndItem(w)
      /\ UNCHANGED <<paid, rows, latest, holder, begun>>
  BY DEF AdvancePeriod, Owing
<1>2. req[w].row \in 0..MaxSubs
  BY <1>1, OwingIsPaid DEF Request
<1>3. Kept /\ credits' \in [Hash -> Nat] /\ given' \subseteq Credit
  BY <1>1, <1>2, GiveKeeps
<1>4. TypeOK'
  BY <1>1, <1>3 DEF LaneInv, TypeOK, Kept
<1> QED BY <1>3, <1>4 DEF LaneInv, Kept

-----------------------------------------------------------------------------
(* Failures, the clients and the chain *)

LEMMA FailureStep ==
  ASSUME LaneInv, NEW w \in Worker, ItemFails(w) \/ Die(w)
  PROVE  LaneInv'
<1>1. CASE ItemFails(w)
  BY <1>1, EndKeeps, OnlyRequests DEF ItemFails
<1>2. CASE Die(w)
  <2>1. Idle.pc = "idle"
    BY DEF Idle
  <2>2. Kept
    BY <1>2, <2>1, MoveKeeps DEF Die, Owing
  <2> QED BY <1>2, <2>2, OnlyRequests DEF Die
<1> QED BY <1>1, <1>2

\* A request that is presented starts before the check.
LEMMA PresentStep ==
  ASSUME LaneInv, NEW w \in Worker, NEW pc \in {"lookup", "verify"},
         NEW lane \in Lane, NEW item \in Item, NEW tier \in Tier \cup {NoTier},
         NEW rest \in Seq(Item), Present(w, pc, lane, item, tier, rest)
  PROVE  LaneInv'
<1> DEFINE x == [pc |-> pc, lane |-> lane, item |-> item, tier |-> tier,
                 row |-> 0, rest |-> rest]
<1>1. x \in Request /\ x.pc = pc
  BY DEF Request, Steps
<1>2. /\ req' = [req EXCEPT ![w] = x]
      /\ begun < MaxRequests /\ begun' = begun + 1
      /\ UNCHANGED <<paid, rows, latest, holder, credits, given>>
  BY DEF Present
<1> HIDE DEF x
<1>3. Kept
  BY <1>1, <1>2, MoveKeeps DEF Owing
<1>4. begun' \in 0..MaxRequests
  BY <1>2 DEF LaneInv, TypeOK
<1>5. TypeOK'
  BY <1>2, <1>3, <1>4 DEF LaneInv, TypeOK, Kept
<1> QED BY <1>3, <1>5 DEF LaneInv, Kept

LEMMA BeginStep ==
  ASSUME LaneInv, NEW w \in Worker, Begin(w)
  PROVE  LaneInv'
<1>1. \A s \in Subject, h \in Hash : For(s, h) \in Item
  <2>1. 0 \in 0..MaxSubs
    OBVIOUS
  <2> QED BY <2>1 DEF For, Item
<1>2. <<>> \in Seq(Item) /\ NoTier \in Tier \cup {NoTier}
  OBVIOUS
<1>3. ASSUME NEW s \in Subject, NEW h \in Hash,
             NEW asked \in Tier \cup {NoTier}, BeginClaim(w, s, h, asked)
      PROVE  LaneInv'
  BY <1>1, <1>2, <1>3, PresentStep DEF BeginClaim, Lane
<1>4. ASSUME NEW s \in Subject, NEW h \in Hash, BeginResolve(w, s, h)
      PROVE  LaneInv'
  BY <1>1, <1>2, <1>4, PresentStep DEF BeginResolve, Lane
<1>5. ASSUME NEW s \in Subject, NEW h \in Hash, BeginRenew(w, s, h)
      PROVE  LaneInv'
  BY <1>1, <1>2, <1>5, PresentStep DEF BeginRenew, Lane
<1>6. ASSUME NEW items \in Collections, BeginCollect(w, items)
      PROVE  LaneInv'
  <2>1. items \in Seq(Item) /\ items # <<>>
    <3>1. Due \subseteq Item
      BY DEF Due
    <3>2. CASE \E y \in Due : items = <<y>>
      BY <3>1, <3>2
    <3>3. CASE items \in Due \X Due
      <4>1. PICK y \in Item, z \in Item : items = <<y, z>>
        BY <3>1, <3>3
      <4> QED BY <4>1
    <3> QED BY <3>2, <3>3 DEF Collections
  <2>2. Head(items) \in Item /\ Tail(items) \in Seq(Item)
    BY <2>1
  <2> QED BY <1>2, <1>6, <2>2, PresentStep DEF BeginCollect, Lane
<1>7. ASSUME NEW s \in Subject, NEW h \in Hash, BeginVault(w, s, h)
      PROVE  LaneInv'
  BY <1>1, <1>2, <1>7, PresentStep DEF BeginVault, Lane
<1> QED BY <1>3, <1>4, <1>5, <1>6, <1>7 DEF Begin

LEMMA MineStep ==
  ASSUME LaneInv, NEW h \in Hash, NEW amount \in Amount, Mine(h, amount)
  PROVE  LaneInv'
<1>1. TypeOK /\ PaidForInFlight /\ CreditCovered /\ CreditsBacked /\ RowsBounded
  BY DEF LaneInv
<1>2. /\ paid[h] = 0 /\ paid' = [paid EXCEPT ![h] = amount]
      /\ UNCHANGED <<rows, latest, holder, req, begun, credits, given>>
  BY DEF Mine
<1>3. paid' \in [Hash -> Amount \cup {0}]
  BY <1>1, <1>2 DEF TypeOK
<1>4. \A g \in Hash : paid[g] # 0 => paid'[g] = paid[g]
  BY <1>1, <1>2 DEF TypeOK
<1>5. TypeOK'
  BY <1>1, <1>2, <1>3 DEF TypeOK
<1>6. PaidForInFlight'
  <2> SUFFICES ASSUME NEW w \in Worker,
                      req[w].pc \in {"check", "record", "credit", "insert",
                                     "advance"}
               PROVE  paid'[req[w].item.hash] = paid[req[w].item.hash]
    BY <1>1, <1>2 DEF PaidForInFlight
  <2>1. req[w] \in Request
    BY <1>1 DEF TypeOK, Idle
  <2>2. req[w].item.hash \in Hash /\ paid[req[w].item.hash] # 0
    BY <1>1, <2>1 DEF PaidForInFlight, Request, Item
  <2> QED BY <1>4, <2>2
<1>7. CreditCovered'
  <2> SUFFICES ASSUME NEW g \in given PROVE paid'[g.hash] = paid[g.hash]
    BY <1>1, <1>2 DEF CreditCovered
  <2>1. g.hash \in Hash /\ paid[g.hash] >= PayPrice
    BY <1>1 DEF TypeOK, Credit, CreditCovered
  <2>2. PayPrice >= 1000
    BY DEF TierAmount, Cheapest
  <2>3. paid[g.hash] # 0
    BY <2>1, <2>2
  <2> QED BY <1>4, <2>1, <2>3
<1>8. CreditsBacked' /\ RowsBounded'
  BY <1>1, <1>2
     DEF CreditsBacked, RowsBounded, Recording, Crediting, Working
<1> QED BY <1>5, <1>6, <1>7, <1>8 DEF LaneInv

LEMMA CancelStep ==
  ASSUME LaneInv, NEW s \in Subject, Cancel(s)
  PROVE  LaneInv'
<1>1. /\ latest' = [latest EXCEPT ![s] = 0]
      /\ UNCHANGED <<paid, rows, holder, req, begun, credits, given>>
  BY DEF Cancel
<1>2. TypeOK
  BY DEF LaneInv
<1>3. /\ latest' \in [Subject -> 0..MaxSubs]
      /\ \A r \in Subject : latest'[r] = 0 \/ latest'[r] = latest[r]
  <2>1. latest \in [Subject -> 0..MaxSubs] /\ 0 \in 0..MaxSubs
    BY <1>2 DEF TypeOK
  <2> QED BY <1>1, <2>1
<1>4. TypeOK'
  BY <1>1, <1>2, <1>3 DEF TypeOK
<1>5. CreditsBacked' /\ RowsBounded' /\ PaidForInFlight' /\ CreditCovered'
  BY <1>1 DEF LaneInv, CreditsBacked, RowsBounded, PaidForInFlight,
              CreditCovered, Recording, Crediting, Working
<1> QED BY <1>4, <1>5 DEF LaneInv

LEMMA LaneStep == LaneInv /\ [Next]_vars => LaneInv'
<1> SUFFICES ASSUME LaneInv, [Next]_vars PROVE LaneInv'
  OBVIOUS
<1>1. CASE Next
  BY <1>1, MineStep, CancelStep, BeginStep, FailureStep, LookupStep,
     VerifyStep, CheckStep, RecordStep, CreditPassStep, CreditSubscriptionStep,
     InsertSubscriptionStep, CreditPeriodStep, AdvancePeriodStep
     DEF Next, Step
<1>2. CASE UNCHANGED vars
  BY <1>2 DEF vars, LaneInv, TypeOK, CreditsBacked, RowsBounded,
              PaidForInFlight, CreditCovered, Recording, Crediting, Working
<1> QED BY <1>1, <1>2

-----------------------------------------------------------------------------
(* Theorems *)

\* The inductive invariant holds in every reachable state.
THEOREM LaneInvariant == Spec => []LaneInv
<1> QED BY LaneInit, LaneStep, PTL DEF Spec

\* Every variable keeps its type.
THEOREM TypeCorrect == Spec => []TypeOK
<1>1. LaneInv => TypeOK
  BY DEF LaneInv
<1> QED BY <1>1, LaneInvariant, PTL

\* Nothing is given without a ledger row of its own.
THEOREM CreditsAlwaysBacked == Spec => []CreditsBacked
<1>1. LaneInv => CreditsBacked
  BY DEF LaneInv
<1> QED BY <1>1, LaneInvariant, PTL

\* A settlement is recorded at most once per request that can be in flight.
THEOREM RowsAlwaysBounded == Spec => []RowsBounded
<1>1. LaneInv => RowsBounded
  BY DEF LaneInv
<1> QED BY <1>1, LaneInvariant, PTL

\* What is given was paid for and covered.
THEOREM CreditsAlwaysCovered == Spec => []CreditCovered
<1>1. LaneInv => CreditCovered
  BY DEF LaneInv
<1> QED BY <1>1, LaneInvariant, PTL

\* Only the check leads to the recording of a settlement.
LEMMA WhoRecords ==
  ASSUME LaneInv, NEW w \in Worker,
         Begin(w) \/ Step(w) \/ ItemFails(w) \/ Die(w)
  PROVE  \E x : /\ req' = [req EXCEPT ![w] = x]
                /\ x.pc = "record" => /\ rows[x.item.hash] = 0
                                      /\ UNCHANGED rows
<1>1. TypeOK
  BY DEF LaneInv
<1>2. Idle.pc = "idle"
  BY DEF Idle
<1>3. ASSUME req[w] # Idle, EndItem(w)
      PROVE  \E x : req' = [req EXCEPT ![w] = x] /\ x.pc # "record"
  <2>1. PICK x : /\ req' = [req EXCEPT ![w] = x] /\ x.pc \in {"idle", "verify"}
    BY <1>1, <1>3, ItemEnds
  <2>2. x.pc # "record"
    BY <2>1
  <2> QED BY <2>1, <2>2
<1>4. ASSUME NEW pc \in Steps \ {"record"}, req[w] # Idle, GoTo(w, pc)
      PROVE  \E x : req' = [req EXCEPT ![w] = x] /\ x.pc # "record"
  BY <1>1, <1>4, GoesOn
<1>5. CASE Begin(w)
  <2>1. ASSUME NEW pc \in {"lookup", "verify"}, NEW lane, NEW item, NEW tier,
               NEW rest, Present(w, pc, lane, item, tier, rest)
        PROVE  \E x : req' = [req EXCEPT ![w] = x] /\ x.pc # "record"
    <3> DEFINE x == [pc |-> pc, lane |-> lane, item |-> item, tier |-> tier,
                     row |-> 0, rest |-> rest]
    <3>1. req' = [req EXCEPT ![w] = x] /\ x.pc = pc
      BY <2>1 DEF Present
    <3> QED BY <3>1
  <2> QED BY <1>5, <2>1 DEF Begin, BeginClaim, BeginResolve, BeginVault, BeginRenew,
                            BeginCollect
<1>6. CASE ItemFails(w)
  BY <1>3, <1>6 DEF ItemFails
<1>7. CASE Die(w)
  BY <1>2, <1>7 DEF Die
<1>8. CASE Lookup(w)
  BY <1>2, <1>3, <1>4, <1>8 DEF Lookup, Steps
<1>9. CASE Verify(w)
  BY <1>2, <1>3, <1>4, <1>9 DEF Verify, Steps
<1>10. CASE Check(w)
  <2>1. req[w] # Idle /\ UNCHANGED rows
    BY <1>2, <1>10 DEF Check
  <2>2. CASE EndItem(w)
    BY <1>3, <2>1, <2>2
  <2>3. CASE ~(rows[req[w].item.hash] > 0) /\ GoTo(w, "record")
    <3>1. PICK x \in Request : /\ req' = [req EXCEPT ![w] = x]
                               /\ x.item = req[w].item
      BY <1>1, <2>1, <2>3, GoesOn DEF Steps
    <3>2. req[w] \in Request
      BY <1>1, <2>1 DEF TypeOK
    <3>3. rows[req[w].item.hash] \in Nat
      BY <1>1, <3>2 DEF TypeOK, Request, Item
    <3>4. rows[x.item.hash] = 0
      BY <2>3, <3>1, <3>3
    <3> QED BY <2>1, <3>1, <3>4
  <2> QED BY <1>10, <2>2, <2>3 DEF Check
<1>11. CASE Record(w)
  BY <1>2, <1>4, <1>11 DEF Record, Steps
<1>12. CASE CreditPass(w)
  BY <1>2, <1>3, <1>12 DEF CreditPass
<1>13. CASE CreditSubscription(w)
  BY <1>2, <1>4, <1>13 DEF CreditSubscription, Steps
<1>14. CASE InsertSubscription(w)
  BY <1>2, <1>3, <1>14 DEF InsertSubscription
<1>15. CASE CreditPeriod(w)
  <2>1. req[w] # Idle /\ req[w] \in Request
    BY <1>1, <1>2, <1>15 DEF CreditPeriod, TypeOK
  <2>2. CASE EndItem(w)
    BY <1>3, <2>1, <2>2
  <2>3. CASE req' = [req EXCEPT ![w].pc = "advance",
                                ![w].row = latest[req[w].item.subject]]
    <3> DEFINE x == [req[w] EXCEPT !.pc = "advance",
                                   !.row = latest[req[w].item.subject]]
    <3>1. req' = [req EXCEPT ![w] = x]
      BY <1>1, <2>1, <2>3 DEF TypeOK, Request
    <3>2. x.pc = "advance"
      BY <2>1 DEF Request
    <3> QED BY <3>1, <3>2
  <2> QED BY <1>15, <2>2, <2>3 DEF CreditPeriod
<1>16. CASE AdvancePeriod(w)
  BY <1>2, <1>3, <1>16 DEF AdvancePeriod
<1> QED BY <1>5, <1>6, <1>7, <1>8, <1>9, <1>10, <1>11, <1>12, <1>13, <1>14,
           <1>15, <1>16 DEF Step

\* Once a settlement has a row, nobody new gets past the check.
THEOREM NobodyLate == Spec => LateRequestsStop
<1>1. LaneInv /\ [Next]_vars => [NoLatecomer]_vars
  <2> SUFFICES ASSUME LaneInv, Next, NEW h \in Hash
               PROVE  /\ rows[h] > 0 => Recording(h)' \subseteq Recording(h)
                      /\ rows'[h] >= rows[h]
    BY DEF NoLatecomer
  <2>1. TypeOK /\ rows[h] \in Nat
    BY DEF LaneInv, TypeOK
  <2>2. rows'[h] >= rows[h]
    <3>1. CASE UNCHANGED rows
      BY <2>1, <3>1
    <3>2. CASE \E w \in Worker : Record(w)
      BY <2>1, <3>2 DEF Record, TypeOK
    <3> QED BY <3>1, <3>2
            DEF Next, Mine, Cancel, Begin, BeginClaim, BeginResolve, BeginVault, BeginRenew,
                BeginCollect, Present, Step, Lookup, Verify, Check, CreditPass,
                CreditSubscription, InsertSubscription, CreditPeriod,
                AdvancePeriod, ItemFails, Die
  <2>3. ASSUME rows[h] > 0, NEW v \in Recording(h)' PROVE v \in Recording(h)
    <3>1. v \in Worker
      BY DEF Recording
    <3>2. CASE UNCHANGED req
      BY <3>2 DEF Recording, Working
    <3>3. ASSUME NEW w \in Worker, Begin(w) \/ Step(w) \/ ItemFails(w) \/ Die(w)
          PROVE  v \in Recording(h)
      <4>1. PICK x : /\ req' = [req EXCEPT ![w] = x]
                     /\ x.pc = "record" => rows[x.item.hash] = 0
        BY <3>3, WhoRecords
      <4>2. CASE v = w
        <5>1. x.pc = "record" /\ x.item.hash = h
          BY <2>1, <4>1, <4>2, OneMoves
        <5>2. rows[h] = 0
          BY <4>1, <5>1
        <5> QED BY <2>3, <5>2
      <4>3. CASE v # w
        BY <2>1, <3>1, <4>1, <4>3, OneMoves
      <4> QED BY <4>2, <4>3
    <3> QED BY <3>2, <3>3 DEF Next, Mine, Cancel
  <2> QED BY <2>2, <2>3
<1> QED BY <1>1, LaneInvariant, PTL DEF Spec, LateRequestsStop

-----------------------------------------------------------------------------
(* The promise *)

\* While a credit is owed the settlement has bought fewer than there are workers.
LEMMA OwedIsBounded ==
  ASSUME LaneInv, NEW w \in Worker, req[w].pc \in Owing
  PROVE  credits[req[w].item.hash] < Cardinality(Worker)
<1> DEFINE g == req[w].item.hash
<1>1. TypeOK /\ g \in Hash
  BY OwingIsPaid DEF LaneInv
<1>2. Backed(g) /\ Bounded(g)
  BY <1>1, HashByHash DEF LaneInv
<1>3. rows[g] \in Nat /\ credits[g] \in Nat
  BY <1>1 DEF TypeOK
<1>4. w \in Crediting(g)
  BY DEF Crediting, Working, Owing
<1>5. Cardinality(Crediting(g)) >= 1
  <2>1. IsFiniteSet(Crediting(g)) /\ Cardinality(Crediting(g)) \in Nat
    BY <1>1, CountsAreNumbers
  <2>2. Cardinality(Crediting(g)) # 0
    BY <1>4, <2>1, FS_EmptySet
  <2> QED BY <2>1, <2>2
<1>6. Cardinality(Worker) \in Nat
  BY LaneConstants, FS_CardinalityType
<1> HIDE DEF g
<1>7. credits[g] + Cardinality(Crediting(g)) <= rows[g] /\ rows[g] > 0
  BY <1>1, <1>2, <1>3, <1>5, CountsAreNumbers DEF Backed
<1>8. rows[g] <= Cardinality(Worker)
  BY <1>1, <1>2, <1>3, <1>6, <1>7, CountsAreNumbers DEF Bounded
<1>9. credits[g] < Cardinality(Worker)
  BY <1>1, <1>3, <1>5, <1>6, <1>7, <1>8, CountsAreNumbers
<1> QED BY <1>9 DEF g

LEMMA PromiseStep ==
  ASSUME LaneInv, [Next]_vars
  PROVE  [Promise!PromiseNext]_(Promise!promiseVars)
<1>1. ASSUME NEW w \in Worker, NEW what, NEW tier, NEW row,
             req[w].pc \in Owing, Give(w, what, tier, row), UNCHANGED paid
      PROVE  Promise!PromiseNext
  <2> DEFINE g == req[w].item.hash
  <2>1. g \in Hash /\ paid[g] >= PayPrice
    BY <1>1, OwingIsPaid
  <2>2. credits[g] < Cardinality(Worker)
    BY <1>1, OwedIsBounded
  <2>3. credits' = [credits EXCEPT ![g] = @ + 1]
    BY <1>1 DEF Give
  <2>4. Promise!Redeem(g)
    BY <1>1, <2>1, <2>2, <2>3 DEF Promise!Redeem
  <2> QED BY <2>1, <2>4 DEF Promise!PromiseNext
<1>2. ASSUME NEW h \in Hash, NEW amount \in Amount, Mine(h, amount)
      PROVE  Promise!PromiseNext
  <2>1. paid' = [paid EXCEPT ![h] = paid'[h]]
    BY <1>2 DEF Mine, LaneInv, TypeOK
  <2>2. Promise!Pay(h)
    BY <1>2, <2>1 DEF Mine, Promise!Pay
  <2> QED BY <2>2 DEF Promise!PromiseNext
<1>3. CASE UNCHANGED <<paid, credits>>
  BY <1>3 DEF Promise!promiseVars
<1>4. CASE \E w \in Worker : CreditPass(w)
  BY <1>1, <1>4 DEF CreditPass, Owing
<1>5. CASE \E w \in Worker : InsertSubscription(w)
  BY <1>1, <1>5 DEF InsertSubscription, Owing
<1>6. CASE \E w \in Worker : AdvancePeriod(w)
  BY <1>1, <1>6 DEF AdvancePeriod, Owing
<1> QED BY <1>2, <1>3, <1>4, <1>5, <1>6
        DEF Next, vars, Cancel, Begin, BeginClaim, BeginResolve, BeginVault, BeginRenew,
            BeginCollect, Present, Step, Lookup, Verify, Check, Record,
            CreditSubscription, CreditPeriod, ItemFails, Die

\* The lane implements the promise: a settlement buys at most one credit for
\* each worker, and only one that reaches the price.
THEOREM LaneKeepsPromise == Spec => KeepsPromise
<1>1. Init => Promise!PromiseInit
  BY DEF Init, Promise!PromiseInit
<1>2. LaneInv /\ [Next]_vars => [Promise!PromiseNext]_(Promise!promiseVars)
  BY PromiseStep
<1> QED BY <1>1, <1>2, LaneInvariant, PTL
        DEF Spec, KeepsPromise, Promise!PromiseSpec
=============================================================================
