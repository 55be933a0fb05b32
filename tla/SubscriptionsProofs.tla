------------------------- MODULE SubscriptionsProofs -------------------------
(***************************************************************************)
(* The safety properties of Subscriptions, proved for every number of rows,*)
(* requests, periods and days.  The account is backed and no time is given *)
(* away although the rows a request has found are as old as its snapshot;  *)
(* the inductive invariant says what of them is still true: they are rows  *)
(* that exist, looked up on a day that has come, and the date still to be  *)
(* written is no later than the periods sold allow.                        *)
(***************************************************************************)
EXTENDS Subscriptions, FiniteSetTheorems, SequenceTheorems, TLAPS

RowType == [status : {"absent", "active", "paused", "cancelled"},
            expires : Nat, renew : BOOLEAN, period : Periods \cup {0}]
AccountType == [status : {"expired", "active", "paused", "cancelled"},
                ends : Nat, renew : BOOLEAN]
JobType == [pc : {"idle", "plan", "select", "finish"}, kind : Kinds,
            period : Periods \cup {0}, expires : Nat,
            at : 0..LastDay, queue : Seq(Rows)]
TabType == [screen : {"closed", "open", "loading"}, waits : Sessions \cup {None},
            told : {"nothing", "activated", "already", "done", "failed"}]

Busy == {s \in Sessions : job[s].pc # "idle"}

(* The table is filled from its first row on, with room for the row of     *)
(* every request in progress: a new row never replaces another.            *)
Roomy ==
    /\ Stored = 1..Cardinality(Stored)
    /\ Cardinality(Stored) + Cardinality(Busy) <= MaxRows

(* What holds of the table and of the account: types, and the two          *)
(* properties as far as they are about stored dates.                       *)
TableInv ==
    /\ now \in 0..LastDay /\ granted \in Nat
    /\ rows \in [Rows -> RowType] /\ account \in AccountType
    /\ AccountBacked
    /\ \A r \in Rows : rows[r].expires <= Later(granted, now)

(* What holds of a request j: the rows it has found are there, and were    *)
(* looked up no later than now; the date it is to write gives no time away.*)
Sound(j) ==
    /\ j \in JobType
    /\ j.pc = "finish" => j.queue \in Seq(Stored) /\ j.at <= now
    /\ j.pc \in {"select", "finish"} => j.expires <= Later(granted, now) + j.period

IInv ==
    /\ TableInv
    /\ Roomy
    /\ tab \in TabType
    /\ job \in [Sessions -> JobType]
    /\ \A s \in Sessions : Sound(job[s])

-----------------------------------------------------------------------------
(* The operators.                                                          *)

(* The later of two days.                                                  *)
LEMMA LaterFacts ==
  ASSUME NEW a \in Nat, NEW b \in Nat
  PROVE  Later(a, b) \in Nat /\ a <= Later(a, b) /\ b <= Later(a, b)
  BY DEF Later

(* It does not become earlier when either day comes later.                 *)
LEMMA LaterGrows ==
  ASSUME NEW a \in Nat, NEW b \in Nat, NEW c \in Nat, NEW d \in Nat,
         a <= c, b <= d
  PROVE  Later(a, b) <= Later(c, d)
  BY DEF Later

(* A set of rows in any order is a sequence of them.                       *)
LEMMA InOrder ==
  ASSUME NEW S, IsFiniteSet(S), NEW q \in SetToSeqs(S)
  PROVE  q \in Seq(S)
  <1>1. Cardinality(S) \in Nat
    BY FS_CardinalityType
  <1>2. q \in [1..Cardinality(S) -> S]
    BY DEF SetToSeqs
  <1>3. [1..Cardinality(S) -> S] \in {[1..n -> S] : n \in Nat}
    BY <1>1
  <1>4. q \in UNION {[1..n -> S] : n \in Nat}
    BY <1>2, <1>3
  <1>5. Seq(S) = UNION {[1..n -> S] : n \in Nat}
    BY SeqDef, Zenon
  <1> QED BY <1>4, <1>5, Zenon

(* The rows that exist are finitely many, and so are the requests.         *)
LEMMA Finite ==
  /\ IsFiniteSet(Stored) /\ \A S \in SUBSET Stored : IsFiniteSet(S)
  /\ IsFiniteSet(Busy) /\ Stored \subseteq Rows
  /\ Cardinality(Stored) \in Nat /\ Cardinality(Busy) \in Nat
  <1>0. MaxRows \in Int /\ 1 \in Int
    BY PeriodsAssumption
  <1>1. IsFiniteSet(Rows) /\ Stored \in SUBSET Rows
    <2>1. IsFiniteSet(Rows)
      BY <1>0, FS_Interval, Zenon DEF Rows
    <2> QED BY <2>1, Zenon DEF Stored
  <1>2. IsFiniteSet(Stored) /\ \A S \in SUBSET Stored : IsFiniteSet(S)
    BY <1>1, FS_Subset
  <1>3. IsFiniteSet(Busy)
    BY PeriodsAssumption, FS_Subset DEF Busy
  <1> QED BY <1>1, <1>2, <1>3, FS_CardinalityType

(* What holds of a request goes on to hold while days pass, periods are    *)
(* sold and rows are added.                                                *)
LEMMA SoundKept ==
  ASSUME now \in Nat, now' \in Nat, granted \in Nat, granted' \in Nat,
         now <= now', granted <= granted', Stored \subseteq Stored',
         NEW j, Sound(j)
  PROVE  Sound(j)'
  <1>1. Later(granted, now) <= Later(granted', now')
        /\ Later(granted, now) \in Nat /\ Later(granted', now') \in Nat
    BY LaterGrows, LaterFacts
  <1>2. j \in JobType /\ j.expires \in Nat /\ j.period \in Nat /\ j.at \in Nat
    <2>1. j \in JobType
      BY DEF Sound
    <2>2. j.expires \in Nat /\ j.period \in Periods \cup {0} /\ j.at \in 0..LastDay
      BY <2>1 DEF JobType
    <2>3. Periods \cup {0} \subseteq Nat /\ 0..LastDay \subseteq Nat
      BY PeriodsAssumption
    <2> QED BY <2>1, <2>2, <2>3
  <1>3. j.queue \in Seq(Stored) => j.queue \in Seq(Stored')
    BY SeqMonotonic
  <1>4. j.pc \in {"select", "finish"} => j.expires <= Later(granted', now') + j.period
    BY <1>1, <1>2 DEF Sound
  <1>5. j.pc = "finish" => j.queue \in Seq(Stored') /\ j.at <= now'
    BY <1>2, <1>3 DEF Sound
  <1> QED BY <1>2, <1>4, <1>5 DEF Sound

(* A request at rest is sound.                                             *)
LEMMA RestingSound == Sound(Resting)
  <1>1. Resting \in JobType
    BY PeriodsAssumption DEF Resting, JobType, Kinds, Selling
  <1> QED BY <1>1 DEF Sound, Resting

(* The first row a request has found exists, and so do the others.         *)
LEMMA Heads ==
  ASSUME NEW S, NEW q \in Seq(S), q # <<>>
  PROVE  Head(q) \in S /\ Tail(q) \in Seq(S)
  BY HeadTailProperties

-----------------------------------------------------------------------------
(* The steps.                                                              *)

(* Which rows exist depends on their states only.                          *)
LEMMA SameRows ==
  ASSUME \A r \in Rows : rows'[r].status = "absent" <=> rows[r].status = "absent"
  PROVE  Stored' = Stored
  BY DEF Stored, Rows

(* A step of request s that adds no row, and no request unless there is    *)
(* room for it.                                                            *)
LEMMA RoomKept ==
  ASSUME IInv, NEW s \in Sessions, NEW j \in JobType, Stored' = Stored,
         job' = [job EXCEPT ![s] = j],
         job[s].pc = "idle" /\ j.pc # "idle" => Room
  PROVE  Roomy'
  <1>1. /\ Stored = 1..Cardinality(Stored)
        /\ Cardinality(Stored) + Cardinality(Busy) <= MaxRows
        /\ job \in [Sessions -> JobType] /\ MaxRows \in Nat
    BY PeriodsAssumption DEF IInv, Roomy
  <1>2. IsFiniteSet(Busy) /\ Cardinality(Stored) \in Nat /\ Cardinality(Busy) \in Nat
    BY Finite
  <1>3. CASE job[s].pc = "idle" /\ j.pc # "idle"
    <2>1. s \notin Busy /\ Busy' = Busy \cup {s}
      BY <1>1, <1>3 DEF Busy
    <2>2. Cardinality(Busy') = Cardinality(Busy) + 1
      BY <1>2, <2>1, FS_AddElement
    <2>3. Cardinality(Stored) + Cardinality(Busy) < MaxRows
      BY <1>3 DEF Room, Busy
    <2>4. Cardinality(Stored) + Cardinality(Busy') <= MaxRows
      BY <1>1, <1>2, <2>2, <2>3
    <2> QED BY <1>1, <2>4, Zenon DEF Roomy
  <1>4. CASE ~(job[s].pc = "idle" /\ j.pc # "idle")
    <2>1. Busy' \subseteq Busy
      BY <1>1, <1>4 DEF Busy
    <2>2. Cardinality(Busy') <= Cardinality(Busy) /\ Cardinality(Busy') \in Nat
      BY <1>2, <2>1, FS_Subset, FS_CardinalityType
    <2>3. Cardinality(Stored) + Cardinality(Busy') <= MaxRows
      BY <1>1, <1>2, <2>2
    <2> QED BY <1>1, <2>3, Zenon DEF Roomy
  <1> QED BY <1>3, <1>4

(* A step of request s that leaves the table as sound as it was, goes on   *)
(* from no earlier a day and sells no less, and leaves the request sound.  *)
LEMMA Moves ==
  ASSUME IInv, NEW s \in Sessions, NEW j,
         now' = now, granted' \in Nat, granted <= granted', Stored \subseteq Stored',
         job' = [job EXCEPT ![s] = j], Sound(j)',
         TableInv', Roomy', tab' \in TabType
  PROVE  IInv'
  <1>1. /\ job \in [Sessions -> JobType] /\ \A i \in Sessions : Sound(job[i])
        /\ now \in Nat /\ granted \in Nat
    BY PeriodsAssumption DEF IInv, TableInv
  <1>2. j \in JobType
    BY DEF Sound
  <1>3. job' \in [Sessions -> JobType]
    BY <1>1, <1>2
  <1>4. ASSUME NEW i \in Sessions
        PROVE  /\ job'[i] \in JobType
               /\ job'[i].pc = "finish" => job'[i].queue \in Seq(Stored') /\ job'[i].at <= now'
               /\ job'[i].pc \in {"select", "finish"}
                  => job'[i].expires <= Later(granted', now') + job'[i].period
    <2>1. CASE i = s
      <3>1. job'[i] = j
        BY <1>1, <2>1
      <3> QED BY <3>1 DEF Sound
    <2>2. CASE i # s
      <3>1. job'[i] = job[i]
        BY <1>1, <2>2
      <3>2. \A k : Sound(k) =>
              /\ k \in JobType
              /\ k.pc = "finish" => k.queue \in Seq(Stored') /\ k.at <= now'
              /\ k.pc \in {"select", "finish"}
                 => k.expires <= Later(granted', now') + k.period
        <4> SUFFICES ASSUME NEW k, Sound(k) PROVE Sound(k)'
          BY DEF Sound
        <4>1. now <= now' /\ now' \in Nat
          BY <1>1
        <4> QED BY <1>1, <4>1, SoundKept
      <3> QED BY <1>1, <3>1, <3>2
    <2> QED BY <2>1, <2>2
  <1> QED BY <1>3, <1>4 DEF IInv, Sound

(* A step of request s that writes nothing but the request, and the tab.   *)
LEMMA Quiet ==
  ASSUME IInv, NEW s \in Sessions, NEW j, Sound(j),
         UNCHANGED <<now, rows, account, granted>>,
         job' = [job EXCEPT ![s] = j],
         job[s].pc = "idle" /\ j.pc # "idle" => Room,
         tab' \in TabType
  PROVE  IInv'
  <1>1. Stored' = Stored /\ Stored \subseteq Stored'
    BY DEF Stored
  <1>2. j \in JobType
    BY DEF Sound
  <1>3. Roomy'
    BY <1>1, <1>2, RoomKept
  <1>4. TableInv'
    BY <1>1 DEF IInv, TableInv, AccountBacked, Admits
  <1>5. Sound(j)'
    BY <1>1 DEF Sound
  <1>6. now' = now /\ granted' \in Nat /\ granted <= granted'
    BY DEF IInv, TableInv
  <1> QED BY <1>1, <1>3, <1>4, <1>5, <1>6, Moves

LEMMA AskKeeps ==
  ASSUME IInv, NEW s \in Sessions, NEW kind \in Kinds, NEW period \in Periods,
         Ask(s, kind, period), tab' \in TabType
  PROVE  IInv'
  <1> DEFINE j == [Resting EXCEPT !.pc = IF kind \in Selling THEN "plan" ELSE "select",
                                  !.kind = kind, !.period = period]
  <1>1. Resting \in JobType
    BY RestingSound DEF Sound
  <1>2. j \in JobType /\ j.expires = 0 /\ j.period = period /\ j.pc \in {"plan", "select"}
    BY <1>1 DEF Resting, JobType
  <1>3. period \in Nat
    BY PeriodsAssumption
  <1>4. 0 <= Later(granted, now) + period
    <2>1. now \in Nat /\ granted \in Nat
      BY PeriodsAssumption DEF IInv, TableInv
    <2>2. Later(granted, now) \in Nat
      BY <2>1, LaterFacts
    <2> QED BY <1>3, <2>2
  <1>5. Room /\ job' = [job EXCEPT ![s] = j] /\ UNCHANGED <<now, rows, account, granted>>
    BY DEF Ask
  <1> HIDE DEF j
  <1>6. Sound(j)
    BY <1>2, <1>4 DEF Sound
  <1> QED BY <1>5, <1>6, Quiet

LEMMA PlanKeeps ==
  ASSUME IInv, NEW s \in Sessions, Plan(s)
  PROVE  IInv'
  <1>1. PICK known \in LatestFirst(Stored) :
           LET fresh  == job[s].kind = "create" \/ known = <<>>
               latest == rows[Head(known)]
               period == IF fresh THEN job[s].period ELSE latest.period
               base   == IF fresh THEN now ELSE Later(latest.expires, now) IN
           job' = [job EXCEPT ![s].pc = "select", ![s].period = period,
                              ![s].expires = base + period]
    BY DEF Plan
  <1> DEFINE fresh  == job[s].kind = "create" \/ known = <<>>
             latest == rows[Head(known)]
             period == IF fresh THEN job[s].period ELSE latest.period
             base   == IF fresh THEN now ELSE Later(latest.expires, now)
             day    == base + period
             j == [job[s] EXCEPT !.pc = "select", !.period = period,
                                 !.expires = day]
  <1>2. /\ job[s].pc = "plan" /\ UNCHANGED <<now, rows, account, tab, granted>>
        /\ job[s] \in JobType /\ now \in Nat /\ granted \in Nat
        /\ rows \in [Rows -> RowType]
        /\ \A r \in Rows : rows[r].expires <= Later(granted, now)
        /\ tab \in TabType /\ job \in [Sessions -> JobType]
    BY PeriodsAssumption DEF Plan, IInv, TableInv
  <1>3. Later(granted, now) \in Nat /\ now <= Later(granted, now)
    BY <1>2, LaterFacts
  <1>4. period \in Periods \cup {0} /\ base \in Nat /\ base <= Later(granted, now)
    <2>1. CASE fresh
      BY <1>2, <1>3, <2>1 DEF JobType
    <2>2. CASE ~fresh
      <3>1. known \in Seq(Stored) /\ known # <<>>
        <4>1. known \in SetToSeqs(Stored)
          BY DEF LatestFirst
        <4> QED BY <2>2, <4>1, Finite, InOrder
      <3>2. Head(known) \in Rows
        BY <3>1, Heads, Finite
      <3>3. latest \in RowType /\ latest.expires <= Later(granted, now)
        BY <1>2, <3>2
      <3>4. latest.expires \in Nat /\ latest.period \in Periods \cup {0}
        BY <3>3 DEF RowType
      <3>5. Later(latest.expires, now) \in Nat
            /\ Later(latest.expires, now) <= Later(granted, now)
        BY <1>2, <1>3, <3>3, <3>4 DEF Later
      <3> QED BY <2>2, <3>4, <3>5
    <2> QED BY <2>1, <2>2
  <1> HIDE DEF period, base
  <1>5. Periods \cup {0} \subseteq Nat
    BY PeriodsAssumption
  <1>6. day \in Nat /\ day <= Later(granted, now) + period
    BY <1>3, <1>4, <1>5
  <1>9. job' = [job EXCEPT ![s].pc = "select", ![s].period = period, ![s].expires = day]
    BY <1>1, Zenon DEF period, base
  <1> HIDE DEF day
  <1>7. Sound(j)
    <2>1. /\ j \in JobType /\ j.pc = "select"
          /\ j.expires = day /\ j.period = period
      <3>1. job[s] \in JobType /\ period \in Periods \cup {0} /\ day \in Nat
        BY <1>2, <1>4, <1>6
      <3> QED BY <3>1 DEF JobType
    <2> HIDE DEF j
    <2> QED BY <1>6, <2>1 DEF Sound
  <1>8. job' = [job EXCEPT ![s] = j]
    BY <1>2, <1>9
  <1> QED BY <1>2, <1>7, <1>8, Quiet

LEMMA SelectKeeps ==
  ASSUME IInv, NEW s \in Sessions, Select(s)
  PROVE  IInv'
  <1> DEFINE found == {r \in Stored : Matches(job[s].kind, r, now)}
  <1>1. PICK queue \in SetToSeqs(found) :
           job' = [job EXCEPT ![s].pc = "finish", ![s].at = now, ![s].queue = queue]
    BY DEF Select, LatestFirst
  <1> DEFINE j == [job[s] EXCEPT !.pc = "finish", !.at = now, !.queue = queue]
  <1>2. /\ job[s].pc = "select" /\ UNCHANGED <<now, rows, account, tab, granted>>
        /\ Sound(job[s]) /\ now \in 0..LastDay /\ tab \in TabType
        /\ job \in [Sessions -> JobType]
    BY DEF Select, IInv, TableInv
  <1>3. queue \in Seq(Stored) /\ queue \in Seq(Rows)
    <2>1. found \subseteq Stored /\ IsFiniteSet(found) /\ Stored \subseteq Rows
      BY Finite
    <2>2. queue \in Seq(found)
      BY <2>1, InOrder
    <2> QED BY <2>1, <2>2, SeqMonotonic
  <1>4. /\ j \in JobType /\ j.pc = "finish" /\ j.at = now /\ j.queue = queue
        /\ j.expires = job[s].expires /\ j.period = job[s].period
    BY <1>2, <1>3 DEF JobType, Sound
  <1>5. Sound(j)
    BY <1>2, <1>3, <1>4, PeriodsAssumption DEF Sound
  <1>6. job' = [job EXCEPT ![s] = j]
    BY <1>1, <1>2
  <1> HIDE DEF j
  <1> QED BY <1>2, <1>5, <1>6, Quiet

LEMMA PassOverKeeps ==
  ASSUME IInv, NEW s \in Sessions, PassOver(s)
  PROVE  IInv'
  <1> DEFINE j == [job[s] EXCEPT !.queue = Tail(@)]
  <1>1. /\ job[s].pc = "finish" /\ job[s].queue # <<>>
        /\ UNCHANGED <<now, rows, account, tab, granted>>
        /\ Sound(job[s]) /\ tab \in TabType /\ job \in [Sessions -> JobType]
        /\ job' = [job EXCEPT ![s] = j]
    BY DEF PassOver, IInv
  <1>2. job[s].queue \in Seq(Stored) /\ job[s] \in JobType /\ job[s].at <= now
    BY <1>1 DEF Sound
  <1>3. Tail(job[s].queue) \in Seq(Stored) /\ Tail(job[s].queue) \in Seq(Rows)
    BY <1>1, <1>2, Heads, SeqMonotonic, Finite
  <1>4. /\ j \in JobType /\ j.pc = "finish" /\ j.at = job[s].at
        /\ j.queue = Tail(job[s].queue)
        /\ j.expires = job[s].expires /\ j.period = job[s].period
    BY <1>1, <1>2, <1>3 DEF JobType
  <1>5. Sound(j)
    BY <1>1, <1>2, <1>3, <1>4 DEF Sound
  <1> HIDE DEF j
  <1> QED BY <1>1, <1>5, Quiet

-----------------------------------------------------------------------------
(* The ends of a request.                                                  *)

LEMMA TellTyped ==
  ASSUME tab \in TabType, NEW s \in Sessions,
         NEW outcome \in {"activated", "already", "done", "failed"}, Tell(s, outcome)
  PROVE  tab' \in TabType
  BY DEF Tell, TabType

(* An end that writes nothing.                                             *)
LEMMA CloseKeeps ==
  ASSUME IInv, NEW s \in Sessions,
         NEW outcome \in {"activated", "already", "done", "failed"},
         Close(s, outcome), UNCHANGED <<rows, account, granted>>
  PROVE  IInv'
  <1>1. tab' \in TabType
    BY TellTyped DEF Close, IInv
  <1>2. job' = [job EXCEPT ![s] = Resting] /\ UNCHANGED <<now, rows, account, granted>>
    BY DEF Close
  <1>3. Resting.pc = "idle"
    BY DEF Resting
  <1> QED BY <1>1, <1>2, <1>3, RestingSound, Quiet

(* The row a request has locked exists, and matches still.                 *)
LEMMA LockedRow ==
  ASSUME IInv, NEW s \in Sessions, NEW kinds, Locked(s, kinds)
  PROVE  /\ Head(job[s].queue) \in Stored /\ Head(job[s].queue) \in Rows
         /\ job[s].at \in Nat /\ job[s].at <= now
         /\ job[s].expires \in Nat /\ job[s].period \in Periods \cup {0}
         /\ job[s].expires <= Later(granted, now) + job[s].period
  <1>1. job[s].pc = "finish" /\ job[s].queue # <<>> /\ Sound(job[s])
    BY DEF Locked, IInv
  <1>2. job[s].queue \in Seq(Stored) /\ job[s] \in JobType
        /\ job[s].at <= now
        /\ job[s].expires <= Later(granted, now) + job[s].period
    BY <1>1 DEF Sound
  <1>3. Head(job[s].queue) \in Stored /\ Head(job[s].queue) \in Rows
    BY <1>1, <1>2, Heads, Finite
  <1>4. /\ job[s].at \in Nat
        /\ job[s].expires \in Nat /\ job[s].period \in Periods \cup {0}
    BY <1>2, PeriodsAssumption DEF JobType
  <1> QED BY <1>2, <1>3, <1>4

(* An end that writes one row that exists, and the account.                *)
LEMMA WriteKeeps ==
  ASSUME IInv, NEW s \in Sessions, NEW r \in Stored, NEW row \in RowType,
         NEW outcome \in {"activated", "already", "done", "failed"},
         row.status # "absent", rows' = [rows EXCEPT ![r] = row],
         granted' \in Nat, granted <= granted', account' \in AccountType,
         row.expires <= Later(granted', now), AccountBacked', Close(s, outcome)
  PROVE  IInv'
  <1>1. /\ rows \in [Rows -> RowType] /\ r \in Rows /\ rows[r].status # "absent"
        /\ now \in 0..LastDay /\ now \in Nat /\ granted \in Nat /\ now' = now
        /\ \A k \in Rows : rows[k].expires <= Later(granted, now)
        /\ job' = [job EXCEPT ![s] = Resting]
    BY PeriodsAssumption DEF IInv, TableInv, Stored, Close
  <1>2. rows' \in [Rows -> RowType] /\ rows'[r] = row
        /\ \A k \in Rows \ {r} : rows'[k] = rows[k]
    BY <1>1
  <1>3. Stored' = Stored
    BY <1>1, <1>2, SameRows
  <1>4. \A k \in Rows : rows'[k].expires <= Later(granted', now)
    <2>1. Later(granted, now) <= Later(granted', now)
          /\ Later(granted, now) \in Nat /\ Later(granted', now) \in Nat
      <3>1. granted \in Nat /\ granted' \in Nat /\ now \in Nat
            /\ granted <= granted' /\ now <= now
        BY <1>1
      <3> QED BY <3>1, LaterGrows, LaterFacts
    <2>2. \A k \in Rows : rows[k].expires \in Nat
      BY <1>1 DEF RowType
    <2>3. TAKE k \in Rows
    <2>4. CASE k = r
      <3>1. rows'[k].expires = row.expires
        BY <1>2, <2>4
      <3> QED BY <3>1
    <2>5. CASE k # r
      <3>1. rows'[k].expires = rows[k].expires
        BY <1>2, <2>5
      <3>2. rows[k].expires <= Later(granted, now) /\ rows[k].expires \in Nat
        BY <1>1, <2>2
      <3> QED BY <2>1, <3>1, <3>2
    <2> QED BY <2>4, <2>5
  <1>5. TableInv'
    BY <1>1, <1>2, <1>4 DEF TableInv, RowType, AccountType, Rows, Later
  <1>6. Resting \in JobType /\ Resting.pc = "idle"
    BY RestingSound DEF Resting, Sound
  <1>7. Roomy'
    BY <1>1, <1>3, <1>6, RoomKept
  <1>8. Sound(Resting)'
    BY <1>6 DEF Sound, JobType, Kinds, Rows
  <1>9. tab' \in TabType
    BY TellTyped DEF Close, IInv
  <1> QED BY <1>1, <1>3, <1>5, <1>7, <1>8, <1>9, Moves

(* Selling the period planned, into a row r that has its date: granted     *)
(* goes on from today at the earliest, so the date stays within it.        *)
LEMMA Sold ==
  ASSUME IInv, NEW s \in Sessions, job[s].pc = "finish"
  PROVE  /\ granted \in Nat /\ now \in Nat
         /\ Later(granted, now) + job[s].period \in Nat
         /\ granted <= Later(granted, now) + job[s].period
         /\ job[s].expires \in Nat /\ job[s].period \in Periods \cup {0}
         /\ job[s].expires <= Later(Later(granted, now) + job[s].period, now)
  <1>1. /\ granted \in Nat /\ now \in Nat /\ Sound(job[s])
    BY PeriodsAssumption DEF IInv, TableInv
  <1>2. job[s] \in JobType /\ job[s].expires <= Later(granted, now) + job[s].period
    BY <1>1 DEF Sound
  <1>3. job[s].expires \in Nat /\ job[s].period \in Periods \cup {0}
        /\ job[s].period \in Nat
    <2>1. job[s].expires \in Nat /\ job[s].period \in Periods \cup {0}
      BY <1>2 DEF JobType
    <2>2. Periods \cup {0} \subseteq Nat
      BY PeriodsAssumption
    <2> QED BY <2>1, <2>2
  <1>4. Later(granted, now) \in Nat /\ granted <= Later(granted, now)
    BY <1>1, LaterFacts
  <1> DEFINE sold == Later(granted, now)
             period == job[s].period
             after == sold + period
  <1>5. after \in Nat /\ granted <= after
    <2>1. sold \in Nat /\ granted <= sold /\ period \in Nat
      BY <1>3, <1>4
    <2> HIDE DEF sold, period
    <2> QED BY <1>1, <2>1
  <1>6. after <= Later(after, now) /\ Later(after, now) \in Nat
    BY <1>1, <1>5, LaterFacts
  <1>7. job[s].expires <= Later(after, now)
    BY <1>2, <1>3, <1>5, <1>6
  <1> QED BY <1>1, <1>3, <1>5, <1>7

LEMMA RenewKeeps ==
  ASSUME IInv, NEW s \in Sessions, Renew(s)
  PROVE  IInv'
  <1> DEFINE r == Head(job[s].queue)
             row == NewRow(job[s].expires, rows[r].period)
  <1>1. /\ Locked(s, {"renew"}) /\ rows' = [rows EXCEPT ![r] = row]
        /\ account' = ActiveUntil(row.expires)
        /\ granted' = Later(granted, now) + job[s].period
        /\ Close(s, "activated")
    BY Zenon DEF Renew, Sell
  <1>2. r \in Stored /\ r \in Rows
    BY <1>1, LockedRow
  <1>3. job[s].pc = "finish" /\ rows \in [Rows -> RowType] /\ now' = now
    BY <1>1 DEF Locked, IInv, TableInv, Close
  <1>4. /\ granted' \in Nat /\ granted <= granted'
        /\ job[s].expires \in Nat /\ job[s].expires <= Later(granted', now)
    BY <1>1, <1>3, Sold
  <1>5. /\ row \in RowType /\ row.status = "active" /\ row.renew = TRUE
        /\ row.expires = job[s].expires
    BY <1>2, <1>3, <1>4 DEF RowType, NewRow
  <1>6. account' \in AccountType /\ account'.ends = job[s].expires
    BY <1>1, <1>4, <1>5 DEF ActiveUntil, AccountType
  <1>7. rows'[r] = row
    BY <1>1, <1>2, <1>3
  <1>8. AccountBacked'
    <2>1. r \in Stored'
      BY <1>2, <1>5, <1>7 DEF Stored, Rows
    <2> QED BY <1>5, <1>6, <1>7, <2>1 DEF AccountBacked
  <1> HIDE DEF row, r
  <1> QED BY <1>1, <1>2, <1>4, <1>5, <1>6, <1>8, WriteKeeps

LEMMA PauseKeeps ==
  ASSUME IInv, NEW s \in Sessions, Pause(s)
  PROVE  IInv'
  <1> DEFINE r == Head(job[s].queue)
             row == [rows[r] EXCEPT !.status = "paused", !.renew = FALSE]
  <1>1. /\ Locked(s, {"pause"}) /\ Close(s, "done") /\ granted' = granted
        /\ account' = [account EXCEPT !.status = "paused", !.renew = FALSE]
    BY DEF Pause
  <1>2. r \in Stored /\ r \in Rows
    BY <1>1, LockedRow
  <1>3. /\ rows \in [Rows -> RowType] /\ account \in AccountType /\ granted \in Nat
        /\ \A k \in Rows : rows[k].expires <= Later(granted, now)
    BY DEF IInv, TableInv
  <1>4. rows' = [rows EXCEPT ![r] = row]
    BY <1>2, <1>3 DEF Pause
  <1>5. row \in RowType /\ row.status = "paused" /\ row.expires = rows[r].expires
    BY <1>2, <1>3 DEF RowType
  <1>6. account' \in AccountType /\ account'.status = "paused"
    BY <1>1, <1>3 DEF AccountType
  <1>7. AccountBacked'
    BY <1>6 DEF AccountBacked, Admits
  <1>8. granted' \in Nat /\ granted <= granted' /\ row.expires <= Later(granted', now)
    BY <1>1, <1>2, <1>3, <1>5
  <1> HIDE DEF row, r
  <1> QED BY <1>1, <1>2, <1>4, <1>5, <1>6, <1>7, <1>8, WriteKeeps

LEMMA CancelKeeps ==
  ASSUME IInv, NEW s \in Sessions, Cancel(s)
  PROVE  IInv'
  <1> DEFINE r == Head(job[s].queue)
             row == [rows[r] EXCEPT !.status = "cancelled", !.expires = job[s].at,
                                    !.renew = FALSE]
  <1>1. /\ Locked(s, {"cancel"}) /\ Close(s, "done") /\ granted' = granted
        /\ account' = [status |-> "cancelled", ends |-> job[s].at, renew |-> FALSE]
    BY DEF Cancel
  <1>2. r \in Stored /\ r \in Rows /\ job[s].at \in Nat /\ job[s].at <= now
    BY <1>1, LockedRow
  <1>3. /\ rows \in [Rows -> RowType] /\ account \in AccountType /\ granted \in Nat
        /\ now \in Nat
    BY PeriodsAssumption DEF IInv, TableInv
  <1>4. rows' = [rows EXCEPT ![r] = row]
    BY <1>2, <1>3 DEF Cancel
  <1>5. row \in RowType /\ row.status = "cancelled" /\ row.expires = job[s].at
    BY <1>2, <1>3 DEF RowType
  <1>6. account' \in AccountType /\ account'.status = "cancelled"
    BY <1>1, <1>2 DEF AccountType
  <1>7. AccountBacked'
    BY <1>6 DEF AccountBacked, Admits
  <1>8. granted' \in Nat /\ granted <= granted' /\ row.expires <= Later(granted', now)
    BY <1>1, <1>2, <1>3, <1>5, LaterFacts
  <1> HIDE DEF row, r
  <1> QED BY <1>1, <1>2, <1>4, <1>5, <1>6, <1>7, <1>8, WriteKeeps

LEMMA StopKeeps ==
  ASSUME IInv, NEW s \in Sessions, Stop(s)
  PROVE  IInv'
  <1> DEFINE r == Head(job[s].queue)
             row == [rows[r] EXCEPT !.renew = FALSE]
  <1>1. /\ Locked(s, {"stop"}) /\ Close(s, "done") /\ granted' = granted
        /\ account' = [account EXCEPT !.renew = FALSE]
    BY DEF Stop
  <1>2. r \in Stored /\ r \in Rows
    BY <1>1, LockedRow
  <1>3. /\ rows \in [Rows -> RowType] /\ account \in AccountType /\ granted \in Nat
        /\ \A k \in Rows : rows[k].expires <= Later(granted, now)
        /\ AccountBacked
    BY DEF IInv, TableInv
  <1>4. rows' = [rows EXCEPT ![r] = row]
    BY <1>2, <1>3 DEF Stop
  <1>5. /\ row \in RowType /\ row.expires = rows[r].expires
        /\ row.status = rows[r].status /\ row.status # "absent"
    BY <1>2, <1>3 DEF RowType, Stored
  <1>6. /\ account' \in AccountType /\ account'.status = account.status
        /\ account'.ends = account.ends /\ account'.renew = FALSE
    BY <1>1, <1>3 DEF AccountType
  <1>7. \A k \in Rows : rows'[k].status = rows[k].status
                        /\ rows'[k].expires = rows[k].expires
    BY <1>2, <1>3, <1>4, <1>5
  <1>8. AccountBacked'
    <2>1. Stored' = Stored
      BY <1>7, SameRows
    <2>2. Stored \subseteq Rows
      BY DEF Stored
    <2> QED BY <1>3, <1>6, <1>7, <2>1, <2>2 DEF AccountBacked, Admits
  <1>9. granted' \in Nat /\ granted <= granted' /\ row.expires <= Later(granted', now)
    BY <1>1, <1>2, <1>3, <1>5
  <1> HIDE DEF row, r
  <1> QED BY <1>1, <1>2, <1>4, <1>5, <1>6, <1>8, <1>9, WriteKeeps

(* A new subscription takes the next row, which the request in progress    *)
(* has kept free; its own end frees no room and takes none.                *)
LEMMA CreateKeeps ==
  ASSUME IInv, NEW s \in Sessions, Create(s)
  PROVE  IInv'
  <1> DEFINE n == Cardinality(Stored)
             r == n + 1
             row == NewRow(job[s].expires, job[s].period)
  <1>1. /\ job[s].pc = "finish" /\ job' = [job EXCEPT ![s] = Resting]
        /\ rows' = [rows EXCEPT ![r] = row]
        /\ account' = ActiveUntil(row.expires)
        /\ granted' = Later(granted, now) + job[s].period
        /\ Tell(s, "activated") /\ now' = now
    BY Zenon DEF Create, NothingFound, Sell, Close
  <1>2. /\ rows \in [Rows -> RowType] /\ Stored = 1..n /\ n + Cardinality(Busy) <= MaxRows
        /\ \A k \in Rows : rows[k].expires <= Later(granted, now)
        /\ job \in [Sessions -> JobType] /\ now \in 0..LastDay
    BY Zenon DEF IInv, TableInv, Roomy
  <1>3. /\ IsFiniteSet(Stored) /\ IsFiniteSet(Busy) /\ n \in Nat /\ Cardinality(Busy) \in Nat
    BY Finite, Zenon
  <1>4. s \in Busy /\ Busy' = Busy \ {s}
    BY <1>1, <1>2 DEF Busy, Resting
  <1>5. Cardinality(Busy') = Cardinality(Busy) - 1 /\ Cardinality(Busy') \in Nat
    <2>1. IsFiniteSet(Busy') /\ Cardinality(Busy') = Cardinality(Busy) - 1
      BY <1>3, <1>4, FS_RemoveElement
    <2> QED BY <2>1, FS_CardinalityType
  <1>6. r \in Rows /\ r \notin Stored /\ r \in Nat /\ r + Cardinality(Busy') <= MaxRows
    <2> HIDE DEF n
    <2> QED BY <1>2, <1>3, <1>5, PeriodsAssumption DEF Rows
  <1>7. /\ granted' \in Nat /\ granted <= granted' /\ granted \in Nat /\ now \in Nat
        /\ job[s].expires \in Nat /\ job[s].expires <= Later(granted', now)
        /\ job[s].period \in Periods \cup {0}
    BY <1>1, Sold
  <1>8. /\ row \in RowType /\ row.status = "active" /\ row.renew = TRUE
        /\ row.expires = job[s].expires
    BY <1>7 DEF RowType, NewRow
  <1>9. /\ account' \in AccountType /\ account'.ends = job[s].expires
    BY <1>1, <1>7, <1>8 DEF ActiveUntil, AccountType
  <1> HIDE DEF row, r
  <1>10. /\ rows' \in [Rows -> RowType] /\ rows'[r] = row
         /\ \A k \in Rows \ {r} : rows'[k] = rows[k]
    BY <1>1, <1>2, <1>6, <1>8
  <1>11. Stored' = Stored \cup {r}
    BY <1>6, <1>8, <1>10 DEF Stored, Rows
  <1>12. Roomy'
    <2>1. Cardinality(Stored') = r
      <3>1. Cardinality(Stored \cup {r}) = n + 1
        BY <1>3, <1>6, FS_AddElement
      <3> QED BY <1>11, <3>1 DEF r
    <2>2. 1..r = (1..n) \cup {r}
      BY <1>3 DEF r
    <2> QED BY <1>2, <1>6, <1>11, <2>1, <2>2, Zenon DEF Roomy
  <1>13. AccountBacked'
    BY <1>8, <1>9, <1>10, <1>11 DEF AccountBacked
  <1>14. \A k \in Rows : rows'[k].expires <= Later(granted', now)
    <2>1. Later(granted, now) <= Later(granted', now)
          /\ Later(granted, now) \in Nat /\ Later(granted', now) \in Nat
      <3>1. granted \in Nat /\ granted' \in Nat /\ now \in Nat
            /\ granted <= granted' /\ now <= now
        BY <1>7
      <3> QED BY <3>1, LaterGrows, LaterFacts
    <2>2. TAKE k \in Rows
    <2>3. CASE k = r
      <3>1. rows'[k].expires = job[s].expires
        BY <1>8, <1>10, <2>3
      <3> QED BY <1>7, <3>1
    <2>4. CASE k # r
      <3>1. rows'[k].expires = rows[k].expires
        BY <1>10, <2>4
      <3>2. rows[k].expires <= Later(granted, now) /\ rows[k].expires \in Nat
        BY <1>2 DEF RowType
      <3> QED BY <2>1, <3>1, <3>2
    <2> QED BY <2>3, <2>4
  <1>15. TableInv'
    BY <1>1, <1>2, <1>7, <1>9, <1>10, <1>13, <1>14 DEF TableInv, RowType, AccountType, Rows, Later
  <1>16. Sound(Resting)'
    <2>1. Resting \in JobType /\ Resting.pc = "idle"
      BY RestingSound DEF Resting, Sound
    <2> QED BY <2>1 DEF Sound, JobType, Kinds, Rows
  <1>17. tab' \in TabType
    BY <1>1, TellTyped DEF IInv
  <1> QED BY <1>1, <1>7, <1>11, <1>12, <1>15, <1>16, <1>17, Moves

-----------------------------------------------------------------------------
(* The steps that serve no request.                                        *)

LEMMA NextDayKeeps ==
  ASSUME IInv, NextDay
  PROVE  IInv'
  <1>1. /\ now \in 0..LastDay /\ now < LastDay /\ now' = now + 1
        /\ UNCHANGED <<rows, account, job, tab, granted>> /\ granted \in Nat
        /\ rows \in [Rows -> RowType]
        /\ \A r \in Rows : rows[r].expires <= Later(granted, now)
    BY DEF NextDay, IInv, TableInv
  <1>2. now \in Nat /\ now' \in Nat /\ now <= now' /\ now' \in 0..LastDay
    BY <1>1, PeriodsAssumption
  <1>3. Later(granted, now) <= Later(granted, now')
        /\ Later(granted, now) \in Nat /\ Later(granted, now') \in Nat
    <2>1. granted \in Nat /\ granted <= granted /\ now \in Nat /\ now' \in Nat
          /\ now <= now'
      BY <1>1, <1>2
    <2> QED BY <2>1, LaterGrows, LaterFacts
  <1>4. Stored' = Stored /\ Stored \subseteq Stored' /\ Busy' = Busy
    BY <1>1 DEF Stored, Busy
  <1>5. TableInv'
    <2>1. \A r \in Rows : rows[r].expires <= Later(granted, now')
      <3>1. \A r \in Rows : rows[r].expires \in Nat
        BY <1>1 DEF RowType
      <3> QED BY <1>1, <1>3, <3>1
    <2> QED BY <1>1, <1>2, <1>4, <2>1 DEF IInv, TableInv, AccountBacked, Admits
  <1>6. Roomy'
    BY <1>4 DEF IInv, Roomy
  <1>7. ASSUME NEW s \in Sessions PROVE Sound(job[s])'
    <2>1. \A k : Sound(k) => Sound(k)'
      BY <1>1, <1>2, <1>4, SoundKept
    <2> QED BY <1>1, <2>1 DEF IInv, Sound
  <1> QED BY <1>1, <1>5, <1>6, <1>7 DEF IInv

LEMMA TabKeeps ==
  ASSUME IInv, tab' \in TabType, UNCHANGED <<now, rows, account, job, granted>>
  PROVE  IInv'
  <1>1. Stored' = Stored /\ Busy' = Busy
    BY DEF Stored, Busy
  <1>2. TableInv'
    BY <1>1 DEF IInv, TableInv, AccountBacked, Admits
  <1>3. Roomy'
    BY <1>1 DEF IInv, Roomy
  <1>4. \A s \in Sessions : Sound(job[s])'
    BY <1>1 DEF IInv, Sound
  <1> QED BY <1>2, <1>3, <1>4 DEF IInv

-----------------------------------------------------------------------------
(* The invariant.                                                          *)

LEMMA InitInv == Init => IInv
  <1> SUFFICES ASSUME Init PROVE IInv
    OBVIOUS
  <1>1. \A r \in Rows : rows[r] = NoRow
    BY DEF Init
  <1>2. Stored = {} /\ Busy = {}
    BY <1>1 DEF Init, Stored, NoRow, Busy, Resting
  <1>3. Cardinality({}) = 0 /\ 1..0 = {}
    BY FS_EmptySet
  <1>4. Roomy
    BY <1>2, <1>3, PeriodsAssumption DEF Roomy
  <1>5. TableInv
    <2>1. now = 0 /\ now \in 0..LastDay /\ granted = 0 /\ granted \in Nat
      BY PeriodsAssumption DEF Init
    <2>2. rows \in [Rows -> RowType] /\ \A r \in Rows : rows[r].expires = 0
      BY <1>1 DEF Init, NoRow, RowType
    <2>3. account \in AccountType /\ AccountBacked
      BY DEF Init, AccountType, AccountBacked, Admits
    <2>4. 0 <= Later(granted, now)
      BY <2>1 DEF Later
    <2> QED BY <2>1, <2>2, <2>3, <2>4 DEF TableInv
  <1>6. tab \in TabType
    BY DEF Init, TabType
  <1>7. job \in [Sessions -> JobType] /\ \A s \in Sessions : Sound(job[s])
    BY RestingSound DEF Init, Sound
  <1> QED BY <1>4, <1>5, <1>6, <1>7 DEF IInv

LEMMA NextInv == IInv /\ [Next]_vars => IInv'
  <1> SUFFICES ASSUME IInv, [Next]_vars PROVE IInv'
    OBVIOUS
  <1>1. tab \in TabType
    BY DEF IInv
  <1>2. CASE NextDay
    BY <1>2, NextDayKeeps
  <1>3. CASE OpenPaywall \/ ClosePaywall \/ Timeout
    <2>1. tab' \in TabType
      <3>1. CASE OpenPaywall
        BY <1>1, <3>1 DEF OpenPaywall, TabType
      <3>2. CASE ClosePaywall
        BY <1>1, <3>2 DEF ClosePaywall, TabType
      <3>3. CASE Timeout
        BY <3>3 DEF Timeout, TabType
      <3> QED BY <1>3, <3>1, <3>2, <3>3
    <2>2. UNCHANGED <<now, rows, account, job, granted>>
      BY <1>3 DEF OpenPaywall, ClosePaywall, Timeout
    <2> QED BY <2>1, <2>2, TabKeeps
  <1>4. ASSUME NEW s \in Sessions, Subscribe(s) PROVE IInv'
    <2>1. tab' \in TabType
      BY <1>4 DEF Subscribe, TabType
    <2>2. "create" \in Kinds /\ Monthly \in Periods /\ Ask(s, "create", Monthly)
      BY <1>4, PeriodsAssumption DEF Subscribe, Kinds, Selling
    <2> QED BY <2>1, <2>2, AskKeeps
  <1>5. ASSUME NEW s \in Sessions, Request(s) PROVE IInv'
    <2>1. PICK kind \in Kinds, period \in Periods : Ask(s, kind, period)
      BY <1>5 DEF Request
    <2>2. tab' \in TabType
      BY <1>1, <1>5 DEF Request
    <2> QED BY <2>1, <2>2, AskKeeps
  <1>6. ASSUME NEW s \in Sessions, Serve(s) PROVE IInv'
    <2>1. CASE Plan(s)
      BY <2>1, PlanKeeps
    <2>2. CASE Select(s)
      BY <2>2, SelectKeeps
    <2>3. CASE PassOver(s)
      BY <2>3, PassOverKeeps
    <2>4. CASE AlreadyActive(s)
      BY <2>4, CloseKeeps DEF AlreadyActive
    <2>5. CASE Create(s)
      BY <2>5, CreateKeeps
    <2>6. CASE Renew(s)
      BY <2>6, RenewKeeps
    <2>7. CASE Pause(s)
      BY <2>7, PauseKeeps
    <2>8. CASE Cancel(s)
      BY <2>8, CancelKeeps
    <2>9. CASE Stop(s)
      BY <2>9, StopKeeps
    <2>10. CASE NotFound(s)
      BY <2>10, CloseKeeps DEF NotFound
    <2> QED BY <1>6, <2>1, <2>2, <2>3, <2>4, <2>5, <2>6, <2>7, <2>8, <2>9, <2>10
        DEF Serve
  <1>7. ASSUME NEW s \in Sessions, Abort(s) PROVE IInv'
    BY <1>7, CloseKeeps DEF Abort
  <1>8. CASE UNCHANGED vars
    BY <1>1, <1>8, TabKeeps DEF vars
  <1> QED BY <1>2, <1>3, <1>4, <1>5, <1>6, <1>7, <1>8 DEF Next

(* What the invariant is for.                                              *)
LEMMA IInvImplies == IInv => TypeOK /\ AccountBacked /\ NoFreeTime
  <1> SUFFICES ASSUME IInv PROVE TypeOK /\ AccountBacked /\ NoFreeTime
    OBVIOUS
  <1>1. TypeOK
    BY DEF IInv, TypeOK, TableInv, RowType, AccountType, JobType, TabType
  <1>2. \A s \in Sessions : job[s].pc \in {"select", "finish"} =>
           job[s].expires <= Later(granted, now) + job[s].period
    BY DEF IInv, Sound
  <1> QED BY <1>1, <1>2 DEF IInv, TableInv, NoFreeTime

(* The invariant holds of every behaviour of the subscriptions.            *)
THEOREM SubscriptionsInductive == Spec => []IInv
  <1> QED BY InitInv, NextInv, PTL DEF Spec

(* Rows, account, requests and paywall keep their types: above all a new   *)
(* subscription always finds its row, which no request still in progress   *)
(* can have taken.                                                         *)
THEOREM SubscriptionsTyped == Spec => []TypeOK
  <1> QED BY SubscriptionsInductive, IInvImplies, PTL

(* The account that admits orders is backed by an active subscription with *)
(* its last day, however many requests of the customer and of the          *)
(* administrator overlap: createSubscriptionForCustomer and its siblings   *)
(* write the row and the customer's columns in one transaction.            *)
THEOREM AccountIsBacked == Spec => []AccountBacked
  <1> QED BY SubscriptionsInductive, IInvImplies, PTL

(* Whatever a renewal was computed from before it got its lock, no date    *)
(* written lies beyond the periods sold, laid end to end.                  *)
THEOREM NoTimeGivenAway == Spec => []NoFreeTime
  <1> QED BY SubscriptionsInductive, IInvImplies, PTL
=============================================================================
