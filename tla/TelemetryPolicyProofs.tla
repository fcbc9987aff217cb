------------------------ MODULE TelemetryPolicyProofs ------------------------
(***************************************************************************)
(* Theorems about the telemetry bridge, for every set of messages, every   *)
(* window and every policy: types, the drain is confirmed by the messages  *)
(* that came in, and one observation moves the function at most once.      *)
(***************************************************************************)
EXTENDS TelemetryPolicy, PlacementProofs, SequenceTheorems, WellFoundedInduction

-----------------------------------------------------------------------------
(* The inductive invariant. *)

Percentages == 0..100
Texts == {""} \cup STRING
ModeNames == {""} \cup Modes
Times == {Nil} \cup Nat

\* A payload after decoding.
Reports ==
  [battery : Percentages, mode : ModeNames, source : Texts,
   function : Texts, exec : Times, queue : Times, wake : Times, edgeExec : Times,
   network : Times, collect : Times, apply : Times]

Entries ==
  [age : Nat, msg : Reports, mode : ModeNames, source : Texts,
   function : Texts \cup Functions, selected : Functions]
DrainSamples == [age : Nat, battery : Percentages]
Samples == [age : Nat, value : [Metrics -> Times]]
Trackers ==
  [source : Texts, function : Texts \cup Functions, mode : ModeNames,
   silent : {Nil} \cup Nat, seen : Seq(DrainSamples), risky : Nat]
Versions ==
  [identity : Functions, battery : {Nil} \cup Percentages, observedMode : ModeNames,
   source : Texts, observedFunction : Texts, delta : {Nil} \cup Percentages, risky : Nat,
   upto : Nat]

\* Samples are kept in the order they came in.
OldestFirst(seq) == \A i, j \in DOMAIN seq : i <= j => seq[i].age >= seq[j].age

Types ==
  /\ versions \in Seq(Versions) /\ Len(versions) > 0
  /\ drain \in Trackers
  /\ samples \in [Functions -> [Modes -> Seq(Samples)]]
  /\ log \in Seq(Entries) /\ Len(log) <= MaxMessages
  /\ received \in Seq(Entries)

Ordered ==
  /\ OldestFirst(log) /\ OldestFirst(received) /\ OldestFirst(drain.seen)
  /\ \A f \in Functions, m \in Modes : OldestFirst(samples[f][m])

\* What a tracker remembers of the log: its samples are the last entries, all in
\* one regime, and each of the risky messages it counted is drained.
Tracks(t, entries) ==
  LET n == Len(entries)
      m == Len(t.seen)
  IN  /\ m <= n /\ t.risky <= n
      /\ t.silent # Nil => n > 0 /\ entries[n].age = t.silent
      /\ m > 0 => t.silent # Nil
      /\ \A k \in 1..m :
           /\ entries[n - m + k].age = t.seen[k].age
           /\ entries[n - m + k].msg.battery = t.seen[k].battery
           /\ entries[n - m + k].mode = Local /\ t.mode = Local
           /\ entries[n - m + k].source = t.source
           /\ entries[n - m + k].function = t.function
      /\ \A k \in n - m + 1 .. n - 1 : entries[k].age - entries[k + 1].age <= DrainWindow
      /\ \A i \in n - t.risky + 1 .. n : Drained(entries, i)

\* Of the first n entries, the last k are drained.
Confirmed(entries, n, k) == \A i \in n - k + 1 .. n : i > 0 /\ Drained(entries, i)

\* The risky messages a version counts were drained up to some message, the one the
\* version shows if it shows one.
Honest(v, entries) ==
  \E n \in 0..Len(entries) : /\ Confirmed(entries, n, v.risky)
                             /\ v.upto # 0 => n = v.upto

\* A drain is never reported without a battery, and a battery never goes away.
Batteries(vs) ==
  /\ \A i \in 1..Len(vs) : vs[i].delta # Nil => vs[i].battery # Nil
  /\ \A i, j \in 1..Len(vs) : i <= j /\ vs[i].battery # Nil => vs[j].battery # Nil

StatusFollows ==
  /\ \A i \in 1..Len(versions) : Honest(versions[i], log)
  /\ Batteries(versions)

Inv == Types /\ Ordered /\ Tracks(drain, log) /\ StatusFollows
-----------------------------------------------------------------------------
(* Lemmas: the window, ageing, decoding. *)

LessThan == {pair \in Nat \X Nat : pair[1] < pair[2]}

LEMMA LeastElement ==
  ASSUME NEW T \in SUBSET Nat, T # {}
  PROVE  \E n \in T : \A m \in T : n <= m
<1>1. IsWellFoundedOn(LessThan, Nat)
  BY NatLessThanWellFounded DEF OpToRel, LessThan
<1>2. PICK n \in T : \A m \in T : <<m, n>> \notin LessThan
  BY <1>1, WFMin
<1>3. \A m \in T : ~(m < n)
  BY <1>2 DEF LessThan
<1>4. QED
  BY <1>3

\* w is seq without its first k elements.
IsRest(w, seq, k) ==
  /\ Len(w) = Len(seq) - k /\ DOMAIN w = 1..Len(seq) - k
  /\ \A i \in 1..Len(seq) - k : w[i] = seq[k + i]

LEMMA RestIsRest ==
  ASSUME NEW S, NEW seq \in Seq(S), NEW k \in 0..Len(seq),
         NEW w, w = SubSeq(seq, k + 1, Len(seq))
  PROVE  w \in Seq(S) /\ IsRest(w, seq, k)
<1>1. Len(seq) \in Nat
  OBVIOUS
<1>2. /\ w \in Seq(S) /\ Len(w) = Len(seq) - k /\ DOMAIN w = 1..Len(seq) - k
      /\ \A i \in 1..Len(seq) - k : w[i] = seq[k + i]
  BY <1>1
<1>3. QED
  BY <1>2 DEF IsRest

\* On samples kept oldest first, dropping the front drops exactly what is older
\* than the window.
LEMMA WindowIsSuffix ==
  ASSUME NEW S, NEW seq \in Seq(S), \A s \in S : s.age \in Nat,
         OldestFirst(seq), NEW window \in Nat
  PROVE  \E k \in 0..Len(seq) :
           /\ \A i \in DOMAIN seq : seq[i].age > window <=> i <= k
           /\ IsRest(WithinWindow(seq, window), seq, k)
           /\ WithinWindow(seq, window) \in Seq(S)
<1> DEFINE P(k) == \A i \in DOMAIN seq : seq[i].age > window <=> i <= k
           T == {k \in 0..Len(seq) : \A i \in k + 1..Len(seq) : seq[i].age <= window}
<1>1. Len(seq) \in Nat /\ DOMAIN seq = 1..Len(seq)
  OBVIOUS
<1>2. \A i \in 1..Len(seq) : seq[i].age \in Nat
  OBVIOUS
<1>3. Len(seq) \in T
  BY <1>1
<1>4. PICK k \in T : \A m \in T : k <= m
  <2>1. T \in SUBSET Nat /\ T # {}
    BY <1>1, <1>3
  <2> HIDE DEF T
  <2>2. QED
    BY <2>1, LeastElement
<1>5. k \in 0..Len(seq) /\ \A i \in k + 1..Len(seq) : seq[i].age <= window
  BY <1>4
<1>6. ASSUME NEW i \in 1..Len(seq), i <= k
      PROVE  seq[i].age > window
  <2>1. k - 1 \notin T
    <3>1. ~(k <= k - 1)
      BY <1>5
    <3> HIDE DEF T
    <3>2. QED
      BY <1>4, <3>1
  <2>2. k - 1 \in 0..Len(seq)
    BY <1>1, <1>5, <1>6
  <2>3. PICK j \in (k - 1) + 1..Len(seq) : ~(seq[j].age <= window)
    BY <2>1, <2>2
  <2>4. j = k
    BY <1>1, <1>5, <2>3
  <2>5. seq[k].age > window /\ k \in 1..Len(seq)
    BY <1>1, <1>2, <1>5, <1>6, <2>3, <2>4
  <2>6. seq[i].age >= seq[k].age
    BY <1>1, <1>6, <2>5 DEF OldestFirst
  <2>7. QED
    BY <1>2, <1>6, <2>5, <2>6
<1>7. P(k)
  <2>1. SUFFICES ASSUME NEW i \in 1..Len(seq)
                 PROVE  seq[i].age > window <=> i <= k
    BY <1>1
  <2>2. CASE i <= k
    BY <1>6, <2>2
  <2>3. CASE ~(i <= k)
    <3>1. i \in k + 1..Len(seq)
      BY <1>1, <1>5, <2>3
    <3>2. QED
      BY <1>2, <1>5, <2>3, <3>1
  <2>4. QED
    BY <2>2, <2>3
<1> DEFINE c == CHOOSE x \in 0..Len(seq) : P(x)
<1>8. c \in 0..Len(seq) /\ P(c)
  <2> HIDE DEF P
  <2> QED BY <1>5, <1>7
<1> DEFINE w == WithinWindow(seq, window)
<1>9. w = SubSeq(seq, c + 1, Len(seq))
  BY DEF WithinWindow
<1>10. w \in Seq(S) /\ IsRest(w, seq, c)
  <2>1. c \in 0..Len(seq)
    BY <1>8
  <2> HIDE DEF w, c, P
  <2>2. QED
    BY <1>9, <2>1, RestIsRest
<1>11. QED
  <2>1. /\ c \in 0..Len(seq) /\ \A i \in DOMAIN seq : seq[i].age > window <=> i <= c
        /\ IsRest(WithinWindow(seq, window), seq, c)
        /\ WithinWindow(seq, window) \in Seq(S)
    BY <1>8, <1>10
  <2> HIDE DEF c
  <2>2. QED
    BY <2>1

\* What is left is a sequence of the same samples, all within the window.
LEMMA WindowType ==
  ASSUME NEW S, NEW seq \in Seq(S), \A s \in S : s.age \in Nat,
         OldestFirst(seq), NEW window \in Nat
  PROVE  WithinWindow(seq, window) \in Seq(S) /\ OldestFirst(WithinWindow(seq, window))
<1> DEFINE w == WithinWindow(seq, window)
<1>1. PICK k \in 0..Len(seq) : w \in Seq(S) /\ IsRest(w, seq, k)
  BY WindowIsSuffix
<1>2. Len(seq) \in Nat
  OBVIOUS
<1>3. OldestFirst(w)
  <2> HIDE DEF w
  <2>1. SUFFICES ASSUME NEW i \in 1..Len(seq) - k, NEW j \in 1..Len(seq) - k, i <= j
                 PROVE  w[i].age >= w[j].age
    BY <1>1 DEF OldestFirst, IsRest
  <2>2. k + i \in DOMAIN seq /\ k + j \in DOMAIN seq /\ k + i <= k + j
    BY <1>2, <2>1
  <2>3. QED
    BY <1>1, <2>1, <2>2 DEF OldestFirst, IsRest
<1>4. QED
  BY <1>1, <1>3

LEMMA AppendNewest ==
  ASSUME NEW S, NEW seq \in Seq(S), \A s \in S : s.age \in Nat,
         OldestFirst(seq), NEW e \in S, e.age = 0
  PROVE  Append(seq, e) \in Seq(S) /\ OldestFirst(Append(seq, e))
<1> DEFINE w == Append(seq, e)
<1>1. /\ w \in Seq(S) /\ DOMAIN w = 1..Len(seq) + 1 /\ Len(seq) \in Nat
      /\ \A i \in 1..Len(seq) : w[i] = seq[i]
      /\ w[Len(seq) + 1] = e
  OBVIOUS
<1> HIDE DEF w
<1>2. SUFFICES ASSUME NEW i \in 1..Len(seq) + 1, NEW j \in 1..Len(seq) + 1, i <= j
               PROVE  w[i].age >= w[j].age
  BY <1>1 DEF OldestFirst, w
<1>3. CASE j = Len(seq) + 1
  <2>1. w[i] \in S
    BY <1>1
  <2>2. QED
    BY <1>1, <1>3, <2>1
<1>4. CASE j # Len(seq) + 1
  <2>1. i \in DOMAIN seq /\ j \in DOMAIN seq
    BY <1>1, <1>2, <1>4
  <2>2. QED
    BY <1>1, <1>2, <2>1 DEF OldestFirst
<1>5. QED
  BY <1>3, <1>4

LEMMA OlderIsPointwise ==
  ASSUME NEW S, NEW seq \in Seq(S), NEW d \in Nat
  PROVE  /\ DOMAIN Older(seq, d) = 1..Len(seq) /\ Len(seq) \in Nat
         /\ \A i \in 1..Len(seq) : Older(seq, d)[i] = [seq[i] EXCEPT !.age = @ + d]
BY DEF Older

LEMMA OlderType ==
  ASSUME NEW S, NEW seq \in Seq(S), NEW d \in Nat,
         \A s \in S : /\ s.age \in Nat /\ [s EXCEPT !.age = @ + d] \in S
                      /\ [s EXCEPT !.age = @ + d].age = s.age + d,
         OldestFirst(seq)
  PROVE  /\ Older(seq, d) \in Seq(S) /\ Len(Older(seq, d)) = Len(seq)
         /\ OldestFirst(Older(seq, d))
         /\ \A i \in 1..Len(seq) : Older(seq, d)[i].age = seq[i].age + d
<1> DEFINE w == Older(seq, d)
<1>1. /\ DOMAIN w = 1..Len(seq) /\ Len(seq) \in Nat
      /\ \A i \in 1..Len(seq) : w[i] = [seq[i] EXCEPT !.age = @ + d]
  BY OlderIsPointwise
<1>2. \A i \in 1..Len(seq) : /\ seq[i] \in S /\ seq[i].age \in Nat
                             /\ w[i] \in S /\ w[i].age = seq[i].age + d
  <2>1. \A i \in 1..Len(seq) : seq[i] \in S
    OBVIOUS
  <2>2. QED
    BY <1>1, <2>1
<1>3. w = [i \in 1..Len(seq) |-> w[i]]
  BY DEF Older
<1> HIDE DEF w
<1>4. w \in [1..Len(seq) -> S]
  BY <1>2, <1>3
<1>5. w \in Seq(S) /\ Len(w) = Len(seq)
  BY <1>1, <1>4, SeqDef, LenProperties
<1>6. OldestFirst(w)
  BY <1>1, <1>2 DEF OldestFirst
<1>7. QED
  BY <1>2, <1>5, <1>6 DEF w

LEMMA DecodedType ==
  ASSUME NEW raw \in Payloads
  PROVE  Decoded(raw) \in Reports
<1> DEFINE r == Decoded(raw)
           fields == {"battery", "mode", "source", "function", "exec", "queue", "wake",
                      "edgeExec", "network", "collect", "apply"}
<1>1. DOMAIN raw = fields
  BY DEF Payloads
<1>2. r = [f \in fields |-> r[f]]
  BY <1>1 DEF Decoded
<1>3. r.battery \in Percentages
  <2>1. r.battery = IF raw.battery < 0 THEN 0
                    ELSE IF raw.battery > 100 THEN 100 ELSE raw.battery
    BY <1>1 DEF Decoded, Timings
  <2>2. raw.battery \in Int
    BY DEF Payloads
  <2>3. QED
    BY <2>1, <2>2 DEF Percentages
<1>4. r.mode = raw.mode /\ r.source = raw.source /\ r.function = raw.function
  BY <1>1 DEF Decoded, Timings
<1>5. \A f \in Timings : r[f] \in Times
  <2>1. SUFFICES ASSUME NEW f \in Timings PROVE r[f] \in Times
    OBVIOUS
  <2>2. f \in fields /\ f # "battery"
    BY DEF Timings
  <2>3. r[f] = IF raw[f] < 0 /\ raw[f] # Nil THEN 0 ELSE raw[f]
    BY <1>1, <2>2 DEF Decoded
  <2>4. raw[f] \in Int
    BY DEF Payloads, Timings
  <2>5. QED
    BY <2>3, <2>4 DEF Times
<1>6. raw.mode \in ModeNames /\ raw.source \in Texts /\ raw.function \in Texts
  BY DEF Payloads, Texts, ModeNames
<1> HIDE DEF r
<1>7. QED
  BY <1>2, <1>3, <1>4, <1>5, <1>6 DEF Reports, Timings, r

LEMMA ConstantTypes ==
  /\ DrainWindow \in Nat /\ EstimatorWindow \in Nat /\ MaxMessages \in Nat
  /\ Policy.low \in Int /\ Policy.high \in Int /\ Policy.specBattery \in Int
  /\ EffectiveLow(Policy) \in Int /\ EffectiveHigh(Policy) \in Int
  /\ OrDefault(Policy.maxDrain, 3) \in Nat \ {0}
  /\ OrDefault(Policy.riskyWindows, 2) \in Nat \ {0}
<1>1. /\ DrainWindow \in Nat /\ EstimatorWindow \in Nat /\ MaxMessages \in Nat
      /\ Policy.low \in Int /\ Policy.high \in Int /\ Policy.specBattery \in Int
      /\ Policy.maxDrain \in Int /\ Policy.riskyWindows \in Int
  BY PolicyAssumption
<1>2. EffectiveLow(Policy) \in Int
  BY <1>1 DEF EffectiveLow
<1>3. EffectiveHigh(Policy) \in Int
  BY <1>1, <1>2 DEF EffectiveHigh
<1>4. /\ OrDefault(Policy.maxDrain, 3) \in Nat \ {0}
      /\ OrDefault(Policy.riskyWindows, 2) \in Nat \ {0}
  BY <1>1 DEF OrDefault
<1>5. QED
  BY <1>1, <1>2, <1>3, <1>4

-----------------------------------------------------------------------------
(* What was drained stays drained: later messages and the passing of time do   *)
(* not change how an entry compares with the ones before it.                   *)

LEMMA EntryFields ==
  ASSUME NEW e \in Entries
  PROVE  e.age \in Nat /\ e.msg \in Reports /\ e.msg.battery \in Percentages
<1>1. e.age \in Nat /\ e.msg \in Reports
  BY DEF Entries
<1>2. \A r \in Reports : r.battery \in Percentages
  BY DEF Reports
<1>3. QED
  BY <1>1, <1>2

LEMMA DrainedAfterAppend ==
  ASSUME NEW entries \in Seq(Entries), NEW e \in Entries,
         NEW i \in 1..Len(entries), Drained(entries, i)
  PROVE  Drained(Append(entries, e), i)
<1> DEFINE w == Append(entries, e)
<1>1. \A k \in 1..Len(entries) : w[k] = entries[k]
  OBVIOUS
<1>2. Len(entries) \in Nat
  OBVIOUS
<1> HIDE DEF w
<1>3. PICK j \in 1..i - 1 :
        /\ Continuous(entries, j, i)
        /\ entries[j].age - entries[i].age <= DrainWindow
        /\ entries[j].msg.battery - entries[i].msg.battery >= OrDefault(Policy.maxDrain, 3)
  BY DEF Drained
<1>4. Continuous(w, j, i)
  <2>1. \A k \in j..i - 1 : k \in 1..Len(entries) /\ k + 1 \in 1..Len(entries)
    BY <1>2
  <2>2. QED
    BY <1>1, <1>3, <2>1 DEF Continuous
<1>5. w[i] = entries[i] /\ w[j] = entries[j]
  BY <1>1, <1>2
<1>6. QED
  BY <1>3, <1>4, <1>5 DEF Drained, w

LEMMA OlderEntry ==
  ASSUME NEW e \in Entries, NEW d \in Nat, NEW o, o = [e EXCEPT !.age = @ + d]
  PROVE  /\ o \in Entries /\ o.age = e.age + d /\ o.msg = e.msg /\ o.mode = e.mode
         /\ o.source = e.source /\ o.function = e.function /\ o.selected = e.selected
<1>1. e.age + d \in Nat
  BY EntryFields
<1>2. /\ o.age = e.age + d /\ o.msg = e.msg /\ o.mode = e.mode
      /\ o.source = e.source /\ o.function = e.function /\ o.selected = e.selected
  BY DEF Entries
<1>3. o \in Entries
  BY <1>1, Zenon DEF Entries
<1>4. QED
  BY <1>2, <1>3

LEMMA OlderEntries ==
  ASSUME NEW entries \in Seq(Entries), OldestFirst(entries), NEW d \in Nat
  PROVE  LET w == Older(entries, d)
         IN  /\ w \in Seq(Entries) /\ Len(w) = Len(entries) /\ OldestFirst(w)
             /\ \A i \in 1..Len(entries) :
                  /\ w[i].age = entries[i].age + d /\ w[i].msg = entries[i].msg
                  /\ w[i].mode = entries[i].mode /\ w[i].source = entries[i].source
                  /\ w[i].function = entries[i].function
                  /\ w[i].selected = entries[i].selected
<1> DEFINE w == Older(entries, d)
<1>1. \A s \in Entries : /\ s.age \in Nat /\ [s EXCEPT !.age = @ + d] \in Entries
                         /\ [s EXCEPT !.age = @ + d].age = s.age + d
  BY OlderEntry, EntryFields
<1>2. /\ w \in Seq(Entries) /\ Len(w) = Len(entries) /\ OldestFirst(w)
      /\ \A i \in 1..Len(entries) : w[i].age = entries[i].age + d
  BY <1>1, OlderType
<1>3. \A i \in 1..Len(entries) :
        w[i] = [entries[i] EXCEPT !.age = @ + d] /\ entries[i] \in Entries
  <2>1. \A i \in 1..Len(entries) : entries[i] \in Entries
    OBVIOUS
  <2>2. QED
    BY <2>1, OlderIsPointwise
<1> HIDE DEF w
<1>4. \A i \in 1..Len(entries) :
        /\ w[i].msg = entries[i].msg
        /\ w[i].mode = entries[i].mode /\ w[i].source = entries[i].source
        /\ w[i].function = entries[i].function
        /\ w[i].selected = entries[i].selected
  <2>1. TAKE i \in 1..Len(entries)
  <2>2. w[i] = [entries[i] EXCEPT !.age = @ + d] /\ entries[i] \in Entries
    BY <1>3
  <2>3. QED
    BY <2>2, OlderEntry
<1>5. QED
  BY <1>2, <1>4 DEF w

LEMMA DrainedWhenOlder ==
  ASSUME NEW entries \in Seq(Entries), OldestFirst(entries), NEW d \in Nat,
         NEW i \in 1..Len(entries), Drained(entries, i)
  PROVE  Drained(Older(entries, d), i)
<1> DEFINE w == Older(entries, d)
<1>1. \A k \in 1..Len(entries) :
        /\ w[k].age = entries[k].age + d /\ w[k].msg = entries[k].msg
        /\ w[k].mode = entries[k].mode /\ w[k].source = entries[k].source
        /\ w[k].function = entries[k].function
  BY OlderEntries
<1>2. Len(entries) \in Nat /\ \A k \in 1..Len(entries) : entries[k].age \in Nat
  BY EntryFields
<1> HIDE DEF w
<1>3. \A k, l \in 1..Len(entries) : w[k].age - w[l].age = entries[k].age - entries[l].age
  <2>1. TAKE k, l \in 1..Len(entries)
  <2>2. w[k].age = entries[k].age + d /\ w[l].age = entries[l].age + d
    BY <1>1
  <2>3. entries[k].age \in Nat /\ entries[l].age \in Nat
    BY <1>2
  <2>4. QED
    BY <2>2, <2>3
<1>4. PICK j \in 1..i - 1 :
        /\ Continuous(entries, j, i)
        /\ entries[j].age - entries[i].age <= DrainWindow
        /\ entries[j].msg.battery - entries[i].msg.battery >= OrDefault(Policy.maxDrain, 3)
  BY DEF Drained
<1>5. Continuous(w, j, i)
  <2>1. \A k \in j..i - 1 : k \in 1..Len(entries) /\ k + 1 \in 1..Len(entries)
    BY <1>2
  <2>2. QED
    BY <1>1, <1>3, <1>4, <2>1 DEF Continuous
<1>6. i \in 1..Len(entries) /\ j \in 1..Len(entries)
  BY <1>2
<1>7. /\ w[i].msg = entries[i].msg /\ w[j].msg = entries[j].msg
      /\ w[j].age - w[i].age = entries[j].age - entries[i].age
  BY <1>1, <1>3, <1>6
<1>8. QED
  BY <1>4, <1>5, <1>7 DEF Drained, w

LEMMA HonestAfterAppend ==
  ASSUME NEW entries \in Seq(Entries), NEW e \in Entries, NEW v \in Versions,
         Honest(v, entries)
  PROVE  Honest(v, Append(entries, e))
<1>1. PICK n \in 0..Len(entries) : /\ Confirmed(entries, n, v.risky)
                                   /\ v.upto # 0 => n = v.upto
  BY DEF Honest
<1>2. v.risky \in Nat
  BY DEF Versions
<1>3. /\ Len(Append(entries, e)) = Len(entries) + 1 /\ Len(entries) \in Nat
      /\ n \in 0..Len(entries) + 1
  OBVIOUS
<1>4. Confirmed(Append(entries, e), n, v.risky)
  <2>1. SUFFICES ASSUME NEW i \in n - v.risky + 1 .. n
                 PROVE  i > 0 /\ Drained(Append(entries, e), i)
    BY DEF Confirmed
  <2>2. i > 0 /\ Drained(entries, i)
    BY <1>1 DEF Confirmed
  <2>3. i \in 1..Len(entries)
    BY <1>2, <1>3, <2>2
  <2>4. QED
    BY <2>2, <2>3, DrainedAfterAppend
<1>5. QED
  BY <1>1, <1>3, <1>4 DEF Honest

LEMMA HonestWhenOlder ==
  ASSUME NEW entries \in Seq(Entries), OldestFirst(entries), NEW d \in Nat,
         NEW v \in Versions, Honest(v, entries)
  PROVE  Honest(v, Older(entries, d))
<1>1. PICK n \in 0..Len(entries) : /\ Confirmed(entries, n, v.risky)
                                   /\ v.upto # 0 => n = v.upto
  BY DEF Honest
<1>2. v.risky \in Nat
  BY DEF Versions
<1>3. Len(Older(entries, d)) = Len(entries) /\ Len(entries) \in Nat
  BY OlderEntries
<1>4. Confirmed(Older(entries, d), n, v.risky)
  <2>1. SUFFICES ASSUME NEW i \in n - v.risky + 1 .. n
                 PROVE  i > 0 /\ Drained(Older(entries, d), i)
    BY DEF Confirmed
  <2>2. i > 0 /\ Drained(entries, i)
    BY <1>1 DEF Confirmed
  <2>3. i \in 1..Len(entries)
    BY <1>2, <1>3, <2>2
  <2>4. QED
    BY <2>2, <2>3, DrainedWhenOlder
<1>5. QED
  BY <1>1, <1>3, <1>4 DEF Honest

\* No more risky messages are counted than were applied.
LEMMA HonestCount ==
  ASSUME NEW entries \in Seq(Entries), NEW v \in Versions, Honest(v, entries)
  PROVE  v.risky <= Len(entries)
<1>1. PICK n \in 0..Len(entries) : Confirmed(entries, n, v.risky)
  BY DEF Honest
<1>2. v.risky \in Nat /\ Len(entries) \in Nat
  BY DEF Versions
<1>3. v.risky > 0 => n - v.risky + 1 > 0
  <2>1. v.risky > 0 => n - v.risky + 1 \in n - v.risky + 1 .. n
    BY <1>2
  <2>2. QED
    BY <1>1, <2>1 DEF Confirmed
<1>4. QED
  BY <1>2, <1>3

\* The oldest version is the cached one, the newest the stored one.
LEMMA VersionFields ==
  ASSUME Types
  PROVE  /\ cached \in Versions /\ stored \in Versions /\ identity \in Functions
         /\ Len(versions) \in Nat /\ Len(versions) >= 1
<1>1. versions \in Seq(Versions) /\ Len(versions) \in Nat /\ Len(versions) >= 1
  BY DEF Types
<1>2. cached \in Versions /\ stored \in Versions
  BY <1>1 DEF cached, stored
<1>3. QED
  BY <1>1, <1>2 DEF identity, Versions

LEMMA VersionTypes ==
  ASSUME NEW v \in Versions
  PROVE  /\ v.identity \in Functions /\ v.battery \in {Nil} \cup Percentages
         /\ v.observedMode \in ModeNames /\ v.source \in Texts
         /\ v.observedFunction \in Texts /\ v.delta \in {Nil} \cup Percentages
         /\ v.risky \in Nat /\ v.upto \in Nat
BY DEF Versions

\* One more version.
LEMMA VersionAppended ==
  ASSUME NEW vs \in Seq(Versions), Len(vs) > 0, NEW v \in Versions, NEW entries,
         \A i \in 1..Len(vs) : Honest(vs[i], entries), Honest(v, entries),
         Batteries(vs), v.delta # Nil => v.battery # Nil,
         vs[Len(vs)].battery # Nil => v.battery # Nil
  PROVE  LET w == Append(vs, v)
         IN  /\ w \in Seq(Versions) /\ Len(w) > 0
             /\ \A i \in 1..Len(w) : Honest(w[i], entries)
             /\ Batteries(w)
<1> DEFINE w == Append(vs, v)
<1>1. /\ w \in Seq(Versions) /\ Len(w) = Len(vs) + 1 /\ Len(vs) \in Nat
      /\ w[Len(vs) + 1] = v /\ \A i \in 1..Len(vs) : w[i] = vs[i]
  OBVIOUS
<1> HIDE DEF w
<1>2. \A i \in 1..Len(w) : i = Len(vs) + 1 \/ i \in 1..Len(vs)
  BY <1>1
<1>3. \A i \in 1..Len(w) : Honest(w[i], entries) /\ (w[i].delta # Nil => w[i].battery # Nil)
  BY <1>1, <1>2 DEF Batteries
<1>4. ASSUME NEW i \in 1..Len(w), NEW j \in 1..Len(w), i <= j, w[i].battery # Nil
      PROVE  w[j].battery # Nil
  <2>1. CASE j = Len(vs) + 1 /\ i # j
    <3>1. i \in 1..Len(vs) /\ Len(vs) \in 1..Len(vs) /\ i <= Len(vs)
      BY <1>1, <1>2, <1>4, <2>1
    <3>2. vs[Len(vs)].battery # Nil
      BY <1>1, <1>4, <3>1 DEF Batteries
    <3>3. QED
      BY <1>1, <2>1, <3>2
  <2>2. CASE j # Len(vs) + 1
    <3>1. i \in 1..Len(vs) /\ j \in 1..Len(vs)
      BY <1>1, <1>2, <1>4, <2>2
    <3>2. QED
      BY <1>1, <1>4, <3>1 DEF Batteries
  <2>3. QED
    BY <1>4, <2>1, <2>2
<1>5. QED
  BY <1>1, <1>3, <1>4 DEF Batteries, w

-----------------------------------------------------------------------------
(* The drain tracker. *)

LEMMA TrackerFields ==
  ASSUME NEW t \in Trackers
  PROVE  /\ t.seen \in Seq(DrainSamples) /\ t.risky \in Nat
         /\ t.silent \in {Nil} \cup Nat /\ t.mode \in ModeNames
         /\ t.source \in Texts /\ t.function \in Texts \cup Functions
BY DEF Trackers

LEMMA NoDrainType ==
  NoDrain \in Trackers /\ NoDrain.seen = <<>> /\ NoDrain.risky = 0 /\ NoDrain.silent = Nil
<1>1. NoDrain.seen = <<>> /\ NoDrain.risky = 0 /\ NoDrain.silent = Nil
  BY DEF NoDrain
<1>2. <<>> \in Seq(DrainSamples) /\ 0 \in Nat /\ "" \in Texts /\ "" \in ModeNames
  BY DEF Texts, ModeNames
<1>3. NoDrain \in Trackers
  BY <1>2, Zenon DEF NoDrain, Trackers
<1>4. QED
  BY <1>1, <1>3

\* A tracker that starts over, and one with another clock or other contents.
LEMMA FreshTracker ==
  ASSUME NEW a, NEW b, NEW c
  PROVE  [NoDrain EXCEPT !.source = a, !.function = b, !.mode = c]
           = [source |-> a, function |-> b, mode |-> c, silent |-> Nil,
              seen |-> <<>>, risky |-> 0]
<1>1. PICK t \in Trackers :
        t = NoDrain /\ t.seen = <<>> /\ t.risky = 0 /\ t.silent = Nil
  BY NoDrainType
<1> DEFINE u == [t EXCEPT !.source = a]
           v == [u EXCEPT !.function = b]
<1>2. u = [source |-> a, function |-> t.function, mode |-> t.mode, silent |-> t.silent,
           seen |-> t.seen, risky |-> t.risky]
  BY DEF Trackers
<1>3. v = [source |-> a, function |-> b, mode |-> t.mode, silent |-> t.silent,
           seen |-> t.seen, risky |-> t.risky]
  <2> HIDE DEF u
  <2> QED BY <1>2
<1>4. [v EXCEPT !.mode = c]
        = [source |-> a, function |-> b, mode |-> c, silent |-> Nil,
           seen |-> <<>>, risky |-> 0]
  <2> HIDE DEF v
  <2> QED BY <1>1, <1>3
<1>5. QED
  BY <1>1, <1>4

LEMMA TrackerReclocked ==
  ASSUME NEW t \in Trackers, NEW a
  PROVE  [t EXCEPT !.silent = a]
           = [source |-> t.source, function |-> t.function, mode |-> t.mode,
              silent |-> a, seen |-> t.seen, risky |-> t.risky]
BY DEF Trackers

LEMMA TrackerRefilled ==
  ASSUME NEW t \in Trackers, NEW b, NEW c
  PROVE  [t EXCEPT !.seen = b, !.risky = c]
           = [source |-> t.source, function |-> t.function, mode |-> t.mode,
              silent |-> t.silent, seen |-> b, risky |-> c]
<1> DEFINE u == [t EXCEPT !.seen = b]
<1>1. u = [source |-> t.source, function |-> t.function, mode |-> t.mode,
           silent |-> t.silent, seen |-> b, risky |-> t.risky]
  BY DEF Trackers
<1>2. [u EXCEPT !.risky = c]
        = [source |-> t.source, function |-> t.function, mode |-> t.mode,
           silent |-> t.silent, seen |-> b, risky |-> c]
  <2> HIDE DEF u
  <2> QED BY <1>1
<1>3. QED
  BY <1>2

LEMMA TrackerResumed ==
  ASSUME NEW t \in Trackers, NEW a, NEW b, NEW c
  PROVE  [t EXCEPT !.silent = a, !.seen = b, !.risky = c]
           = [source |-> t.source, function |-> t.function, mode |-> t.mode,
              silent |-> a, seen |-> b, risky |-> c]
<1> DEFINE u == [t EXCEPT !.silent = a]
           v == [u EXCEPT !.seen = b]
<1>1. u = [source |-> t.source, function |-> t.function, mode |-> t.mode,
           silent |-> a, seen |-> t.seen, risky |-> t.risky]
  BY TrackerReclocked
<1>2. v = [source |-> t.source, function |-> t.function, mode |-> t.mode,
           silent |-> a, seen |-> b, risky |-> t.risky]
  <2> HIDE DEF u
  <2> QED BY <1>1
<1>3. [v EXCEPT !.risky = c]
        = [source |-> t.source, function |-> t.function, mode |-> t.mode,
           silent |-> a, seen |-> b, risky |-> c]
  <2> HIDE DEF v
  <2> QED BY <1>2
<1>4. QED
  BY <1>3

\* Either the tracker goes on, unchanged but for its clock, or it starts over.
LEMMA TrackerContinues ==
  ASSUME Types, NEW msg \in Reports
  PROVE  LET t == TrackerFor(msg)
         IN  /\ t \in Trackers
             /\ t.source = SourceOf(msg) /\ t.function = FunctionOf(msg)
             /\ t.mode = LatestTelemetryMode(msg) /\ t.silent = 0
             /\ \/ t.seen = <<>> /\ t.risky = 0
                \/ /\ t.seen = drain.seen /\ t.risky = drain.risky
                   /\ drain.silent \in 0..DrainWindow
                   /\ drain.source = t.source /\ drain.function = t.function
                   /\ drain.mode = t.mode
<1> DEFINE s == SourceOf(msg)
           f == FunctionOf(msg)
           m == LatestTelemetryMode(msg)
           t == TrackerFor(msg)
           fresh == [NoDrain EXCEPT !.source = s, !.function = f, !.mode = m]
           resumed == [fresh EXCEPT !.silent = drain.silent, !.seen = drain.seen,
                                    !.risky = drain.risky]
<1>1. s \in Texts /\ f \in Texts \cup Functions /\ m \in ModeNames
  <2>1. /\ cached.observedMode \in ModeNames /\ cached.source \in Texts
        /\ identity \in Functions
    BY VersionFields, VersionTypes
  <2>2. msg.mode \in ModeNames /\ msg.source \in Texts /\ msg.function \in Texts
    BY DEF Reports
  <2>3. QED
    BY <2>1, <2>2 DEF SourceOf, FunctionOf, LatestTelemetryMode
<1>2. /\ drain \in Trackers /\ drain.seen \in Seq(DrainSamples)
      /\ drain.risky \in Nat
  BY TrackerFields DEF Types
<1>3. <<>> \in Seq(DrainSamples) /\ 0 \in Nat
  OBVIOUS
<1>4. t = [(IF drain.silent \in 0..DrainWindow /\ resumed = drain
            THEN drain ELSE fresh) EXCEPT !.silent = 0]
  BY DEF TrackerFor
<1> HIDE DEF s, f, m, t
<1>5. fresh = [source |-> s, function |-> f, mode |-> m, silent |-> Nil,
               seen |-> <<>>, risky |-> 0]
  BY FreshTracker
<1>6. fresh \in Trackers
  BY <1>1, <1>3, <1>5, Zenon DEF Trackers
<1> HIDE DEF fresh
<1>7. resumed = [source |-> s, function |-> f, mode |-> m, silent |-> drain.silent,
                 seen |-> drain.seen, risky |-> drain.risky]
  <2>1. resumed = [source |-> fresh.source, function |-> fresh.function,
                   mode |-> fresh.mode, silent |-> drain.silent,
                   seen |-> drain.seen, risky |-> drain.risky]
    BY <1>6, TrackerResumed
  <2> HIDE DEF resumed
  <2>2. QED
    BY <1>5, <2>1
<1> HIDE DEF resumed
<1>8. CASE drain.silent \in 0..DrainWindow /\ resumed = drain
  <2>1. drain.source = s /\ drain.function = f /\ drain.mode = m
    BY <1>7, <1>8
  <2>2. t = [drain EXCEPT !.silent = 0]
    BY <1>4, <1>8
  <2>3. t = [source |-> s, function |-> f, mode |-> m, silent |-> 0,
             seen |-> drain.seen, risky |-> drain.risky]
    BY <1>2, <2>1, <2>2, TrackerReclocked
  <2>4. t \in Trackers
    BY <1>1, <1>2, <1>3, <2>3, Zenon DEF Trackers
  <2>5. QED
    BY <1>8, <2>1, <2>3, <2>4 DEF t, s, f, m
<1>9. CASE ~(drain.silent \in 0..DrainWindow /\ resumed = drain)
  <2>1. t = [fresh EXCEPT !.silent = 0]
    BY <1>4, <1>9
  <2>2. t = [source |-> s, function |-> f, mode |-> m, silent |-> 0,
             seen |-> <<>>, risky |-> 0]
    BY <1>5, <1>6, <2>1, TrackerReclocked
  <2>3. t \in Trackers
    BY <1>1, <1>3, <2>2, Zenon DEF Trackers
  <2>4. QED
    BY <2>2, <2>3 DEF t, s, f, m
<1>10. QED
  BY <1>8, <1>9

LEMMA SampleFields ==
  /\ \A s \in DrainSamples : s.age \in Nat /\ s.battery \in Percentages
  /\ \A s \in Samples : s.age \in Nat
BY DEF DrainSamples, Samples

\* A tracker without samples has nothing to remember.
LEMMA TracksNothing ==
  ASSUME NEW u \in Trackers, NEW entries \in Seq(Entries), NEW e \in Entries,
         u.seen = <<>>, u.risky = 0, u.silent = Nil \/ (u.silent = 0 /\ e.age = 0)
  PROVE  Tracks(u, Append(entries, e))
<1> DEFINE w == Append(entries, e)
<1>1. /\ Len(entries) \in Nat /\ Len(w) = Len(entries) + 1
      /\ w[Len(entries) + 1] = e
  OBVIOUS
<1>2. Len(u.seen) = 0
  OBVIOUS
<1> HIDE DEF w
<1>3. QED
  BY <1>1, <1>2 DEF Tracks, w

LEMMA TracksFresh ==
  ASSUME NEW entries \in Seq(Entries)
  PROVE  Tracks(NoDrain, entries)
<1>1. /\ Len(entries) \in Nat /\ Len(NoDrain.seen) = 0 /\ NoDrain.risky = 0
      /\ NoDrain.silent = Nil
  BY NoDrainType
<1>2. QED
  BY <1>1 DEF Tracks

\* t starts over or goes on from old.
Resumes(t, old) ==
  \/ t.seen = <<>> /\ t.risky = 0
  \/ /\ t.seen = old.seen /\ t.risky = old.risky
     /\ old.silent \in 0..DrainWindow
     /\ old.source = t.source /\ old.function = t.function /\ old.mode = t.mode

\* e is a new entry of t's regime, in local mode and between the thresholds.
InRegime(e, t) ==
  /\ e.age = 0 /\ t.mode = Local
  /\ e.mode = t.mode /\ e.source = t.source /\ e.function = t.function
  /\ e.msg.battery > EffectiveLow(Policy) /\ e.msg.battery < EffectiveHigh(Policy)

\* u is t with the sample of e.
Takes(u, t, e) ==
  /\ u.source = t.source /\ u.function = t.function /\ u.mode = t.mode /\ u.silent = 0
  /\ u.seen = Append(WithinWindow(t.seen, DrainWindow),
                     [age |-> 0, battery |-> e.msg.battery])
  /\ \/ u.risky = 0
     \/ /\ u.risky = t.risky + 1 /\ Len(u.seen) >= 2
        /\ DrainDelta(u.seen[1].battery, e.msg.battery) >= OrDefault(Policy.maxDrain, 3)

LEMMA KeptIndex ==
  ASSUME NEW n \in Nat, NEW m \in Nat, m <= n, NEW k \in Int, k >= 0, k <= m,
         NEW q \in 1..m - k
  PROVE  /\ k + q \in 1..m /\ m > 0
         /\ n - m + k + q = n - m + (k + q) /\ n - m + k + q \in 1..n
OBVIOUS

LEMMA ShiftedIndex ==
  ASSUME NEW b \in Nat, NEW l \in Nat, NEW x \in b + 1..b + l
  PROVE  x - b \in 1..l /\ b + (x - b) = x
OBVIOUS

\* A tracker that goes on in one regime remembers the entries it kept and the new
\* one, and counts it as risky only if it is drained.
LEMMA TracksOn ==
  ASSUME NEW old \in Trackers, NEW t \in Trackers, NEW u \in Trackers,
         NEW entries \in Seq(Entries), NEW e \in Entries,
         Tracks(old, entries), Resumes(t, old), OldestFirst(t.seen),
         InRegime(e, t), Takes(u, t, e)
  PROVE  Tracks(u, Append(entries, e))
<1> DEFINE n == Len(entries)
           m == Len(t.seen)
           w == Append(entries, e)
           kept == WithinWindow(t.seen, DrainWindow)
           s == [age |-> 0, battery |-> e.msg.battery]
<1>1. /\ n \in Nat /\ w \in Seq(Entries) /\ Len(w) = n + 1 /\ w[n + 1] = e
      /\ \A i \in 1..n : w[i] = entries[i]
  OBVIOUS
<1>2. t.seen \in Seq(DrainSamples) /\ m \in Nat /\ t.risky \in Nat /\ old.risky \in Nat
  BY TrackerFields
<1>3. PICK k \in 0..m : /\ \A i \in DOMAIN t.seen : t.seen[i].age > DrainWindow <=> i <= k
                        /\ kept \in Seq(DrainSamples) /\ IsRest(kept, t.seen, k)
  BY <1>2, WindowIsSuffix, SampleFields, ConstantTypes
<1>5. e.msg.battery \in Percentages /\ s \in DrainSamples
  BY EntryFields, Zenon DEF DrainSamples
<1> DEFINE l == m - k + 1
<1>6. /\ Len(u.seen) = l /\ u.seen[l] = s
      /\ \A q \in 1..m - k : u.seen[q] = t.seen[k + q]
  <2>1. u.seen = Append(kept, s)
    BY DEF Takes
  <2> HIDE DEF kept, s
  <2>2. /\ Len(u.seen) = Len(kept) + 1 /\ u.seen[Len(kept) + 1] = s
        /\ \A q \in 1..Len(kept) : u.seen[q] = kept[q]
    BY <1>3, <1>5, <2>1
  <2>3. QED
    BY <1>3, <2>2 DEF IsRest
<1>7. k \in Int /\ k >= 0 /\ k <= m
  BY <1>2, <1>3
\* Samples are left only if the tracker went on.
<1>8. ASSUME m > 0
      PROVE  /\ t.seen = old.seen /\ t.risky = old.risky
             /\ m <= n /\ n > 0 /\ entries[n].age <= DrainWindow
             /\ \A q \in 1..m :
                  /\ entries[n - m + q].age = t.seen[q].age
                  /\ entries[n - m + q].msg.battery = t.seen[q].battery
                  /\ entries[n - m + q].mode = Local
                  /\ entries[n - m + q].source = t.source
                  /\ entries[n - m + q].function = t.function
             /\ \A q \in n - m + 1 .. n - 1 :
                  entries[q].age - entries[q + 1].age <= DrainWindow
  <2>1. /\ t.seen = old.seen /\ t.risky = old.risky
        /\ old.silent \in 0..DrainWindow
        /\ old.source = t.source /\ old.function = t.function /\ old.mode = t.mode
    BY <1>2, <1>8 DEF Resumes, m
  <2>2. old.silent # Nil /\ old.silent <= DrainWindow
    BY <2>1, ConstantTypes DEF Nil
  <2>3. Len(old.seen) = m
    BY <2>1
  <2> HIDE DEF m, n
  <2>4. QED
    BY <1>8, <2>1, <2>2, <2>3 DEF Tracks, InRegime, n
<1> HIDE DEF w, kept, s, m, n
<1> DEFINE b == n - m + k
<1>9. /\ l \in Nat /\ b \in Nat /\ b + l = n + 1 /\ l >= 1 /\ (l >= 2 <=> k < m)
      /\ (n + 1) - l = b /\ \A q : q # l /\ q \in 1..l => q \in 1..m - k
  <2>1. m <= n
    BY <1>1, <1>2, <1>8
  <2>2. QED
    BY <1>1, <1>2, <1>7, <2>1
<1> HIDE DEF l
<1>10. \A q \in 1..m - k : /\ k + q \in 1..m /\ m > 0
                           /\ b + q = n - m + (k + q) /\ b + q \in 1..n
  <2>1. TAKE q \in 1..m - k
  <2>2. m <= n
    BY <1>1, <1>2, <1>8
  <2>3. QED
    BY <1>1, <1>2, <1>7, <2>2, KeptIndex
<1>11. ASSUME NEW q \in 1..l
       PROVE  /\ w[b + q].age = u.seen[q].age
              /\ w[b + q].msg.battery = u.seen[q].battery
              /\ w[b + q].mode = Local /\ u.mode = Local
              /\ w[b + q].source = u.source
              /\ w[b + q].function = u.function
  <2> HIDE DEF b, l
  <2>1. CASE q = l
    <3>1. w[b + q] = e /\ u.seen[q] = s
      BY <1>1, <1>6, <1>9, <2>1
    <3>2. s.age = 0 /\ s.battery = e.msg.battery
      BY DEF s
    <3>3. QED
      BY <3>1, <3>2 DEF InRegime, Takes
  <2>2. CASE q # l
    <3>1. q \in 1..m - k
      BY <1>9, <2>2
    <3>2. k + q \in 1..m /\ m > 0 /\ b + q = n - m + (k + q) /\ b + q \in 1..n
      BY <1>10, <3>1
    <3>3. w[b + q] = entries[n - m + (k + q)] /\ u.seen[q] = t.seen[k + q]
      BY <1>1, <1>6, <3>1, <3>2
    <3>4. QED
      BY <1>8, <3>2, <3>3 DEF InRegime, Takes
  <2>3. QED
    BY <2>1, <2>2
<1>12. \A q \in b + 1..n : /\ m > 0 /\ q \in 1..n /\ q \in n - m + 1 .. n
                           /\ (q # n => q \in n - m + 1 .. n - 1 /\ q + 1 \in 1..n)
  <2>1. TAKE q \in b + 1..n
  <2>2. q \in Int /\ q <= n /\ q >= b + 1 /\ b >= n - m
    BY <1>1, <1>2, <1>7, <1>9
  <2>3. QED
    BY <1>1, <1>2, <1>9, <2>2
<1> HIDE DEF b, l
<1>13. ASSUME NEW q \in b + 1..n
       PROVE  w[q].age - w[q + 1].age <= DrainWindow
  <2>1. m > 0 /\ q \in 1..n
    BY <1>12
  <2>2. entries[q].age \in Nat /\ w[q] = entries[q]
    BY <1>1, <2>1, EntryFields DEF n
  <2>3. CASE q = n
    <3>1. w[q + 1].age = 0 /\ w[q].age <= DrainWindow
      BY <1>1, <1>8, <2>1, <2>2, <2>3 DEF InRegime
    <3>2. QED
      BY <2>2, <3>1, ConstantTypes
  <2>4. CASE q # n
    <3>1. q \in n - m + 1 .. n - 1 /\ q + 1 \in 1..n
      BY <1>12, <2>4
    <3>2. QED
      BY <1>1, <1>8, <2>1, <2>2, <3>1
  <2>5. QED
    BY <2>3, <2>4
<1>14. ASSUME u.risky # 0
       PROVE  /\ Drained(w, n + 1) /\ u.risky = t.risky + 1
              /\ m > 0 /\ t.risky = old.risky
  <2>1. /\ u.risky = t.risky + 1 /\ Len(u.seen) >= 2
        /\ DrainDelta(u.seen[1].battery, e.msg.battery) >= OrDefault(Policy.maxDrain, 3)
    BY <1>14 DEF Takes
  <2>2. l >= 2 /\ k < m
    BY <1>6, <1>9, <2>1
  <2>3. 1 \in 1..l /\ 1 \in 1..m - k /\ b + 1 \in 1..n /\ m > 0 /\ k + 1 \in 1..m
    <3>1. 1 \in 1..l /\ 1 \in 1..m - k
      BY <1>2, <1>7, <1>9, <2>2
    <3>2. QED
      BY <1>10, <3>1
  <2>4. w[b + 1].age = u.seen[1].age /\ w[b + 1].msg.battery = u.seen[1].battery
    BY <1>11, <2>3
  <2>5. u.seen[1] = t.seen[k + 1] /\ t.seen[k + 1] \in DrainSamples
    <3>1. u.seen[1] = t.seen[k + 1]
      BY <1>6, <2>3
    <3>2. t.seen[k + 1] \in DrainSamples
      BY <1>2, <2>3 DEF m
    <3>3. QED
      BY <3>1, <3>2
  <2>6. ~(t.seen[k + 1].age > DrainWindow)
    <3>1. k + 1 \in DOMAIN t.seen /\ ~(k + 1 <= k)
      BY <1>2, <1>7, <2>3 DEF m
    <3>2. QED
      BY <1>3, <3>1
  <2>7. u.seen[1].age \in Nat /\ u.seen[1].battery \in Percentages
    BY <2>5, SampleFields
  <2>8. w[n + 1] = e
    BY <1>1
  <2>9. w[b + 1].age - w[n + 1].age <= DrainWindow
    <3>1. w[b + 1].age \in Nat /\ ~(w[b + 1].age > DrainWindow) /\ w[n + 1].age = 0
      BY <2>4, <2>5, <2>6, <2>7, <2>8 DEF InRegime
    <3>2. QED
      BY <3>1, ConstantTypes
  <2>10. w[b + 1].msg.battery - w[n + 1].msg.battery >= OrDefault(Policy.maxDrain, 3)
    <3>1. u.seen[1].battery - e.msg.battery >= OrDefault(Policy.maxDrain, 3)
      BY <1>5, <2>1, <2>7, ConstantTypes DEF DrainDelta, Percentages
    <3>2. QED
      BY <2>4, <2>8, <3>1, Zenon
  <2>11. Continuous(w, b + 1, n + 1)
    <3>1. \A x \in b + 1..n + 1 : /\ w[x].mode = Local /\ w[x].source = u.source
                                  /\ w[x].function = u.function
      <4>1. TAKE x \in b + 1..n + 1
      <4>2. x - b \in 1..l /\ b + (x - b) = x
        <5>1. x \in b + 1..b + l /\ b \in Nat /\ l \in Nat
          BY <1>9
        <5>2. QED
          BY <5>1, ShiftedIndex
      <4>3. QED
        BY <1>11, <4>2
    <3>2. \A q \in b + 1..n : q \in b + 1..n + 1 /\ q + 1 \in b + 1..n + 1
      BY <1>1, <1>9
    <3>3. \A q \in b + 1..(n + 1) - 1 :
             /\ w[q].age - w[q + 1].age <= DrainWindow
             /\ w[q].mode = Local /\ w[q + 1].mode = Local
             /\ w[q].source = w[q + 1].source
             /\ w[q].function = w[q + 1].function
      <4>1. (n + 1) - 1 = n
        BY <1>1
      <4>2. QED
        BY <1>13, <3>1, <3>2, <4>1
    <3>4. QED
      BY <3>3, Zenon DEF Continuous
  <2>12. b + 1 \in 1..(n + 1) - 1
    BY <1>1, <2>3
  <2>13. Drained(w, n + 1)
    BY <2>8, <2>9, <2>10, <2>11, <2>12 DEF Drained, InRegime
  <2>14. t.risky = old.risky
    BY <1>8, <2>3
  <2>15. QED
    BY <2>1, <2>3, <2>13, <2>14
<1>15. old.risky <= n
  BY DEF Tracks, n
<1>16. u.risky \in Nat /\ u.risky <= n + 1
  BY <1>1, <1>2, <1>14, <1>15, TrackerFields
<1>17. ASSUME NEW i \in ((n + 1) - u.risky) + 1 .. n + 1
       PROVE  Drained(w, i)
  <2>1. u.risky # 0
    BY <1>1, <1>16
  <2>2. CASE i = n + 1
    BY <1>14, <2>1, <2>2
  <2>3. CASE i # n + 1
    <3>1. u.risky = old.risky + 1
      BY <1>14, <2>1
    <3>2. i \in n - old.risky + 1 .. n /\ i \in 1..n
      BY <1>1, <1>2, <1>15, <2>3, <3>1
    <3>3. Drained(entries, i)
      BY <3>2 DEF Tracks, n
    <3>4. QED
      BY <3>2, <3>3, DrainedAfterAppend DEF w, n
  <2>4. QED
    BY <2>2, <2>3
<1>18. QED
  <2>1. u.silent # Nil /\ w[n + 1].age = u.silent /\ n + 1 > 0 /\ l <= n + 1
    BY <1>1, <1>9 DEF Nil, InRegime, Takes
  <2>2. Len(w) = n + 1 /\ Len(u.seen) = l /\ (n + 1) - l = b /\ (n + 1) - 1 = n
    BY <1>1, <1>6, <1>9
  <2>3. \A q \in 1..l :
          /\ w[((n + 1) - l) + q].age = u.seen[q].age
          /\ w[((n + 1) - l) + q].msg.battery = u.seen[q].battery
          /\ w[((n + 1) - l) + q].mode = Local /\ u.mode = Local
          /\ w[((n + 1) - l) + q].source = u.source
          /\ w[((n + 1) - l) + q].function = u.function
    BY <1>11, <2>2
  <2>4. \A q \in ((n + 1) - l) + 1 .. (n + 1) - 1 :
          w[q].age - w[q + 1].age <= DrainWindow
    BY <1>13, <2>2
  <2>5. Tracks(u, w)
    BY <1>16, <1>17, <2>1, <2>2, <2>3, <2>4, Zenon DEF Tracks
  <2>6. QED
    BY <2>5 DEF w

\* A battery strictly between the declared thresholds is so between the ones in
\* effect.
LEMMA BetweenThresholds ==
  ASSUME NEW b \in Percentages,
         b > (IF Policy.low = 0 THEN 20 ELSE Policy.low),
         b < (IF Policy.high = 0 THEN 60 ELSE Policy.high)
  PROVE  b > EffectiveLow(Policy) /\ b < EffectiveHigh(Policy)
BY ConstantTypes DEF EffectiveLow, EffectiveHigh, Percentages

LEMMA DeltaIsPercentage ==
  ASSUME NEW first \in Percentages, NEW now \in Percentages
  PROVE  DrainDelta(first, now) \in Percentages
BY DEF DrainDelta, Percentages

\* updateBatteryDeltaStatus keeps the tracker in step with the log.
LEMMA UpdateTracks ==
  ASSUME Types, Ordered, Tracks(drain, log), NEW msg \in Reports,
         NEW e \in Entries, e.age = 0, e.msg = msg, e.mode = LatestTelemetryMode(msg),
         e.source = SourceOf(msg), e.function = FunctionOf(msg)
  PROVE  /\ UpdateBatteryDelta(msg).tracker \in Trackers
         /\ OldestFirst(UpdateBatteryDelta(msg).tracker.seen)
         /\ UpdateBatteryDelta(msg).delta \in {Nil} \cup Percentages
         /\ Tracks(UpdateBatteryDelta(msg).tracker, Append(log, e))
<1> DEFINE t == TrackerFor(msg)
           low == IF Policy.low = 0 THEN 20 ELSE Policy.low
           high == IF Policy.high = 0 THEN 60 ELSE Policy.high
           applicable == t.mode = Local /\ msg.battery > low /\ msg.battery < high
           kept == WithinWindow(t.seen, DrainWindow)
           seen == Append(kept, [age |-> 0, battery |-> msg.battery])
           delta == DrainDelta(seen[1].battery, msg.battery)
           up == UpdateBatteryDelta(msg)
           u == up.tracker
<1>1. /\ drain \in Trackers /\ log \in Seq(Entries) /\ OldestFirst(drain.seen)
  BY DEF Types, Ordered
<1>2. /\ t \in Trackers /\ t.silent = 0 /\ t.seen \in Seq(DrainSamples) /\ t.risky \in Nat
      /\ t.source = SourceOf(msg) /\ t.function = FunctionOf(msg)
      /\ t.mode = LatestTelemetryMode(msg) /\ Resumes(t, drain)
  BY TrackerContinues, TrackerFields DEF Resumes
<1>3. OldestFirst(<<>>)
  BY DEF OldestFirst
<1>4. OldestFirst(t.seen)
  BY <1>1, <1>2, <1>3 DEF Resumes
<1>5. msg.battery \in Percentages
  BY DEF Reports
<1>6. up = IF ~On(Policy.deltaPolicy) THEN [tracker |-> NoDrain, delta |-> Nil]
           ELSE IF ~applicable
             THEN [tracker |-> [t EXCEPT !.seen = <<>>, !.risky = 0], delta |-> Nil]
           ELSE IF Len(seen) < 2
             THEN [tracker |-> [t EXCEPT !.seen = seen, !.risky = 0], delta |-> Nil]
           ELSE [tracker |-> [t EXCEPT !.seen = seen,
                                !.risky = IF delta >= OrDefault(Policy.maxDrain, 3)
                                          THEN t.risky + 1 ELSE 0],
                 delta |-> delta]
  BY DEF UpdateBatteryDelta
<1> HIDE DEF t
<1>7. /\ kept \in Seq(DrainSamples) /\ OldestFirst(kept)
      /\ [age |-> 0, battery |-> msg.battery] \in DrainSamples
  <2>1. kept \in Seq(DrainSamples) /\ OldestFirst(kept)
    BY <1>2, <1>4, WindowType, SampleFields, ConstantTypes
  <2>2. [age |-> 0, battery |-> msg.battery] \in DrainSamples
    BY <1>5, Zenon DEF DrainSamples
  <2>3. QED
    BY <2>1, <2>2
<1>8. seen \in Seq(DrainSamples) /\ OldestFirst(seen) /\ Len(seen) \in Nat
  <2> HIDE DEF kept
  <2>1. [age |-> 0, battery |-> msg.battery].age = 0
    OBVIOUS
  <2>2. seen \in Seq(DrainSamples) /\ OldestFirst(seen)
    BY <1>7, <2>1, AppendNewest, SampleFields
  <2>3. QED
    BY <2>2
<1> HIDE DEF up, applicable, seen, delta
<1>9. CASE ~On(Policy.deltaPolicy)
  <2>1. u = NoDrain /\ up.delta = Nil
    BY <1>6, <1>9
  <2>2. QED
    BY <1>1, <1>3, <2>1, NoDrainType, TracksNothing DEF up
<1>10. CASE On(Policy.deltaPolicy) /\ ~applicable
  <2>1. u = [t EXCEPT !.seen = <<>>, !.risky = 0] /\ up.delta = Nil
    BY <1>6, <1>10
  <2>2. u = [source |-> t.source, function |-> t.function, mode |-> t.mode,
             silent |-> t.silent, seen |-> <<>>, risky |-> 0]
    BY <1>2, <2>1, TrackerRefilled
  <2> HIDE DEF u
  <2>3. u \in Trackers /\ u.seen = <<>> /\ u.risky = 0 /\ u.silent = 0
    <3>1. /\ <<>> \in Seq(DrainSamples) /\ 0 \in Nat /\ t.silent \in {Nil} \cup Nat
          /\ t.mode \in ModeNames /\ t.source \in Texts /\ t.function \in Texts \cup Functions
      BY <1>2, TrackerFields
    <3>2. u \in Trackers
      BY <2>2, <3>1, Zenon DEF Trackers
    <3>3. QED
      BY <1>2, <2>2, <3>2
  <2>4. Tracks(u, Append(log, e))
    BY <1>1, <2>3, TracksNothing
  <2>5. QED
    BY <1>3, <2>1, <2>3, <2>4 DEF u, up
<1>11. CASE On(Policy.deltaPolicy) /\ applicable
  <2> DEFINE risky == delta >= OrDefault(Policy.maxDrain, 3)
             r == IF Len(seen) >= 2 /\ risky THEN t.risky + 1 ELSE 0
  <2>1. /\ u = [t EXCEPT !.seen = seen, !.risky = r] /\ r \in Nat
        /\ r = 0 \/ (r = t.risky + 1 /\ Len(seen) >= 2 /\ risky)
    <3>1. (Len(seen) < 2) = ~(Len(seen) >= 2)
      BY <1>8
    <3>2. u = IF Len(seen) < 2 THEN [t EXCEPT !.seen = seen, !.risky = 0]
              ELSE [t EXCEPT !.seen = seen, !.risky = IF risky THEN t.risky + 1 ELSE 0]
      BY <1>6, <1>11, Zenon
    <3> HIDE DEF risky, u
    <3>3. u = [t EXCEPT !.seen = seen, !.risky = r]
      BY <3>1, <3>2
    <3>4. r \in Nat /\ (r = 0 \/ (r = t.risky + 1 /\ Len(seen) >= 2 /\ risky))
      BY <1>2
    <3>5. QED
      BY <3>3, <3>4
  <2> HIDE DEF r
  <2>2. u = [source |-> t.source, function |-> t.function, mode |-> t.mode,
             silent |-> t.silent, seen |-> seen, risky |-> r]
    BY <1>2, <2>1, TrackerRefilled
  <2>3. up.delta \in {Nil} \cup Percentages
    <3>1. CASE Len(seen) < 2
      BY <1>6, <1>11, <3>1
    <3>2. CASE ~(Len(seen) < 2)
      <4>1. up.delta = delta
        BY <1>6, <1>11, <3>2
      <4>2. seen[1] \in DrainSamples
        BY <1>8, <3>2
      <4>3. seen[1].battery \in Percentages
        BY <4>2, SampleFields
      <4>4. QED
        BY <1>5, <4>1, <4>3, DeltaIsPercentage DEF delta
    <3>3. QED
      BY <3>1, <3>2
  <2> HIDE DEF u
  <2>4. u \in Trackers
    <3>1. /\ t.silent \in {Nil} \cup Nat
          /\ t.mode \in ModeNames /\ t.source \in Texts /\ t.function \in Texts \cup Functions
      BY <1>2, TrackerFields
    <3>2. QED
      BY <1>8, <2>1, <2>2, <3>1, Zenon DEF Trackers
  <2>5. /\ u.source = t.source /\ u.function = t.function /\ u.mode = t.mode
        /\ u.silent = 0 /\ u.seen = seen /\ u.risky = r
    BY <1>2, <2>2
  <2>6. Takes(u, t, e)
    BY <2>1, <2>5 DEF Takes, seen, delta
  <2>7. InRegime(e, t)
    BY <1>2, <1>5, <1>11, BetweenThresholds DEF InRegime, applicable
  <2>8. Tracks(u, Append(log, e))
    BY <1>1, <1>2, <1>4, <2>4, <2>6, <2>7, TracksOn
  <2>9. QED
    BY <1>8, <2>3, <2>4, <2>5, <2>8 DEF u, up
<1>12. QED
  BY <1>9, <1>10, <1>11

-----------------------------------------------------------------------------
(* The estimator's samples. *)

LEMMA SampleType ==
  ASSUME NEW msg \in Reports
  PROVE  SampleFromTelemetry(msg) \in [Metrics -> Times]
<1>1. /\ msg.exec \in Times /\ msg.queue \in Times /\ msg.wake \in Times
      /\ msg.edgeExec \in Times /\ msg.network \in Times /\ msg.collect \in Times
      /\ msg.apply \in Times
  BY DEF Reports
<1>2. [m \in Metrics |-> Nil] \in [Metrics -> Times]
  BY DEF Times
<1>3. \A g \in [Metrics -> Times], m \in Metrics, v \in Times :
        [g EXCEPT ![m] = v] \in [Metrics -> Times]
  OBVIOUS
<1>4. QED
  BY <1>1, <1>2, <1>3 DEF SampleFromTelemetry, Metrics

LEMMA RecordedSamples ==
  ASSUME Types, Ordered, NEW msg \in Reports
  PROVE  /\ RecordSample(msg) \in [Functions -> [Modes -> Seq(Samples)]]
         /\ \A f \in Functions, m \in Modes : OldestFirst(RecordSample(msg)[f][m])
<1> DEFINE sample == SampleFromTelemetry(msg)
           new == [age |-> 0, value |-> sample]
           Filed(f, m) ==
             IF f = identity /\ m = msg.mode /\ HasDeadlineValue(sample)
             THEN Append(samples[f][m], new) ELSE samples[f][m]
           Recorded(f) ==
             IF f # identity THEN samples[f]
             ELSE [m \in Modes |-> WithinWindow(Filed(f, m), EstimatorWindow)]
<1>1. samples \in [Functions -> [Modes -> Seq(Samples)]]
  BY DEF Types
<1>2. \A f \in Functions, m \in Modes : OldestFirst(samples[f][m])
  BY DEF Ordered
<1>3. new \in Samples /\ new.age = 0
  <2>1. sample \in [Metrics -> Times]
    BY SampleType
  <2> HIDE DEF sample
  <2>2. QED
    BY <2>1 DEF Samples
<1> HIDE DEF new
<1>4. ASSUME NEW f \in Functions, NEW m \in Modes
      PROVE  Filed(f, m) \in Seq(Samples) /\ OldestFirst(Filed(f, m))
  <2>1. samples[f][m] \in Seq(Samples) /\ OldestFirst(samples[f][m])
    BY <1>1, <1>2
  <2>2. Append(samples[f][m], new) \in Seq(Samples) /\ OldestFirst(Append(samples[f][m], new))
    BY <1>3, <2>1, AppendNewest, SampleFields
  <2>3. QED
    BY <2>1, <2>2
<1> HIDE DEF Filed
<1>5. ASSUME NEW f \in Functions, NEW m \in Modes
      PROVE  /\ WithinWindow(Filed(f, m), EstimatorWindow) \in Seq(Samples)
             /\ OldestFirst(WithinWindow(Filed(f, m), EstimatorWindow))
  BY <1>4, WindowType, SampleFields, ConstantTypes
<1>6. ASSUME NEW f \in Functions
      PROVE  /\ Recorded(f) \in [Modes -> Seq(Samples)]
             /\ \A m \in Modes : OldestFirst(Recorded(f)[m])
  BY <1>1, <1>2, <1>5
<1>7. RecordSample(msg) = IF msg.function \notin {"", identity} THEN samples
                          ELSE [f \in Functions |-> Recorded(f)]
  BY DEF RecordSample, Filed, new
<1> HIDE DEF Recorded
<1>8. QED
  BY <1>1, <1>2, <1>6, <1>7

-----------------------------------------------------------------------------
(* The invariant is inductive. *)

LEMMA NoSamplesType ==
  /\ NoSamples \in [Functions -> [Modes -> Seq(Samples)]]
  /\ \A f \in Functions, m \in Modes : NoSamples[f][m] = <<>>
<1>1. <<>> \in Seq(Samples)
  OBVIOUS
<1>2. QED
  BY <1>1 DEF NoSamples

LEMMA InitInv == Init => Inv
<1> SUFFICES ASSUME Init PROVE Inv
  OBVIOUS
<1>1. drain = NoDrain /\ log = <<>> /\ received = <<>> /\ samples = NoSamples
  BY DEF Init
<1>2. OldestFirst(<<>>) /\ <<>> \in Seq(Entries) /\ Len(<<>>) = 0
  BY DEF OldestFirst
<1>3. drain \in Trackers /\ drain.seen = <<>>
  BY <1>1, NoDrainType
<1>4. PICK v \in Versions : versions = <<v>> /\ v.risky = 0 /\ v.delta = Nil /\ v.upto = 0
  <2>1. PICK f \in Functions :
          versions = <<[identity |-> f, battery |-> Nil, observedMode |-> "", source |-> "",
                        observedFunction |-> "", delta |-> Nil, risky |-> 0, upto |-> 0]>>
    BY DEF Init
  <2> DEFINE v == [identity |-> f, battery |-> Nil, observedMode |-> "", source |-> "",
                   observedFunction |-> "", delta |-> Nil, risky |-> 0, upto |-> 0]
  <2>2. 0 \in Nat /\ "" \in Texts /\ "" \in ModeNames
    BY DEF Texts, ModeNames
  <2>3. v \in Versions
    BY <2>2, Zenon DEF Versions
  <2>4. v.risky = 0 /\ v.delta = Nil /\ v.upto = 0
    OBVIOUS
  <2> HIDE DEF v
  <2>5. versions = <<v>>
    BY <2>1 DEF v
  <2>6. QED
    BY <2>3, <2>4, <2>5
<1>5. versions \in Seq(Versions) /\ Len(versions) = 1 /\ versions[1] = v
  BY <1>4
<1>6. Types
  BY <1>1, <1>2, <1>3, <1>5, NoSamplesType, ConstantTypes DEF Types
<1>7. Ordered
  BY <1>1, <1>2, <1>3, NoSamplesType DEF Ordered
<1>8. Tracks(drain, log)
  BY <1>1, <1>2, TracksFresh
<1>9. StatusFollows
  <2>1. Honest(v, log)
    <3>1. Confirmed(log, 0, v.risky)
      BY <1>4 DEF Confirmed
    <3>2. QED
      BY <1>1, <1>2, <1>4, <3>1 DEF Honest
  <2>2. QED
    BY <1>4, <1>5, <2>1 DEF StatusFollows, Batteries
<1>10. QED
  BY <1>6, <1>7, <1>8, <1>9 DEF Inv

\* What a merge patch leaves in the store.
LEMMA PatchedVersion ==
  ASSUME Types, Batteries(versions), NEW msg \in Reports, NEW update,
         update.delta \in {Nil} \cup Percentages, update.tracker.risky \in Nat
  PROVE  LET v == Patched(msg, update)
         IN  /\ v \in Versions
             /\ v.battery # Nil
             /\ v.risky \in {update.tracker.risky, stored.risky}
             /\ v.upto \in {0, Len(log) + 1}
             /\ v.upto # 0 => v.risky = update.tracker.risky
<1> DEFINE shown == Shown(msg, update)
           Merged(f) == IF shown[f] # cached[f] THEN shown[f] ELSE stored[f]
           whole == \A f \in DOMAIN shown : Merged(f) = shown[f]
           upto == IF whole THEN Len(log) + 1 ELSE 0
           v == Patched(msg, update)
<1>1. /\ cached \in Versions /\ stored \in Versions
      /\ Len(versions) \in Nat /\ Len(versions) >= 1
  BY VersionFields
<1>2. /\ msg.battery \in Percentages /\ msg.mode \in ModeNames /\ msg.source \in Texts
      /\ msg.function \in Texts
  BY DEF Reports
<1>3. /\ cached.battery \in {Nil} \cup Percentages /\ cached.observedMode \in ModeNames
      /\ cached.source \in Texts /\ cached.observedFunction \in Texts
      /\ cached.risky \in Nat
  BY <1>1, VersionTypes
<1>4. /\ stored.identity \in Functions /\ stored.battery \in {Nil} \cup Percentages
      /\ stored.observedMode \in ModeNames /\ stored.source \in Texts
      /\ stored.observedFunction \in Texts /\ stored.delta \in {Nil} \cup Percentages
      /\ stored.risky \in Nat
  BY <1>1, VersionTypes
<1>5. /\ shown.battery = msg.battery /\ shown.observedMode \in ModeNames
      /\ shown.source \in Texts /\ shown.observedFunction \in Texts
      /\ shown.delta = update.delta /\ shown.risky = update.tracker.risky
      /\ "risky" \in DOMAIN shown
  <2>1. LatestTelemetryMode(msg) \in ModeNames /\ SourceOf(msg) \in Texts
    BY <1>2, <1>3 DEF LatestTelemetryMode, SourceOf
  <2>2. QED
    BY <1>2, <1>3, <2>1 DEF Shown
<1>6. v = [identity |-> stored.identity,
           battery |-> Merged("battery"), observedMode |-> Merged("observedMode"),
           source |-> Merged("source"), observedFunction |-> Merged("observedFunction"),
           delta |-> Merged("delta"), risky |-> Merged("risky"), upto |-> upto]
  BY DEF Patched
<1> HIDE DEF shown, v
<1>7. /\ Merged("battery") \in {Nil} \cup Percentages /\ Merged("observedMode") \in ModeNames
      /\ Merged("source") \in Texts /\ Merged("observedFunction") \in Texts
      /\ Merged("delta") \in {Nil} \cup Percentages /\ Merged("risky") \in Nat
      /\ Merged("risky") \in {update.tracker.risky, stored.risky}
  BY <1>2, <1>4, <1>5
<1>8. Merged("battery") # Nil
  <2>1. msg.battery # Nil
    BY <1>2 DEF Percentages, Nil
  <2>2. cached.battery # Nil => stored.battery # Nil
    BY <1>1 DEF Batteries, cached, stored
  <2>3. QED
    BY <1>5, <2>1, <2>2
<1>9. upto \in {0, Len(log) + 1} /\ upto \in Nat /\ (upto # 0 => Merged("risky") = shown.risky)
  <2>1. Len(log) \in Nat
    BY DEF Types
  <2>2. whole => Merged("risky") = shown.risky
    BY <1>5
  <2> HIDE DEF whole
  <2>3. QED
    BY <2>1, <2>2
<1> HIDE DEF Merged, upto
<1>10. v \in Versions
  BY <1>4, <1>6, <1>7, <1>9, Zenon DEF Versions
<1>11. v.battery = Merged("battery") /\ v.risky = Merged("risky") /\ v.upto = upto
  BY <1>6
<1>12. QED
  BY <1>5, <1>7, <1>8, <1>9, <1>10, <1>11 DEF v

LEMMA ApplyInv ==
  ASSUME Inv, NEW raw \in Messages, Apply(raw)
  PROVE  Inv'
<1> DEFINE msg == Decoded(raw)
           e == [age |-> 0, msg |-> msg, mode |-> LatestTelemetryMode(msg),
                 source |-> SourceOf(msg), function |-> FunctionOf(msg),
                 selected |-> identity]
           update == UpdateBatteryDelta(msg)
           v == Patched(msg, update)
<1>1. Types /\ Ordered /\ Tracks(drain, log) /\ StatusFollows
  BY DEF Inv
<1>2. msg \in Reports
  BY DecodedType, PolicyAssumption
<1>3. /\ Len(log) < MaxMessages
      /\ drain' = update.tracker
      /\ versions' \in {versions, Append(versions, v)}
      /\ samples' = RecordSample(msg)
      /\ log' = Append(log, e)
      /\ received' = Append(received, e)
  BY DEF Apply
<1> HIDE DEF msg
<1>4. /\ LatestTelemetryMode(msg) \in ModeNames /\ SourceOf(msg) \in Texts
      /\ FunctionOf(msg) \in Texts \cup Functions
      /\ identity \in Functions
  <2>1. /\ cached.observedMode \in ModeNames /\ cached.source \in Texts
        /\ identity \in Functions
    BY <1>1, VersionFields, VersionTypes
  <2>2. msg.mode \in ModeNames /\ msg.source \in Texts /\ msg.function \in Texts
    BY <1>2 DEF Reports
  <2>3. QED
    BY <2>1, <2>2 DEF LatestTelemetryMode, SourceOf, FunctionOf
<1> HIDE DEF update, v
<1>5. /\ e \in Entries /\ e.age = 0 /\ e.msg = msg /\ e.mode = LatestTelemetryMode(msg)
      /\ e.source = SourceOf(msg) /\ e.function = FunctionOf(msg)
  <2>1. 0 \in Nat
    OBVIOUS
  <2>2. e \in Entries
    BY <1>2, <1>4, <2>1, Zenon DEF Entries
  <2>3. QED
    BY <2>2
<1> HIDE DEF e
<1>6. /\ update.tracker \in Trackers /\ OldestFirst(update.tracker.seen)
      /\ update.delta \in {Nil} \cup Percentages
      /\ Tracks(update.tracker, Append(log, e))
  BY <1>1, <1>2, <1>5, UpdateTracks DEF update
<1>7. /\ RecordSample(msg) \in [Functions -> [Modes -> Seq(Samples)]]
      /\ \A f \in Functions, m \in Modes : OldestFirst(RecordSample(msg)[f][m])
  BY <1>1, <1>2, RecordedSamples
<1>8. /\ Append(log, e) \in Seq(Entries) /\ OldestFirst(Append(log, e))
      /\ Append(received, e) \in Seq(Entries) /\ OldestFirst(Append(received, e))
      /\ Len(Append(log, e)) = Len(log) + 1 /\ Len(log) \in Nat
      /\ Len(Append(log, e)) <= MaxMessages
  <2>1. /\ log \in Seq(Entries) /\ OldestFirst(log)
        /\ received \in Seq(Entries) /\ OldestFirst(received)
    BY <1>1 DEF Types, Ordered
  <2>2. /\ Append(log, e) \in Seq(Entries) /\ OldestFirst(Append(log, e))
        /\ Append(received, e) \in Seq(Entries) /\ OldestFirst(Append(received, e))
    BY <1>5, <2>1, AppendNewest, EntryFields
  <2>3. Len(Append(log, e)) = Len(log) + 1 /\ Len(log) \in Nat
    BY <1>5, <2>1
  <2>4. QED
    BY <1>3, <2>2, <2>3, ConstantTypes
<1>9. update.tracker.risky \in Nat
  BY <1>6, TrackerFields
<1>10. /\ v \in Versions /\ v.battery # Nil
       /\ v.risky \in {update.tracker.risky, stored.risky}
       /\ v.upto \in {0, Len(log) + 1}
       /\ v.upto # 0 => v.risky = update.tracker.risky
  BY <1>1, <1>2, <1>6, <1>9, PatchedVersion DEF v, StatusFollows
<1>11. \A i \in 1..Len(versions) : Honest(versions[i], Append(log, e))
  <2>1. TAKE i \in 1..Len(versions)
  <2>2. versions[i] \in Versions /\ log \in Seq(Entries) /\ Honest(versions[i], log)
    BY <1>1 DEF Types, StatusFollows
  <2>3. QED
    BY <1>5, <2>2, HonestAfterAppend
<1>12. Honest(v, Append(log, e))
  <2>1. CASE v.risky = update.tracker.risky
    <3> DEFINE n == Len(Append(log, e))
    <3>1. n \in 0..n /\ (v.upto # 0 => n = v.upto)
      BY <1>8, <1>10
    <3>2. /\ v.risky <= n
          /\ \A i \in n - v.risky + 1 .. n : Drained(Append(log, e), i)
      BY <1>6, <2>1 DEF Tracks
    <3>3. \A i \in n - v.risky + 1 .. n : i > 0
      BY <1>8, <1>9, <2>1, <3>2
    <3>4. Confirmed(Append(log, e), n, v.risky)
      BY <3>2, <3>3 DEF Confirmed
    <3>5. QED
      BY <3>1, <3>4 DEF Honest
  <2>2. CASE v.risky # update.tracker.risky
    <3>1. v.risky = stored.risky /\ v.upto = 0
      BY <1>10, <2>2
    <3>2. Honest(stored, Append(log, e))
      BY <1>1, <1>11, VersionFields DEF stored
    <3>3. QED
      BY <3>1, <3>2 DEF Honest
  <2>3. QED
    BY <2>1, <2>2
<1>13. /\ versions' \in Seq(Versions) /\ Len(versions') > 0
       /\ \A i \in 1..Len(versions') : Honest(versions'[i], Append(log, e))
       /\ Batteries(versions')
  <2>1. versions \in Seq(Versions) /\ Len(versions) > 0 /\ Batteries(versions)
    BY <1>1 DEF Types, StatusFollows
  <2>2. CASE versions' = versions
    BY <1>11, <2>1, <2>2
  <2>3. CASE versions' = Append(versions, v)
    BY <1>10, <1>11, <1>12, <2>1, <2>3, VersionAppended
  <2>4. QED
    BY <1>3, <2>2, <2>3
<1>14. Types'
  BY <1>3, <1>6, <1>7, <1>8, <1>13 DEF Types
<1>15. Ordered'
  BY <1>3, <1>6, <1>7, <1>8 DEF Ordered
<1>16. Tracks(drain, log)'
  BY <1>3, <1>6, Zenon DEF Tracks
<1>17. StatusFollows'
  <2>1. \A i \in 1..Len(versions') : Honest(versions'[i], log')
    BY <1>3, <1>13
  <2>2. QED
    BY <1>13, <2>1 DEF StatusFollows, Honest, Batteries, Confirmed, Drained, Continuous
<1>18. QED
  BY <1>14, <1>15, <1>16, <1>17 DEF Inv

LEMMA OlderSeen ==
  ASSUME NEW seen \in Seq(DrainSamples), OldestFirst(seen), NEW d \in Nat
  PROVE  /\ Older(seen, d) \in Seq(DrainSamples) /\ Len(Older(seen, d)) = Len(seen)
         /\ OldestFirst(Older(seen, d))
         /\ \A k \in 1..Len(seen) : /\ Older(seen, d)[k].age = seen[k].age + d
                                   /\ Older(seen, d)[k].battery = seen[k].battery
<1>1. \A s \in DrainSamples : /\ s.age \in Nat /\ [s EXCEPT !.age = @ + d] \in DrainSamples
                              /\ [s EXCEPT !.age = @ + d].age = s.age + d
  BY DEF DrainSamples
<1>2. /\ Older(seen, d) \in Seq(DrainSamples) /\ Len(Older(seen, d)) = Len(seen)
      /\ OldestFirst(Older(seen, d))
      /\ \A k \in 1..Len(seen) : Older(seen, d)[k].age = seen[k].age + d
  BY <1>1, OlderType
<1>3. \A k \in 1..Len(seen) : Older(seen, d)[k].battery = seen[k].battery
  <2>1. TAKE k \in 1..Len(seen)
  <2>2. Older(seen, d)[k] = [seen[k] EXCEPT !.age = @ + d] /\ seen[k] \in DrainSamples
    BY OlderIsPointwise
  <2>3. QED
    BY <2>2 DEF DrainSamples
<1>4. QED
  BY <1>2, <1>3

LEMMA PassInv ==
  ASSUME Inv, NEW d \in Gaps, Pass(d)
  PROVE  Inv'
<1> DEFINE clock == IF drain.silent = Nil THEN Nil ELSE drain.silent + d
           n == Len(log)
           m == Len(drain.seen)
           w == Older(log, d)
           seen == Older(drain.seen, d)
<1>1. Types /\ Ordered /\ Tracks(drain, log) /\ StatusFollows
  BY DEF Inv
<1>2. d \in Nat
  BY PolicyAssumption
<1>3. drain \in Trackers /\ log \in Seq(Entries) /\ n \in Nat
  BY <1>1 DEF Types
<1>4. /\ log' = w
      /\ drain' = [drain EXCEPT !.silent = clock, !.seen = seen]
      /\ samples' = [f \in Functions |-> [k \in Modes |-> Older(samples[f][k], d)]]
      /\ received' = Older(received, d)
      /\ versions' = versions
  BY DEF Pass
<1>5. /\ w \in Seq(Entries) /\ Len(w) = n /\ OldestFirst(w)
      /\ \A i \in 1..n :
           /\ w[i].age = log[i].age + d /\ w[i].msg = log[i].msg
           /\ w[i].mode = log[i].mode /\ w[i].source = log[i].source
           /\ w[i].function = log[i].function
  BY <1>1, <1>2, <1>3, OlderEntries DEF Ordered
<1>6. /\ drain.seen \in Seq(DrainSamples) /\ m \in Nat /\ drain.risky \in Nat
      /\ drain.silent \in {Nil} \cup Nat /\ drain.mode \in ModeNames
      /\ drain.source \in Texts /\ drain.function \in Texts \cup Functions
  BY <1>3, TrackerFields
<1>7. /\ seen \in Seq(DrainSamples) /\ Len(seen) = m /\ OldestFirst(seen)
      /\ \A k \in 1..m : /\ seen[k].age = drain.seen[k].age + d
                         /\ seen[k].battery = drain.seen[k].battery
  <2>1. OldestFirst(drain.seen)
    BY <1>1 DEF Ordered
  <2>2. QED
    BY <1>2, <1>6, <2>1, OlderSeen
<1>8. \A f \in Functions, k \in Modes :
        Older(samples[f][k], d) \in Seq(Samples) /\ OldestFirst(Older(samples[f][k], d))
  <2>1. \A s \in Samples : /\ s.age \in Nat /\ [s EXCEPT !.age = @ + d] \in Samples
                           /\ [s EXCEPT !.age = @ + d].age = s.age + d
    BY <1>2 DEF Samples
  <2>2. \A f \in Functions, k \in Modes :
          samples[f][k] \in Seq(Samples) /\ OldestFirst(samples[f][k])
    BY <1>1 DEF Types, Ordered
  <2>3. QED
    BY <1>2, <2>1, <2>2, OlderType
<1> HIDE DEF w, seen, clock
<1>9. clock \in {Nil} \cup Nat
  BY <1>2, <1>6 DEF clock
<1>10. drain' = [source |-> drain.source, function |-> drain.function, mode |-> drain.mode,
                 silent |-> clock, seen |-> seen, risky |-> drain.risky]
  <2> DEFINE u == [drain EXCEPT !.silent = clock]
  <2>1. u = [source |-> drain.source, function |-> drain.function, mode |-> drain.mode,
             silent |-> clock, seen |-> drain.seen, risky |-> drain.risky]
    BY <1>3, TrackerReclocked
  <2>2. drain' = [u EXCEPT !.seen = seen]
    BY <1>4
  <2> HIDE DEF u
  <2>3. QED
    BY <2>1, <2>2
<1>11. drain' \in Trackers
  BY <1>6, <1>7, <1>9, <1>10, Zenon DEF Trackers
<1>12. /\ drain'.source = drain.source /\ drain'.function = drain.function
       /\ drain'.mode = drain.mode /\ drain'.silent = clock /\ drain'.seen = seen
       /\ drain'.risky = drain.risky
  BY <1>10
<1>13. /\ samples' \in [Functions -> [Modes -> Seq(Samples)]]
       /\ \A f \in Functions, k \in Modes : OldestFirst(samples'[f][k])
  BY <1>4, <1>8
<1>20. Older(received, d) \in Seq(Entries) /\ OldestFirst(Older(received, d))
  BY <1>1, <1>2, OlderEntries DEF Types, Ordered
<1>14. Types'
  BY <1>1, <1>4, <1>5, <1>11, <1>13, <1>20 DEF Types
<1>15. Ordered'
  BY <1>4, <1>5, <1>7, <1>12, <1>13, <1>20 DEF Ordered
<1>16. StatusFollows'
  <2>1. ASSUME NEW i \in 1..Len(versions) PROVE Honest(versions[i], w)
    <3>1. versions[i] \in Versions /\ Honest(versions[i], log) /\ OldestFirst(log)
      BY <1>1, <2>1 DEF Types, Ordered, StatusFollows
    <3>2. QED
      BY <1>2, <1>3, <3>1, HonestWhenOlder DEF w
  <2>2. \A i \in 1..Len(versions') : Honest(versions'[i], log')
    BY <1>4, <2>1
  <2>3. Batteries(versions')
    BY <1>1, <1>4 DEF StatusFollows
  <2>4. QED
    BY <2>2, <2>3 DEF StatusFollows, Honest, Batteries, Confirmed, Drained, Continuous
<1>17. Tracks(drain', w)
  <2>1. \A i \in 1..n : log[i].age \in Nat
    BY <1>3, EntryFields
  <2>2. /\ m <= n /\ drain.risky <= n
        /\ drain.silent # Nil => n > 0 /\ log[n].age = drain.silent
        /\ m > 0 => drain.silent # Nil
        /\ \A k \in 1..m :
             /\ log[n - m + k].age = drain.seen[k].age
             /\ log[n - m + k].msg.battery = drain.seen[k].battery
             /\ log[n - m + k].mode = Local /\ drain.mode = Local
             /\ log[n - m + k].source = drain.source
             /\ log[n - m + k].function = drain.function
        /\ \A k \in n - m + 1 .. n - 1 : log[k].age - log[k + 1].age <= DrainWindow
        /\ \A i \in n - drain.risky + 1 .. n : Drained(log, i)
    BY <1>1 DEF Tracks
  <2> HIDE DEF n, m
  <2>3. /\ clock # Nil => n > 0 /\ w[n].age = clock
        /\ m > 0 => clock # Nil
    BY <1>2, <1>3, <1>5, <1>6, <2>1, <2>2 DEF clock, Nil
  <2>4. \A k \in 1..m :
          /\ w[n - m + k].age = seen[k].age
          /\ w[n - m + k].msg.battery = seen[k].battery
          /\ w[n - m + k].mode = Local /\ drain.mode = Local
          /\ w[n - m + k].source = drain.source
          /\ w[n - m + k].function = drain.function
    <3>1. TAKE k \in 1..m
    <3>2. n - m + k \in 1..n
      BY <1>3, <1>6, <2>2
    <3> DEFINE i == n - m + k
    <3>3. /\ w[i].age = log[i].age + d /\ w[i].msg = log[i].msg
          /\ w[i].mode = log[i].mode /\ w[i].source = log[i].source
          /\ w[i].function = log[i].function
      BY <1>5, <3>2
    <3>4. seen[k].age = drain.seen[k].age + d /\ seen[k].battery = drain.seen[k].battery
      BY <1>7
    <3>5. /\ log[i].age = drain.seen[k].age /\ log[i].msg.battery = drain.seen[k].battery
          /\ log[i].mode = Local /\ drain.mode = Local
          /\ log[i].source = drain.source /\ log[i].function = drain.function
      BY <2>2
    <3> HIDE DEF i
    <3>6. /\ w[i].age = seen[k].age /\ w[i].msg.battery = seen[k].battery
          /\ w[i].mode = Local /\ drain.mode = Local
          /\ w[i].source = drain.source /\ w[i].function = drain.function
      BY <3>3, <3>4, <3>5, Zenon
    <3>7. QED
      BY <3>6 DEF i
  <2>5. \A k \in n - m + 1 .. n - 1 : w[k].age - w[k + 1].age <= DrainWindow
    <3>1. TAKE k \in n - m + 1 .. n - 1
    <3>2. k \in 1..n /\ k + 1 \in 1..n
      BY <1>3, <1>6, <2>2
    <3>3. w[k].age - w[k + 1].age = log[k].age - log[k + 1].age
      <4>1. w[k].age = log[k].age + d /\ w[k + 1].age = log[k + 1].age + d
        BY <1>5, <3>2
      <4>2. log[k].age \in Nat /\ log[k + 1].age \in Nat
        BY <2>1, <3>2
      <4>3. QED
        BY <1>2, <4>1, <4>2
    <3>4. QED
      BY <2>2, <3>3
  <2>6. \A i \in n - drain.risky + 1 .. n : Drained(w, i)
    <3>1. TAKE i \in n - drain.risky + 1 .. n
    <3>2. i \in 1..n
      BY <1>3, <1>6, <2>2
    <3>3. QED
      BY <1>1, <1>2, <1>3, <2>2, <3>2, DrainedWhenOlder DEF w, n, Ordered
  <2>7. QED
    BY <1>5, <1>7, <1>12, <2>2, <2>3, <2>4, <2>5, <2>6, Zenon DEF Tracks
<1>18. Tracks(drain, log)'
  BY <1>4, <1>17, Zenon DEF Tracks
<1>19. QED
  BY <1>14, <1>15, <1>16, <1>18 DEF Inv

\* The versions change, and nothing that they are compared with.
LEMMA VersionsInv ==
  ASSUME Inv, UNCHANGED <<drain, samples, log, received>>,
         versions' \in Seq(Versions), Len(versions') > 0,
         \A i \in 1..Len(versions') : Honest(versions'[i], log),
         Batteries(versions')
  PROVE  Inv'
<1>1. Types'
  BY DEF Inv, Types
<1>2. Ordered'
  BY DEF Inv, Ordered
<1>3. Tracks(drain, log)'
  BY Zenon DEF Inv, Tracks
<1>4. StatusFollows'
  <2>1. \A i \in 1..Len(versions') : Honest(versions'[i], log')
    OBVIOUS
  <2>2. QED
    BY <2>1 DEF StatusFollows, Honest, Batteries, Confirmed, Drained, Continuous
<1>5. QED
  BY <1>1, <1>2, <1>3, <1>4 DEF Inv

LEMMA SelectInv ==
  ASSUME Inv, NEW f \in Functions, Select(f)
  PROVE  Inv'
<1> DEFINE v == [stored EXCEPT !.identity = f]
<1>1. /\ versions' = Append(versions, v)
      /\ UNCHANGED <<drain, samples, log, received>>
  BY DEF Select
<1>2. Types /\ StatusFollows
  BY DEF Inv
<1>3. stored \in Versions /\ Len(versions) \in 1..Len(versions)
  BY <1>2, VersionFields
<1>4. /\ v \in Versions /\ v.battery = stored.battery /\ v.delta = stored.delta
      /\ v.risky = stored.risky /\ v.upto = stored.upto
  BY <1>3 DEF Versions
<1> HIDE DEF v
<1>5. Honest(stored, log) /\ (stored.delta # Nil => stored.battery # Nil)
  BY <1>2, <1>3 DEF StatusFollows, Batteries, stored
<1>6. Honest(v, log)
  BY <1>4, <1>5 DEF Honest
<1>7. /\ versions' \in Seq(Versions) /\ Len(versions') > 0
      /\ \A i \in 1..Len(versions') : Honest(versions'[i], log)
      /\ Batteries(versions')
  <2>1. /\ versions \in Seq(Versions) /\ Len(versions) > 0 /\ Batteries(versions)
        /\ \A i \in 1..Len(versions) : Honest(versions[i], log)
    BY <1>2 DEF Types, StatusFollows
  <2>2. versions[Len(versions)].battery # Nil => v.battery # Nil
    BY <1>4 DEF stored
  <2>3. QED
    BY <1>1, <1>4, <1>5, <1>6, <2>1, <2>2, VersionAppended
<1>8. QED
  BY <1>1, <1>7, VersionsInv

LEMMA WatchInv ==
  ASSUME Inv, Watch
  PROVE  Inv'
<1> DEFINE w == Tail(versions)
<1>1. versions' = w /\ UNCHANGED <<drain, samples, log, received>> /\ Len(versions) > 1
  BY DEF Watch
<1>2. /\ versions \in Seq(Versions) /\ Batteries(versions) /\ Len(versions) \in Nat
      /\ \A i \in 1..Len(versions) : Honest(versions[i], log)
  BY DEF Inv, Types, StatusFollows
<1>3. /\ w \in Seq(Versions) /\ Len(w) = Len(versions) - 1
      /\ \A i \in 1..Len(w) : w[i] = versions[i + 1]
  BY <1>1, <1>2
<1> HIDE DEF w
<1>4. \A i \in 1..Len(w) : i + 1 \in 1..Len(versions)
  BY <1>1, <1>2, <1>3
<1>5. \A i \in 1..Len(w) : Honest(w[i], log) /\ (w[i].delta # Nil => w[i].battery # Nil)
  BY <1>2, <1>3, <1>4 DEF Batteries
<1>6. ASSUME NEW i \in 1..Len(w), NEW j \in 1..Len(w), i <= j, w[i].battery # Nil
      PROVE  w[j].battery # Nil
  <2>1. i + 1 <= j + 1
    BY <1>6
  <2>2. QED
    BY <1>2, <1>3, <1>4, <1>6, <2>1 DEF Batteries
<1>7. versions' \in Seq(Versions) /\ Len(versions') > 0 /\ Batteries(versions')
  BY <1>1, <1>2, <1>3, <1>5, <1>6 DEF Batteries
<1>8. QED
  BY <1>1, <1>5, <1>7, VersionsInv

\* The operator's memory starts over; what was stored before stays true of the log.
LEMMA RestartInv ==
  ASSUME Inv, Restart
  PROVE  Inv'
<1>1. /\ versions' = <<stored>> /\ drain' = NoDrain /\ samples' = NoSamples
      /\ received' = <<>> /\ log' = log
  BY DEF Restart
<1>2. Types /\ Ordered /\ StatusFollows
  BY DEF Inv
<1>3. stored \in Versions /\ Len(versions) \in 1..Len(versions)
  BY <1>2, VersionFields
<1>4. Honest(stored, log) /\ (stored.delta # Nil => stored.battery # Nil)
  BY <1>2, <1>3 DEF StatusFollows, Batteries, stored
<1>5. /\ versions' \in Seq(Versions) /\ Len(versions') = 1 /\ versions'[1] = stored
  BY <1>1, <1>3
<1>6. OldestFirst(<<>>) /\ <<>> \in Seq(Entries)
  BY DEF OldestFirst
<1>7. Types'
  BY <1>1, <1>2, <1>5, <1>6, NoDrainType, NoSamplesType DEF Types
<1>8. Ordered'
  BY <1>1, <1>2, <1>6, NoDrainType, NoSamplesType DEF Ordered
<1>9. Tracks(drain, log)'
  <2>1. Tracks(NoDrain, log)
    BY <1>2, TracksFresh DEF Types
  <2>2. QED
    BY <1>1, <2>1, Zenon DEF Tracks
<1>10. StatusFollows'
  <2>1. \A i \in 1..Len(versions') : Honest(versions'[i], log')
    BY <1>1, <1>4, <1>5
  <2>2. Batteries(versions')
    BY <1>4, <1>5 DEF Batteries
  <2>3. QED
    BY <2>1, <2>2 DEF StatusFollows, Honest, Batteries, Confirmed, Drained, Continuous
<1>11. QED
  BY <1>7, <1>8, <1>9, <1>10 DEF Inv

LEMMA StepInv ==
  ASSUME Inv, [Next]_vars
  PROVE  Inv'
<1>1. CASE \E raw \in Messages : Apply(raw)
  BY <1>1, ApplyInv
<1>2. CASE \E d \in Gaps : Pass(d)
  BY <1>2, PassInv
<1>3. CASE \E f \in Functions : Select(f)
  BY <1>3, SelectInv
<1>4. CASE UNCHANGED vars
  <2>1. /\ versions' = versions /\ UNCHANGED <<drain, samples, log, received>>
    BY <1>4 DEF vars
  <2>2. QED
    BY <2>1, VersionsInv DEF Inv, Types, StatusFollows
<1>5. CASE Watch \/ Restart
  BY <1>5, WatchInv, RestartInv
<1>6. QED
  BY <1>1, <1>2, <1>3, <1>4, <1>5 DEF Next

LEMMA PolicyInvariance == Spec => []Inv
<1>1. Init => Inv
  BY InitInv
<1>2. Inv /\ [Next]_vars => Inv'
  BY StepInv
<1>3. QED
  BY <1>1, <1>2, PTL DEF Spec

-----------------------------------------------------------------------------
(* The theorems. *)

\* Whatever the messages say, what the bridge keeps and publishes has its type in
\* every version of the object: the battery and its drain are percentages, and no
\* more risky messages are counted than were applied, although merge patches
\* against an old cache mix what different messages reported.
THEOREM PolicyTypes == Spec => []TypeOK
<1>1. ASSUME Inv PROVE TypeOK
  <2>1. /\ versions \in Seq(Versions) /\ Len(versions) > 0 /\ drain \in Trackers
        /\ samples \in [Functions -> [Modes -> Seq(Samples)]]
        /\ log \in Seq(Entries) /\ Len(log) <= MaxMessages
    BY <1>1 DEF Inv, Types
  <2>2. ASSUME NEW i \in DOMAIN versions
        PROVE  /\ versions[i].identity \in Functions
               /\ versions[i].battery \in {Nil} \cup 0..100
               /\ versions[i].observedMode \in {""} \cup Modes
               /\ versions[i].risky \in 0..MaxMessages
               /\ versions[i].delta \in {Nil} \cup 0..100
    <3>1. versions[i] \in Versions /\ i \in 1..Len(versions)
      BY <2>1, <2>2
    <3>2. /\ versions[i].identity \in Functions
          /\ versions[i].battery \in {Nil} \cup 0..100
          /\ versions[i].observedMode \in {""} \cup Modes
          /\ versions[i].delta \in {Nil} \cup 0..100 /\ versions[i].risky \in Nat
      BY <3>1, VersionTypes DEF Percentages, ModeNames
    <3>3. versions[i].risky <= Len(log)
      BY <1>1, <2>1, <3>1, HonestCount DEF Inv, StatusFollows
    <3>4. Len(log) \in Nat /\ MaxMessages \in Nat
      BY <2>1, ConstantTypes
    <3>5. versions[i].risky \in Nat /\ Len(log) <= MaxMessages
      BY <2>1, <3>2
    <3>6. versions[i].risky \in 0..MaxMessages
      BY <3>3, <3>4, <3>5
    <3>7. QED
      BY <3>2, <3>6, Zenon
  <2>3. drain.mode \in {""} \cup Modes
    BY <2>1, TrackerFields DEF ModeNames
  <2>4. versions # <<>>
    BY <2>1
  <2>5. \A f \in Functions, m \in Modes : \A i \in DOMAIN samples[f][m] :
          samples[f][m][i].value \in [Metrics -> Int]
    <3>1. TAKE f \in Functions, m \in Modes
    <3>2. TAKE i \in DOMAIN samples[f][m]
    <3>3. samples[f][m] \in Seq(Samples)
      BY <2>1
    <3>4. samples[f][m][i] \in Samples
      BY <3>3
    <3>5. QED
      BY <3>4 DEF Samples, Times, Nil
  <2>6. QED
    BY <2>2, <2>3, <2>4, <2>5 DEF TypeOK
<1>2. QED
  BY <1>1, PolicyInvariance, PTL

\* The drain rule fires only on a confirmed drain: whatever came in before, each of
\* riskyWindows messages in a row was maxDrain below one of the same regime within
\* the window, although updateBatteryDeltaStatus keeps only a few samples and a
\* counter, an operator restart loses both, patches fail and the cache lags.  They
\* are the last ones the cached status shows, unless a patch against an older cache
\* mixed two messages in it.
THEOREM DrainConfirmed == Spec => []DrainIsConfirmed
<1>1. ASSUME Inv PROVE DrainIsConfirmed
  <2> DEFINE needed == OrDefault(Policy.riskyWindows, 2)
  <2>1. SUFFICES ASSUME LocalBatteryDeltaForcesEdge(Wf)
                 PROVE  \E n \in DOMAIN log :
                          /\ cached.upto # 0 => n = cached.upto
                          /\ \A i \in n - needed + 1 .. n : i > 0 /\ Drained(log, i)
    BY DEF DrainIsConfirmed
  <2>2. needed \in Nat \ {0}
    BY ConstantTypes
  <2>3. cached.risky >= needed
    BY <2>1 DEF LocalBatteryDeltaForcesEdge, Wf
  <2>4. cached \in Versions /\ 1 \in 1..Len(versions) /\ cached.risky \in Nat
    BY <1>1, VersionFields, VersionTypes DEF Inv
  <2>5. Honest(cached, log) /\ log \in Seq(Entries) /\ Len(log) \in Nat
    BY <1>1, <2>4 DEF Inv, Types, StatusFollows, cached
  <2>6. PICK n \in 0..Len(log) : /\ Confirmed(log, n, cached.risky)
                                 /\ cached.upto # 0 => n = cached.upto
    BY <2>5 DEF Honest
  <2> HIDE DEF needed
  <2>7. n \in Nat /\ n - cached.risky + 1 \in n - cached.risky + 1 .. n
    BY <2>2, <2>3, <2>4, <2>5, <2>6
  <2>8. n - cached.risky + 1 > 0
    BY <2>6, <2>7 DEF Confirmed
  <2>9. n \in DOMAIN log
    BY <2>2, <2>3, <2>4, <2>5, <2>7, <2>8
  <2>10. \A i \in n - needed + 1 .. n : i \in n - cached.risky + 1 .. n
    BY <2>2, <2>3, <2>4, <2>7
  <2>11. \A i \in n - needed + 1 .. n : i > 0 /\ Drained(log, i)
    BY <2>6, <2>10 DEF Confirmed
  <2>12. QED
    BY <2>6, <2>9, <2>11
<1>2. QED
  BY <1>1, PolicyInvariance, PTL

LEMMA CandidateFields ==
  ASSUME NEW mode, NEW p, NEW loc
  PROVE  LET c == Candidate(mode, p, loc)
         IN  /\ c.mode = mode /\ c.desired = p /\ c.localities = loc
             /\ c.topic = Policy.topic /\ c.low = Policy.low /\ c.high = Policy.high
             /\ c.specBattery = Policy.specBattery
             /\ c.thresholdPolicy = Policy.thresholdPolicy
             /\ c.deadlinePolicy = Policy.deadlinePolicy
             /\ c.deltaPolicy = Policy.deltaPolicy
             /\ c.maxDrain = Policy.maxDrain /\ c.riskyWindows = Policy.riskyWindows
             /\ c.target = Policy.target /\ c.minSlack = Policy.minSlack
             /\ c.safetyMargin = Policy.safetyMargin /\ c.identity = identity
             /\ c.battery = cached.battery /\ c.observedMode = cached.observedMode
             /\ c.observedFunction = cached.observedFunction
             /\ c.delta = cached.delta /\ c.risky = cached.risky
BY DEF Candidate, Wf

\* A candidate that can change its mind only through the low battery settles.
LEMMA CandidateSettles ==
  ASSUME Inv, EffectiveLow(Policy) < EffectiveHigh(Policy),
         NEW est, NEW mode \in {"auto", Edge, Local}, NEW loc, NEW p \in Placements,
         mode = Local => ~BatteryIsLow(Wf)
  PROVE  /\ ResolvePlacement(Candidate(mode, p, loc), est).desired \in Placements
         /\ \A q : q = ResolvePlacement(Candidate(mode, p, loc), est).desired =>
              ResolvePlacement(Candidate(mode, q, loc), est).desired = q
<1> DEFINE wf == Candidate(mode, p, loc)
<1>1. ResolvePlacement(wf, est).desired \in Placements
  BY DecisionShape, Zenon DEF Placements
<1>2. /\ wf.low = Policy.low /\ wf.high = Policy.high /\ wf.battery = cached.battery
      /\ wf.specBattery = Policy.specBattery /\ wf.delta = cached.delta
      /\ wf.thresholdPolicy = Policy.thresholdPolicy /\ wf.mode = mode
  BY CandidateFields
<1>3. /\ Wf.low = Policy.low /\ Wf.battery = cached.battery
      /\ Wf.specBattery = Policy.specBattery
      /\ Wf.thresholdPolicy = Policy.thresholdPolicy
  BY DEF Wf
<1>4. ASSUME NEW q, q = ResolvePlacement(wf, est).desired
      PROVE  /\ SameButDesired(wf, Candidate(mode, q, loc))
             /\ Candidate(mode, q, loc).desired = q
  BY CandidateFields DEF SameButDesired
<1> HIDE DEF wf
<1>5. EffectiveLow(wf) = EffectiveLow(Policy) /\ EffectiveHigh(wf) = EffectiveHigh(Policy)
  BY <1>2 DEF EffectiveLow, EffectiveHigh
<1>6. CASE mode = Local
  <2>1. BatteryIsLow(wf) = BatteryIsLow(Wf)
    BY <1>2, <1>3, <1>5 DEF BatteryIsLow, BatteryPercentForPlacement, EffectiveLow
  <2>2. QED
    BY <1>1, <1>2, <1>4, <1>6, <2>1, LocalModeSettles DEF wf
<1>7. CASE mode # Local
  <2>1. cached.battery \in Int /\ (cached.delta # Nil => cached.battery # Nil)
    <3>1. cached.battery \in {Nil} \cup Percentages /\ 1 \in 1..Len(versions)
      BY VersionFields, VersionTypes DEF Inv
    <3>2. cached.delta # Nil => cached.battery # Nil
      BY <3>1 DEF Inv, StatusFollows, Batteries, cached
    <3>3. cached.battery \in Int
      <4>1. \A x \in {Nil} \cup Percentages : x \in Int
        BY DEF Percentages, Nil
      <4>2. QED
        BY <3>1, <4>1
    <3>4. QED
      BY <3>2, <3>3
  <2>2. Hysteretic(wf)
    BY <1>2, <1>5, <2>1, ConstantTypes DEF Hysteretic
  <2>3. QED
    BY <1>1, <1>2, <1>4, <1>7, <2>2, DecisionSettles DEF wf
<1>8. QED
  BY <1>6, <1>7

\* Hysteresis of the whole policy: whatever telemetry came in, in auto and in edge
\* mode the second reconcile of the same telemetry keeps the first one's decision.
\* The thresholds in effect must be apart; the code only keeps them from crossing.
THEOREM OneMove ==
  ASSUME EffectiveLow(Policy) < EffectiveHigh(Policy)
  PROVE  Spec => []OneMovePerObservation
<1>1. ASSUME Inv PROVE OneMovePerObservation
  BY <1>1, CandidateSettles DEF OneMovePerObservation, Settled, Local, Edge
<1>2. QED
  BY <1>1, PolicyInvariance, PTL

\* No value of spec.placement.mode oscillates while the battery is above the low
\* threshold: the hard low-battery rule against mode local is the only way to get one
\* move after another out of the same telemetry.
THEOREM OscillationNeedsLowBattery ==
  ASSUME EffectiveLow(Policy) < EffectiveHigh(Policy)
  PROVE  Spec => [](~BatteryIsLow(Wf) => NoImmediateOscillation)
<1>1. ASSUME Inv, ~BatteryIsLow(Wf) PROVE NoImmediateOscillation
  BY <1>1, CandidateSettles DEF NoImmediateOscillation, Settled
<1>2. Inv => (~BatteryIsLow(Wf) => NoImmediateOscillation)
  BY <1>1
<1>3. QED
  BY <1>2, PolicyInvariance, PTL

\* The rank estimateDeadlinePercentile picks among n values is the nearest one:
\* the least r with r of n values making up Percentile percent, for every n.
THEOREM RankIsNearest ==
  ASSUME NEW n \in Nat \ {0}
  PROVE  /\ NearestRank(n) \in 1..n
         /\ 100 * NearestRank(n) >= Percentile * n
         /\ 100 * (NearestRank(n) - 1) < Percentile * n
<1> DEFINE x == Percentile * n
<1>1. Percentile \in 1..100
  BY PolicyAssumption
<1>2. x \in Int /\ x > 0 /\ x <= 100 * n
  BY <1>1
<1>3. NearestRank(n) = LET rank == (x + 99) \div 100
                       IN  IF rank < 1 THEN 1 ELSE IF rank > n THEN n ELSE rank
  BY DEF NearestRank
<1> HIDE DEF x
<1>4. /\ (x + 99) \div 100 \in 1..n /\ 100 * ((x + 99) \div 100) >= x
      /\ 100 * (((x + 99) \div 100) - 1) < x
  BY <1>2
<1>5. NearestRank(n) = (x + 99) \div 100
  BY <1>3, <1>4
<1>6. QED
  BY <1>4, <1>5 DEF x
=============================================================================
