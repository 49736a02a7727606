-------------------------- MODULE BoundedRunProofs --------------------------
(***************************************************************************)
(* Theorems about BoundedRun, for every batch, every file found in the      *)
(* output folder, and any number of faults and signals: what a run has open *)
(* and in what order, which files it may touch, and what it reports.        *)
(***************************************************************************)
EXTENDS BoundedRun, FiniteSetTheorems, SequenceTheorems, WellFoundedInduction, TLAPS

-----------------------------------------------------------------------------
\* The inductive invariant

\* Where the run stands: in a section whose store is open, on one of its pages,
\* with a note in hand.
WithAsset == {"openAsset", "copyAsset", "recordAsset"}
Written == WithAsset \cup {"render", "claimAsset", "rememberAsset", "renderRest",
                           "finishNote"}
WithNote == Written \cup {"openNote", "recordNote"}
OnPage == WithNote \cup {"countWait", "pageWait", "claimNote", "abortNote",
                         "noteFailed", "level"}
Converting == OnPage \cup {"claimSection", "count", "pages"}
Resources == {"workspace", "descriptor", "sink", "index", "store"}

\* The counters, and the input and the page the run is on.
CursorSound ==
  /\ arrived \in Nat /\ signals \in Nat
  /\ Len(batch) \in Nat /\ \A n \in 1..Len(batch) : Len(batch[n].pages) \in Nat
  /\ pc = "open" \/ "descriptor" \in held => input >= 1
  /\ pc \in OnPage => page <= Len(Pages)

\* Each resource is registered once, the workspace store first of all and the
\* descriptor below what is read through it.
Ordered(s) ==
  /\ s \in Seq(Resources)
  /\ \A i, j \in 1..Len(s) : s[i] = s[j] => i = j
  /\ \A i \in 1..Len(s) :
       /\ s[1] = "workspace"
       /\ s[i] \in {"index", "store"} => \E j \in 1..i-1 : s[j] = "descriptor"
StackSound == Ordered(stack) /\ held = Range(stack)

\* What is open at each step.
HeldSound ==
  /\ pc = "start" => held = {}
  /\ pc \in {"next", "open", "group", "report"} => held = {"workspace"}
  /\ pc \in {"reject", "index", "inputFailed", "closeInput", "store", "sectionFailed",
             "closeSection"} \cup Converting => {"workspace", "descriptor"} \subseteq held
  /\ pc \in {"reject", "index", "inputFailed", "closeInput"} =>
       held \cap {"index", "store"} = {}
  /\ pc = "store" => "index" \in held /\ "store" \notin held
  /\ pc \in Converting => {"index", "store"} \subseteq held
  /\ pc \in {"index", "store"} \cup Converting => mode = "dryRun" \/ "sink" \in held
  /\ pc = "exited" => held = {}
  /\ openWriters # {} => "sink" \in held

\* Every file of the run has a name it claimed, and what is claimed for the note
\* or the attachment in hand is no file yet and is reported nowhere.
Reported == {r.path : r \in Records("notes") \cup Records("attachments")}
NamesSound ==
  /\ IsFiniteSet(claimed)
  /\ whole \cup partial \cup unsure \cup Reported \subseteq claimed
  /\ pc \in WithNote => note \in claimed \ Reported
  /\ pc = "openNote" => note \notin whole \cup partial \cup unsure
  /\ pc \in WithAsset => asset \in claimed \ Reported /\ asset # note
  /\ pc = "openAsset" => asset \notin whole \cup partial \cup unsure

\* A note is open until it is finished, and complete before it is reported.
WritersSound ==
  /\ mode \in Modes
  /\ mode # "dryRun" =>
       /\ pc \in Written => note \in openWriters
       /\ pc = "copyAsset" => asset \in openWriters
       /\ pc \in {"recordAsset", "rememberAsset"} => asset \in whole
       /\ pc = "recordNote" => note \in whole

\* The lists of the report are sequences.
ReportSound ==
  /\ DOMAIN report = Lists
  /\ \A list \in Lists : \E S : report[list] \in Seq(S)

\* Once a note was finished after a signal, no other is begun.
LateSound ==
  /\ late \in {0, 1}
  /\ late = 1 => arrived + signals > 0 /\ pc \notin WithNote \ {"recordNote"} /\ pc # "claimNote"

IInv ==
  /\ TypeOK /\ CursorSound /\ StackSound /\ HeldSound
  /\ NamesSound /\ WritersSound /\ ReportSound /\ LateSound
  /\ RecordedOnDisk /\ NoPathTwice
-----------------------------------------------------------------------------
\* Names and stacks

\* A non-empty set of numbers has a least one.
LEMMA Least ==
  ASSUME NEW T, T \subseteq Nat, T # {}
  PROVE  \E n \in T : \A m \in T : n <= m
<1> DEFINE R == {d \in Nat \X Nat : d[1] < d[2]}
<1>1. IsWellFoundedOn(R, Nat)
  BY NatLessThanWellFounded DEF OpToRel
<1>2. \E n \in T : \A m \in T : <<m, n>> \notin R
  BY <1>1, WFMin
<1>3. \A m, n \in Nat : <<m, n>> \in R <=> m < n
  OBVIOUS
<1> HIDE DEF R
<1>4. PICK n \in T : \A m \in T : <<m, n>> \notin R
  BY <1>2
<1>5. \A m \in T : ~(m < n)
  BY <1>3, <1>4
<1>. QED  BY <1>5

\* One name more than there are taken ones, and they are not all taken.
LEMMA TooManyForAll ==
  ASSUME NEW C, IsFiniteSet(C), NEW f, f \in [0..Cardinality(C) -> C]
  PROVE  \E i, j \in 0..Cardinality(C) : i # j /\ f[i] = f[j]
<1> DEFINE I == 0..Cardinality(C)
<1>1. Cardinality(C) \in Nat
  BY FS_CardinalityType
<1>2. IsFiniteSet(I) /\ Cardinality(I) = Cardinality(C) + 1
  BY <1>1, FS_Interval
<1>3. Cardinality(C) < Cardinality(I)
  BY <1>1, <1>2
<1> HIDE DEF I
<1>4. f \in [I -> C]
  BY DEF I
<1>5. \E i, j \in I : i # j /\ f[i] = f[j]
  BY <1>2, <1>3, <1>4, FS_PigeonHole
<1>. QED  BY <1>5 DEF I

\* availableFileName finds a free name, however many are taken.
LEMMA AvailableIsFree ==
  ASSUME NEW dir, NEW name, IsFiniteSet(claimed)
  PROVE  Available(dir, name) \notin claimed
<1> DEFINE Candidate(n) == [dir |-> dir, name |-> name, copy |-> n]
           N == Cardinality(claimed)
           T == {n \in 0..N : Candidate(n) \notin claimed}
<1>1. N \in Nat
  BY FS_CardinalityType
<1>2. T # {}
  <2> SUFFICES ASSUME T = {} PROVE FALSE  OBVIOUS
  <2> DEFINE f == [n \in 0..N |-> Candidate(n)]
  <2>1. f \in [0..N -> claimed]
    OBVIOUS
  <2>2. \E i, j \in 0..N : i # j /\ f[i] = f[j]
    <3> HIDE DEF f
    <3>. QED  BY <2>1, TooManyForAll
  <2>3. PICK i, j \in 0..N : i # j /\ f[i] = f[j]
    BY <2>2
  <2>4. Candidate(i).copy = i /\ Candidate(j).copy = j
    OBVIOUS
  <2>. QED  BY <2>3, <2>4
<1>3. T \subseteq Nat
  BY <1>1
<1>4. PICK n \in T : \A m \in T : n <= m
  BY <1>2, <1>3, Least
<1>5. n \in 0..N /\ Candidate(n) \notin claimed /\ \A m \in 0..n-1 : Candidate(m) \in claimed
  BY <1>1, <1>4
<1> DEFINE c == CHOOSE k \in 0..N : /\ Candidate(k) \notin claimed
                                    /\ \A m \in 0..k-1 : Candidate(m) \in claimed
<1>6. Candidate(c) \notin claimed
  BY <1>5
<1>. QED  BY <1>6 DEF Available

\* Splicing an entry out of a stack keeps the others in their order.
LEMMA WithoutKeeps ==
  ASSUME NEW s \in Seq(Resources), NEW what,
         \A i, j \in 1..Len(s) : s[i] = s[j] => i = j
  PROVE  LET r == Without(s, what)
         IN  /\ r \in Seq(Resources)
             /\ \A i, j \in 1..Len(r) : r[i] = r[j] => i = j
             /\ Range(r) = Range(s) \ {what}
             /\ \A i \in 1..Len(r) : \E n \in 1..Len(s) :
                  /\ n >= i /\ r[i] = s[n]
                  /\ \A m \in 1..n-1 : s[m] # what => \E j \in 1..i-1 : r[j] = s[m]
<1> DEFINE r == Without(s, what)
<1>1. CASE \A i \in 1..Len(s) : s[i] # what
  <2>1. r = s
    BY <1>1 DEF Without
  <2>2. Range(s) = {s[i] : i \in 1..Len(s)}
    BY DEF Range
  <2>3. \A i \in 1..Len(s) : \A m \in 1..i-1 : \E j \in 1..i-1 : s[j] = s[m]
    OBVIOUS
  <2>4. Range(s) = Range(s) \ {what}
    BY <1>1, <2>2
  <2>5. \A i \in 1..Len(s) : i >= i
    OBVIOUS
  <2> HIDE DEF r
  <2>6. \A i \in 1..Len(r) : \E n \in 1..Len(s) :
          /\ n >= i /\ r[i] = s[n]
          /\ \A m \in 1..n-1 : s[m] # what => \E j \in 1..i-1 : r[j] = s[m]
    BY <2>1, <2>3, <2>5
  <2>. QED  BY <2>1, <2>4, <2>6 DEF r
<1>2. CASE ~\A i \in 1..Len(s) : s[i] # what
  <2> DEFINE at == CHOOSE i \in 1..Len(s) : s[i] = what
             n == Len(s)
  <2>1. at \in 1..n /\ s[at] = what /\ n \in Nat
    BY <1>2
  <2>2. r = [i \in 1..n-1 |-> s[IF i < at THEN i ELSE i + 1]]
    BY <1>2 DEF Without
  <2> HIDE DEF at, r
  <2>3. \A i \in 1..n-1 : (IF i < at THEN i ELSE i + 1) \in 1..n
    BY <2>1
  <2>4. r \in Seq(Resources) /\ Len(r) = n - 1
    <3>1. r \in [1..n-1 -> Resources]
      BY <2>1, <2>2, <2>3
    <3>. QED  BY <2>1, <3>1, SMT
  <2>5. \A i \in 1..n-1 : r[i] = s[IF i < at THEN i ELSE i + 1]
    BY <2>2
  <2>6. \A i, j \in 1..Len(r) : r[i] = r[j] => i = j
    <3> SUFFICES ASSUME NEW i \in 1..n-1, NEW j \in 1..n-1, r[i] = r[j]
                 PROVE  i = j
      BY <2>4
    <3> DEFINE Was(l) == IF l < at THEN l ELSE l + 1
    <3>1. Was(i) \in 1..n /\ Was(j) \in 1..n /\ s[Was(i)] = s[Was(j)]
      BY <2>3, <2>5
    <3> HIDE DEF Was
    <3>2. Was(i) = Was(j)
      BY <3>1
    <3>. QED  BY <2>1, <3>2 DEF Was
  <2>7. \A m \in 1..n : m # at => \E j \in 1..n-1 : r[j] = s[m] /\ j <= m
    <3> SUFFICES ASSUME NEW m \in 1..n, m # at
                 PROVE  \E j \in 1..n-1 : r[j] = s[m] /\ j <= m
      OBVIOUS
    <3>1. CASE m < at
      BY <2>1, <2>5, <3>1
    <3>2. CASE m > at
      <4>1. m - 1 \in 1..n-1 /\ r[m-1] = s[m]
        BY <2>1, <2>5, <3>2
      <4>. QED  BY <4>1
    <3>. QED  BY <2>1, <3>1, <3>2
  <2>8. Range(r) = Range(s) \ {what}
    <3>1. Range(s) = {s[i] : i \in 1..n} /\ Range(r) = {r[i] : i \in 1..n-1}
      BY <2>4 DEF Range
    <3>2. \A i \in 1..n-1 : r[i] \in Range(s) \ {what}
      BY <2>1, <2>3, <2>5, <3>1
    <3>3. \A m \in 1..n : s[m] # what => \E j \in 1..n-1 : r[j] = s[m]
      BY <2>1, <2>7
    <3>4. Range(r) \subseteq Range(s) \ {what}
      BY <3>1, <3>2
    <3>5. Range(s) \ {what} \subseteq Range(r)
      BY <3>1, <3>3
    <3>. QED  BY <3>4, <3>5
  <2>9. ASSUME NEW i \in 1..n-1
        PROVE  \E k \in 1..n :
                  /\ k >= i /\ r[i] = s[k]
                  /\ \A m \in 1..k-1 : s[m] # what => \E j \in 1..i-1 : r[j] = s[m]
    <3>1. CASE i < at
      <4>1. i \in 1..n /\ r[i] = s[i]
        BY <2>1, <2>5, <3>1
      <4>2. \A m \in 1..i-1 : r[m] = s[m]
        BY <2>1, <2>5, <3>1
      <4>. QED  BY <4>1, <4>2
    <3>2. CASE i >= at
      <4>1. i + 1 \in 1..n /\ r[i] = s[i+1]
        BY <2>1, <2>5, <3>2
      <4>2. ASSUME NEW m \in 1..i, s[m] # what
            PROVE  \E j \in 1..i-1 : r[j] = s[m]
        <5>1. CASE m < at
          BY <2>1, <2>5, <3>2, <5>1
        <5>2. CASE m > at
          <6>1. m - 1 \in 1..i-1 /\ r[m-1] = s[m]
            BY <2>1, <2>5, <5>2
          <6>. QED  BY <6>1
        <5>. QED  BY <2>1, <4>2, <5>1, <5>2
      <4>. QED  BY <4>1, <4>2
    <3>. QED  BY <2>1, <3>1, <3>2
  <2>. QED  BY <2>4, <2>6, <2>8, <2>9 DEF r
<1>. QED  BY <1>1, <1>2

\* Taking out an entry that is neither the workspace nor a descriptor still needed
\* leaves the rest in order, and registers all but that entry.
LEMMA WithoutOrdered ==
  ASSUME NEW s, Ordered(s), NEW what, what # "workspace",
         what = "descriptor" => Range(s) \cap {"index", "store"} = {}
  PROVE  Ordered(Without(s, what)) /\ Range(Without(s, what)) = Range(s) \ {what}
<1> DEFINE r == Without(s, what)
<1>1. /\ s \in Seq(Resources)
      /\ \A i, j \in 1..Len(s) : s[i] = s[j] => i = j
      /\ \A i \in 1..Len(s) :
           /\ s[1] = "workspace"
           /\ s[i] \in {"index", "store"} => \E j \in 1..i-1 : s[j] = "descriptor"
  BY DEF Ordered
<1>2. /\ r \in Seq(Resources)
      /\ \A i, j \in 1..Len(r) : r[i] = r[j] => i = j
      /\ Range(r) = Range(s) \ {what}
      /\ \A i \in 1..Len(r) : \E n \in 1..Len(s) :
           /\ n >= i /\ r[i] = s[n]
           /\ \A m \in 1..n-1 : s[m] # what => \E j \in 1..i-1 : r[j] = s[m]
  BY <1>1, WithoutKeeps
<1> HIDE DEF r
<1>3. Len(s) \in Nat /\ Len(r) \in Nat
  BY <1>1, <1>2
<1>4. ASSUME NEW i \in 1..Len(r)
      PROVE  /\ r[1] = "workspace"
             /\ r[i] \in {"index", "store"} => \E j \in 1..i-1 : r[j] = "descriptor"
  <2>1. 1 \in 1..Len(r)
    BY <1>3
  <2>2. PICK n \in 1..Len(s) : r[1] = s[n] /\ \A m \in 1..n-1 : s[m] = what
    BY <1>2, <2>1
  <2>3. n = 1
    BY <1>1, <1>3, <2>2
  <2>4. PICK k \in 1..Len(s) :
          r[i] = s[k] /\ \A m \in 1..k-1 : s[m] # what => \E j \in 1..i-1 : r[j] = s[m]
    BY <1>2
  <2>5. ASSUME r[i] \in {"index", "store"} PROVE \E j \in 1..i-1 : r[j] = "descriptor"
    <3>1. PICK m \in 1..k-1 : s[m] = "descriptor"
      BY <1>1, <2>4, <2>5
    <3>2. r[i] \in Range(s)
      BY <1>1, <2>4 DEF Range
    <3>3. what # "descriptor"
      BY <2>5, <3>2
    <3>. QED  BY <2>4, <3>1, <3>3
  <2>. QED  BY <1>1, <2>2, <2>3, <2>5
<1>5. Ordered(r)
  BY <1>2, <1>4 DEF Ordered
<1>. QED  BY <1>2, <1>5 DEF r

\* What a resource needs below it when it is registered.
LEMMA AcquireOrdered ==
  ASSUME StackSound, NEW what \in Resources \ held,
         held = {} => what = "workspace",
         what \in {"index", "store"} => "descriptor" \in held,
         Acquire(<<what>>)
  PROVE  StackSound' /\ held' = held \cup {what}
<1> DEFINE n == Len(stack)
<1>1. /\ stack \in Seq(Resources) /\ n \in Nat
      /\ \A i, j \in 1..n : stack[i] = stack[j] => i = j
      /\ \A i \in 1..n :
           /\ stack[1] = "workspace"
           /\ stack[i] \in {"index", "store"} => \E j \in 1..i-1 : stack[j] = "descriptor"
      /\ held = {stack[i] : i \in 1..n}
  BY DEF StackSound, Ordered, Range
<1>2. /\ stack' \in Seq(Resources)
      /\ Len(stack') = n + 1
      /\ \A i \in 1..n : stack'[i] = stack[i]
      /\ stack'[n+1] = what
  <2>1. <<what>> \in Seq(Resources) /\ Len(<<what>>) = 1 /\ <<what>>[1] = what
    OBVIOUS
  <2>2. stack' = stack \o <<what>>
    BY DEF Acquire
  <2>. QED  BY <1>1, <2>1, <2>2
<1>3. held' = held \cup {what}
  BY DEF Acquire
<1>4. held' = Range(stack')
  <2>1. Range(stack') = {stack'[i] : i \in 1..n+1}
    BY <1>1, <1>2 DEF Range
  <2> HIDE DEF n
  <2>2. \A i \in 1..n+1 : stack'[i] = IF i = n+1 THEN what ELSE stack[i]
    BY <1>1, <1>2
  <2>3. \A i \in 1..n : i \in 1..n+1 /\ i # n+1
    BY <1>1
  <2>4. n+1 \in 1..n+1 /\ \A i \in 1..n+1 : i # n+1 => i \in 1..n
    BY <1>1
  <2>5. \A e \in Range(stack') : e \in held'
    BY <1>1, <1>3, <2>1, <2>2, <2>4
  <2>6. \A i \in 1..n : stack[i] \in Range(stack')
    BY <2>1, <2>2, <2>3
  <2>7. what \in Range(stack')
    BY <2>1, <2>2, <2>4
  <2>. QED  BY <1>1, <1>3, <2>5, <2>6, <2>7
<1>5. \A i, j \in 1..n+1 : stack'[i] = stack'[j] => i = j
  BY <1>1, <1>2
<1>6. stack'[1] = "workspace"
  <2>1. CASE n = 0
    BY <1>1, <1>2, <2>1
  <2>2. CASE n > 0
    BY <1>1, <1>2, <2>2
  <2>. QED  BY <1>1, <2>1, <2>2
<1>7. \A i \in 1..n+1 : stack'[i] \in {"index", "store"} => \E j \in 1..i-1 : stack'[j] = "descriptor"
  <2> SUFFICES ASSUME NEW i \in 1..n+1, stack'[i] \in {"index", "store"}
               PROVE  \E j \in 1..i-1 : stack'[j] = "descriptor"
    OBVIOUS
  <2>1. CASE i = n + 1
    <3>1. PICK j \in 1..n : stack[j] = "descriptor"
      BY <1>1, <1>2, <2>1
    <3>. QED  BY <1>1, <1>2, <2>1, <3>1
  <2>2. CASE i # n + 1
    <3>1. i \in 1..n /\ stack'[i] = stack[i]
      BY <1>1, <1>2, <2>2
    <3>2. PICK j \in 1..i-1 : stack[j] = "descriptor"
      BY <1>1, <3>1
    <3>3. j \in 1..n
      BY <1>1, <3>1
    <3>. QED  BY <1>2, <3>2, <3>3
  <2>. QED  BY <2>1, <2>2
<1>. QED  BY <1>2, <1>3, <1>4, <1>5, <1>6, <1>7 DEF StackSound, Ordered

\* The descriptor and the sink are registered together.
LEMMA AcquireInput ==
  ASSUME StackSound, held = {"workspace"}, Acquire(<<"descriptor", "sink">>)
  PROVE  StackSound' /\ held' = {"workspace", "descriptor", "sink"}
<1> DEFINE n == Len(stack)
<1>1. /\ stack \in Seq(Resources) /\ n \in Nat
      /\ \A i, j \in 1..n : stack[i] = stack[j] => i = j
      /\ held = {stack[i] : i \in 1..n}
  BY DEF StackSound, Ordered, Range
<1>2. n = 1 /\ stack[1] = "workspace"
  <2>1. PICK i \in 1..n : stack[i] = "workspace"
    BY <1>1
  <2>2. \A j \in 1..n : stack[j] = "workspace"
    BY <1>1
  <2>3. ~(n > 1)
    BY <1>1, <2>2
  <2>4. 1 \in 1..n
    BY <1>1, <2>1
  <2>5. n = 1
    <3>1. n \in Nat
      BY <1>1
    <3> HIDE DEF n
    <3>. QED  BY <2>3, <2>4, <3>1
  <2>6. stack[1] = "workspace"
    BY <2>2, <2>4
  <2>. QED  BY <2>5, <2>6
<1>3. /\ stack' \in Seq(Resources) /\ Len(stack') = 3
      /\ stack'[1] = "workspace" /\ stack'[2] = "descriptor" /\ stack'[3] = "sink"
  <2> DEFINE new == <<"descriptor", "sink">>
  <2>1. new \in Seq(Resources) /\ Len(new) = 2 /\ new[1] = "descriptor" /\ new[2] = "sink"
    BY DEF Resources
  <2>2. stack' = stack \o new
    BY DEF Acquire
  <2> HIDE DEF new
  <2>3. /\ stack' \in Seq(Resources) /\ Len(stack') = 3
        /\ \A i \in 1..3 : stack'[i] = IF i <= 1 THEN stack[i] ELSE new[i - 1]
    <3>0. stack \in Seq(Resources) /\ new \in Seq(Resources)
      BY <1>1, <2>1
    <3>1. Len(stack \o new) = Len(stack) + Len(new) /\ stack \o new \in Seq(Resources)
      BY <3>0, ConcatProperties
    <3>2. \A i \in 1..Len(stack) + Len(new) :
            (stack \o new)[i] = IF i <= Len(stack) THEN stack[i] ELSE new[i - Len(stack)]
      BY <3>0, ConcatProperties
    <3>3. Len(stack) = 1 /\ Len(stack) + Len(new) = 3
      BY <1>2, <2>1
    <3>. QED  BY <2>2, <3>1, <3>2, <3>3
  <2>. QED  BY <1>2, <2>1, <2>3
<1>4. held' = {"workspace", "descriptor", "sink"}
  BY DEF Acquire
<1>5. held' = Range(stack')
  <2>1. Range(stack') = {stack'[i] : i \in 1..3}
    BY <1>3 DEF Range
  <2>. QED  BY <1>3, <1>4, <2>1
<1>6. Ordered(stack')
  BY <1>3 DEF Ordered
<1>. QED  BY <1>4, <1>5, <1>6 DEF StackSound

\* closeAll pops: what goes is above everything that stays.
LEMMA ReleaseLastOrdered ==
  ASSUME StackSound, stack # <<>>, ReleaseLast
  PROVE  StackSound' /\ held' = held \ {stack[Len(stack)]}
<1> DEFINE n == Len(stack)
<1>1. /\ stack \in Seq(Resources) /\ n \in Nat /\ n > 0
      /\ \A i, j \in 1..n : stack[i] = stack[j] => i = j
      /\ \A i \in 1..n :
           /\ stack[1] = "workspace"
           /\ stack[i] \in {"index", "store"} => \E j \in 1..i-1 : stack[j] = "descriptor"
      /\ held = {stack[i] : i \in 1..n}
  BY DEF StackSound, Ordered, Range
<1>2. /\ stack' \in Seq(Resources) /\ Len(stack') = n - 1
      /\ \A i \in 1..n-1 : stack'[i] = stack[i]
  <2>1. stack' = SubSeq(stack, 1, n-1)
    BY DEF ReleaseLast
  <2>2. \A i \in 1..n-1 : stack[i] \in Resources
    BY <1>1
  <2> HIDE DEF n
  <2>. QED  BY <1>1, <2>1, <2>2, SubSeqProperties
<1>3. held' = held \ {stack[n]}
  BY DEF ReleaseLast
<1>4. held' = Range(stack')
  <2>1. Range(stack') = {stack'[i] : i \in 1..n-1}
    BY <1>1, <1>2 DEF Range
  <2>. QED  BY <1>1, <1>2, <1>3, <2>1
<1>5. Ordered(stack')
  <2>1. \A i \in 1..n-1 : stack'[1] = "workspace"
    BY <1>1, <1>2
  <2>2. ASSUME NEW i \in 1..n-1, stack'[i] \in {"index", "store"}
        PROVE  \E j \in 1..i-1 : stack'[j] = "descriptor"
    <3>1. PICK j \in 1..i-1 : stack[j] = "descriptor"
      BY <1>1, <1>2, <2>2
    <3>2. j \in 1..n-1
      BY <1>1
    <3>. QED  BY <1>2, <3>1, <3>2
  <2>3. \A i, j \in 1..n-1 : stack'[i] = stack'[j] => i = j
    BY <1>1, <1>2
  <2>. QED  BY <1>1, <1>2, <2>1, <2>2, <2>3 DEF Ordered
<1>. QED  BY <1>3, <1>4, <1>5 DEF StackSound

\* An owner releases what it opened, and nobody reads through it.
LEMMA ReleaseOrdered ==
  ASSUME StackSound, NEW first, NEW then, "workspace" \notin {first, then},
         "descriptor" \in {first, then} => held \cap {"index", "store"} = {},
         ReleaseBoth(first, then)
  PROVE  StackSound' /\ held' = held \ {first, then}
<1> DEFINE one == Without(stack, first)
           two == Without(one, then)
<1>1. Ordered(one) /\ Range(one) = held \ {first}
  BY WithoutOrdered DEF StackSound
<1> HIDE DEF one
<1>2. Ordered(two) /\ Range(two) = held \ {first, then}
  <2>1. then = "descriptor" => Range(one) \cap {"index", "store"} = {}
    BY <1>1
  <2>2. Ordered(two) /\ Range(two) = Range(one) \ {then}
    BY <1>1, <2>1, WithoutOrdered
  <2>. QED  BY <1>1, <2>2
<1> HIDE DEF two
<1>3. stack' = two /\ held' = held \ {first, then}
  BY DEF ReleaseBoth, one, two
<1>. QED  BY <1>2, <1>3 DEF StackSound

-----------------------------------------------------------------------------
\* What is open, step by step

\* Every step opens and closes its resources in an order that keeps the stack sound.
LEMMA HeldStep ==
  ASSUME IInv, Next
  PROVE  StackSound' /\ HeldSound'
<1> USE DEF Goto, Tries, Crash, settings, files, workspace, closers, cursor, unwinding,
            outcome, events, names, Converting, OnPage, WithNote, Written, WithAsset
<1>0. StackSound /\ HeldSound /\ pc \in Labels
  BY DEF IInv, TypeOK
<1>1. ASSUME NextInput PROVE StackSound' /\ HeldSound'
  BY <1>0, <1>1 DEF NextInput, StackSound, HeldSound
<1>2. ASSUME NoMoreInputs PROVE StackSound' /\ HeldSound'
  BY <1>0, <1>2 DEF NoMoreInputs, StackSound, HeldSound
<1>3. ASSUME RefuseInput PROVE StackSound' /\ HeldSound'
  BY <1>0, <1>3 DEF RefuseInput, StackSound, HeldSound
<1>4. ASSUME RejectContainer PROVE StackSound' /\ HeldSound'
  BY <1>0, <1>4 DEF RejectContainer, StackSound, HeldSound
<1>5. ASSUME InputFailed PROVE StackSound' /\ HeldSound'
  BY <1>0, <1>5 DEF InputFailed, StackSound, HeldSound
<1>6. ASSUME CloseGroup PROVE StackSound' /\ HeldSound'
  BY <1>0, <1>6 DEF CloseGroup, StackSound, HeldSound
<1>7. ASSUME Report PROVE StackSound' /\ HeldSound'
  BY <1>0, <1>7 DEF Report, StackSound, HeldSound
<1>8. ASSUME ClaimSection PROVE StackSound' /\ HeldSound'
  BY <1>0, <1>8 DEF ClaimSection, StackSound, HeldSound
<1>9. ASSUME SectionFailed PROVE StackSound' /\ HeldSound'
  BY <1>0, <1>9 DEF SectionFailed, StackSound, HeldSound
<1>10. ASSUME NoMorePages PROVE StackSound' /\ HeldSound'
  BY <1>0, <1>10 DEF NoMorePages, StackSound, HeldSound
<1>11. ASSUME StartPage PROVE StackSound' /\ HeldSound'
  BY <1>0, <1>11 DEF StartPage, PageFrame, StackSound, HeldSound
<1>12. ASSUME ClaimNote PROVE StackSound' /\ HeldSound'
  BY <1>0, <1>12 DEF ClaimNote, StackSound, HeldSound
<1>13. ASSUME Render PROVE StackSound' /\ HeldSound'
  BY <1>0, <1>13 DEF Render, Writing, WritingFrame, ThrowCancelled, StackSound, HeldSound
<1>14. ASSUME ClaimAsset PROVE StackSound' /\ HeldSound'
  BY <1>0, <1>14 DEF ClaimAsset, Writing, WritingFrame, ThrowCancelled, StackSound, HeldSound
<1>15. ASSUME RecordAsset PROVE StackSound' /\ HeldSound'
  BY <1>0, <1>15 DEF RecordAsset, Writing, WritingFrame, ThrowCancelled, StackSound, HeldSound
<1>16. ASSUME RememberAsset PROVE StackSound' /\ HeldSound'
  BY <1>0, <1>16 DEF RememberAsset, Writing, WritingFrame, ThrowCancelled, StackSound, HeldSound
<1>17. ASSUME RenderRest PROVE StackSound' /\ HeldSound'
  BY <1>0, <1>17 DEF RenderRest, Writing, WritingFrame, ThrowCancelled, StackSound, HeldSound
<1>18. ASSUME RecordNote PROVE StackSound' /\ HeldSound'
  BY <1>0, <1>18 DEF RecordNote, StackSound, HeldSound
<1>19. ASSUME NoteFailed PROVE StackSound' /\ HeldSound'
  BY <1>0, <1>19 DEF NoteFailed, StackSound, HeldSound
<1>20. ASSUME CountPage PROVE StackSound' /\ HeldSound'
  BY <1>0, <1>20 DEF CountPage, StackSound, HeldSound
<1>21. ASSUME CountNext PROVE StackSound' /\ HeldSound'
  BY <1>0, <1>21 DEF CountNext, SectionStep, StackSound, HeldSound
<1>22. ASSUME StartPages PROVE StackSound' /\ HeldSound'
  BY <1>0, <1>22 DEF StartPages, SectionStep, StackSound, HeldSound
<1>23. ASSUME NextPage PROVE StackSound' /\ HeldSound'
  BY <1>0, <1>23 DEF NextPage, SectionStep, StackSound, HeldSound
<1>24. ASSUME Level PROVE StackSound' /\ HeldSound'
  BY <1>0, <1>24 DEF Level, SectionStep, StackSound, HeldSound
<1>25. ASSUME Arrive PROVE StackSound' /\ HeldSound'
  BY <1>0, <1>25 DEF Arrive, Still, StackSound, HeldSound
<1>26. ASSUME Deliver PROVE StackSound' /\ HeldSound'
  BY <1>0, <1>26 DEF Deliver, Still, StackSound, HeldSound
<1>27. ASSUME HookFires PROVE StackSound' /\ HeldSound'
  BY <1>0, <1>27 DEF HookFires, Still, StackSound, HeldSound
<1>28. ASSUME Launch PROVE StackSound' /\ HeldSound'
  <2>1. CASE UNCHANGED closers /\ pc' = "closing"
    BY <1>0, <1>28, <2>1 DEF Launch, StackSound, HeldSound
  <2>2. CASE Acquire(<<"workspace">>) /\ pc' = "next"
    <3>1. held = {} /\ "workspace" \in Resources \ held
      BY <1>0, <1>28 DEF Launch, HeldSound, Resources
    <3>2. StackSound' /\ held' = {"workspace"}
      BY <1>0, <2>2, <3>1, AcquireOrdered
    <3>. QED  BY <1>0, <1>28, <2>2, <3>2 DEF Launch, HeldSound
  <2>. QED  BY <1>28, <2>1, <2>2 DEF Launch
<1>29. ASSUME OpenInput PROVE StackSound' /\ HeldSound'
  <2>1. held = {"workspace"}
    BY <1>0, <1>29 DEF OpenInput, HeldSound
  <2>2. CASE Acquire(<<"descriptor">>) /\ (pc' = "index" => mode = "dryRun")
    <3>1. "descriptor" \in Resources \ held
      BY <2>1 DEF Resources
    <3>2. StackSound' /\ held' = {"workspace", "descriptor"}
      BY <1>0, <2>1, <2>2, <3>1, AcquireOrdered
    <3>. QED  BY <1>0, <1>29, <2>2, <3>2 DEF OpenInput, HeldSound
  <2>3. CASE Acquire(<<"descriptor", "sink">>) /\ pc' = "index"
    <3>1. StackSound' /\ held' = {"workspace", "descriptor", "sink"}
      BY <1>0, <2>1, <2>3, AcquireInput
    <3>. QED  BY <1>0, <1>29, <2>3, <3>1 DEF OpenInput, HeldSound
  <2>. QED  BY <1>29, <2>2, <2>3 DEF OpenInput
<1>30. ASSUME CloseInput PROVE StackSound' /\ HeldSound'
  <2>1. held \cap {"index", "store"} = {} /\ ReleaseBoth("sink", "descriptor")
    BY <1>0, <1>30 DEF CloseInput, HeldSound
  <2>2. StackSound' /\ held' = held \ {"sink", "descriptor"}
    BY <1>0, <2>1, ReleaseOrdered
  <2>3. held \subseteq Resources /\ "workspace" \in held
    BY <1>0, <1>30 DEF CloseInput, HeldSound, IInv, TypeOK, Resources
  <2>4. held' = {"workspace"}
    BY <2>1, <2>2, <2>3 DEF Resources
  <2>. QED  BY <1>0, <1>30, <2>2, <2>4 DEF CloseInput, AbortAll, HeldSound
<1>31. ASSUME OpenIndex PROVE StackSound' /\ HeldSound'
  <2>1. CASE UNCHANGED closers /\ pc' \in {"closeInput", "sectionFailed"}
    BY <1>0, <1>31, <2>1 DEF OpenIndex, StackSound, HeldSound
  <2>2. CASE Acquire(<<"index">>) /\ pc' = "store"
    <3>1. "index" \in Resources \ held /\ {"workspace", "descriptor"} \subseteq held
      BY <1>0, <1>31 DEF OpenIndex, HeldSound, Resources
    <3>2. StackSound' /\ held' = held \cup {"index"}
      BY <1>0, <2>2, <3>1, AcquireOrdered
    <3>. QED  BY <1>0, <1>31, <2>2, <3>2 DEF OpenIndex, HeldSound
  <2>. QED  BY <1>31, <2>1, <2>2 DEF OpenIndex
<1>32. ASSUME OpenStore PROVE StackSound' /\ HeldSound'
  <2>1. CASE Acquire(<<"store">>) /\ pc' = "claimSection"
    <3>1. "store" \in Resources \ held /\ {"workspace", "descriptor", "index"} \subseteq held
      BY <1>0, <1>32 DEF OpenStore, HeldSound, Resources
    <3>2. StackSound' /\ held' = held \cup {"store"}
      BY <1>0, <2>1, <3>1, AcquireOrdered
    <3>. QED  BY <1>0, <1>32, <2>1, <3>1, <3>2 DEF OpenStore, HeldSound
  <2>2. CASE Release("index") /\ pc' = "sectionFailed"
    <3>1. StackSound' /\ held' = held \ {"index"}
      BY <1>0, <2>2, WithoutOrdered DEF Release, StackSound
    <3>. QED  BY <1>0, <1>32, <2>2, <3>1 DEF OpenStore, HeldSound
  <2>. QED  BY <1>32, <2>1, <2>2 DEF OpenStore
<1>33. ASSUME CloseSection PROVE StackSound' /\ HeldSound'
  <2>1. ReleaseBoth("store", "index")
    BY <1>33 DEF CloseSection
  <2>2. StackSound' /\ held' = held \ {"store", "index"}
    BY <1>0, <2>1, ReleaseOrdered
  <2>. QED  BY <1>0, <1>33, <2>2 DEF CloseSection, HeldSound
<1>34. ASSUME Closing PROVE StackSound' /\ HeldSound'
  <2>1. CASE stack = <<>>
    <3>1. held = {}
      BY <1>0, <2>1 DEF StackSound, Range
    <3>. QED  BY <1>0, <1>34, <2>1, <3>1 DEF Closing, StackSound, HeldSound
  <2>2. CASE stack # <<>>
    <3>1. StackSound' /\ held' = held \ {stack[Len(stack)]}
      BY <1>0, <1>34, <2>2, ReleaseLastOrdered DEF Closing
    <3>. QED  BY <1>0, <1>34, <2>2, <3>1 DEF Closing, AbortAll, HeldSound
  <2>. QED  BY <2>1, <2>2
<1>35. ASSUME NEW path, pc \in Converting, Open(path), UNCHANGED <<closers, mode>>,
              pc' \in Converting
       PROVE  StackSound' /\ HeldSound'
  BY <1>0, <1>35 DEF Open, StackSound, HeldSound
<1>36. ASSUME openWriters' \subseteq openWriters, pc \in Converting, UNCHANGED <<closers, mode>>,
              pc' \in Converting \cup {"sectionFailed", "closeSection"}
       PROVE  StackSound' /\ HeldSound'
  BY <1>0, <1>36 DEF StackSound, HeldSound
<1>37. ASSUME OpenNote PROVE StackSound' /\ HeldSound'
  BY <1>37, <1>35, <1>36 DEF OpenNote
<1>38. ASSUME OpenAsset PROVE StackSound' /\ HeldSound'
  BY <1>38, <1>35, <1>36 DEF OpenAsset, Writing, WritingFrame
<1>39. ASSUME CopyAsset PROVE StackSound' /\ HeldSound'
  BY <1>39, <1>36 DEF CopyAsset, Writing, WritingFrame, Abort, Close
<1>40. ASSUME FinishNote PROVE StackSound' /\ HeldSound'
  BY <1>40, <1>36 DEF FinishNote, Writing, Close
<1>41. ASSUME AbortNote PROVE StackSound' /\ HeldSound'
  BY <1>41, <1>36 DEF AbortNote, WritingFrame, Abort
<1>42. ASSUME Exited PROVE StackSound' /\ HeldSound'
  BY <1>0, <1>42 DEF Exited, vars, StackSound, HeldSound
<1>. QED
  BY <1>1, <1>2, <1>3, <1>4, <1>5, <1>6, <1>7, <1>8, <1>9, <1>10, <1>11, <1>12, <1>13,
     <1>14, <1>15, <1>16, <1>17, <1>18, <1>19, <1>20, <1>21, <1>22, <1>23, <1>24, <1>25,
     <1>26, <1>27, <1>28, <1>29, <1>30, <1>31, <1>32, <1>33, <1>34, <1>37, <1>38, <1>39,
     <1>40, <1>41, <1>42
  DEF Next, Process, RunStep, SectionSteps, NoteSteps

-----------------------------------------------------------------------------
\* The control state, the cursor and the files, step by step

\* TypeOK in parts: the control state, the counters, the flags, the cursor.
ControlOK ==
  /\ pc \in Labels
  /\ why \in {"nothing", "failed", "cancelled"}
  /\ told \in {"nothing", "error", "report", "unreadable"}
  /\ code \in {-1, 0, 1, 2, 130} /\ (code = -1 <=> pc \notin {"closing", "exited"})

CountsOK ==
  /\ arrived \in Nat /\ signals \in Nat /\ arrived + signals \in 0..MaxSignals
  /\ faults \in 0..MaxFaults

\* Every step goes to a label, and the exit code is settled exactly when the run
\* closes down or has ended.
LEMMA ControlStep ==
  ASSUME IInv, Next
  PROVE  ControlOK'
<1>0. ControlOK
  BY DEF IInv, TypeOK, ControlOK
<1>a. ASSUME UNCHANGED <<pc, why, outcome>> PROVE ControlOK'
  BY <1>0, <1>a DEF ControlOK, outcome
<1>b. ASSUME UNCHANGED <<why, outcome>>, pc \notin {"closing", "exited"},
             pc' \in Labels \ {"closing", "exited"}
      PROVE  ControlOK'
  BY <1>0, <1>b DEF ControlOK, outcome
<1>c. ASSUME UNCHANGED why, pc' = "closing", code' \in {0, 1, 2, 130},
             told' \in {"nothing", "error", "report", "unreadable"}
      PROVE  ControlOK'
  <2>1. "closing" \in Labels
    BY DEF Labels
  <2>. QED  BY <1>0, <1>c, <2>1 DEF ControlOK
<1> USE DEF Goto, Tries, Crash, settings, files, workspace, closers, cursor, unwinding,
            outcome, events, names, Labels, ControlOK
<1>1. ASSUME Launch PROVE ControlOK'
  BY <1>b, <1>c, <1>1 DEF Launch
<1>2. ASSUME NextInput PROVE ControlOK'
  BY <1>b, <1>c, <1>2 DEF NextInput
<1>3. ASSUME NoMoreInputs PROVE ControlOK'
  BY <1>0, <1>3 DEF NoMoreInputs
<1>4. ASSUME RefuseInput PROVE ControlOK'
  BY <1>b, <1>c, <1>4 DEF RefuseInput
<1>5. ASSUME OpenInput PROVE ControlOK'
  BY <1>0, <1>5 DEF OpenInput
<1>6. ASSUME RejectContainer PROVE ControlOK'
  BY <1>0, <1>6 DEF RejectContainer
<1>7. ASSUME InputFailed PROVE ControlOK'
  BY <1>0, <1>7 DEF InputFailed
<1>8. ASSUME CloseInput PROVE ControlOK'
  BY <1>b, <1>c, <1>8 DEF CloseInput
<1>9. ASSUME CloseGroup PROVE ControlOK'
  BY <1>b, <1>c, <1>9 DEF CloseGroup
<1>10. ASSUME Report PROVE ControlOK'
  BY <1>0, <1>c, <1>10 DEF Report
<1>11. ASSUME Closing PROVE ControlOK'
  BY <1>0, <1>11 DEF Closing
<1>12. ASSUME OpenIndex PROVE ControlOK'
  BY <1>0, <1>12 DEF OpenIndex
<1>13. ASSUME OpenStore PROVE ControlOK'
  BY <1>0, <1>13 DEF OpenStore
<1>14. ASSUME ClaimSection PROVE ControlOK'
  BY <1>0, <1>14 DEF ClaimSection
<1>15. ASSUME CountNext PROVE ControlOK'
  BY <1>0, <1>15 DEF CountNext, SectionStep
<1>16. ASSUME CountPage PROVE ControlOK'
  BY <1>0, <1>16 DEF CountPage
<1>17. ASSUME StartPages PROVE ControlOK'
  BY <1>0, <1>17 DEF StartPages, SectionStep
<1>18. ASSUME NextPage PROVE ControlOK'
  BY <1>0, <1>18 DEF NextPage, SectionStep
<1>19. ASSUME NoMorePages PROVE ControlOK'
  BY <1>0, <1>19 DEF NoMorePages
<1>20. ASSUME SectionFailed PROVE ControlOK'
  BY <1>0, <1>20 DEF SectionFailed
<1>21. ASSUME CloseSection PROVE ControlOK'
  BY <1>0, <1>21 DEF CloseSection
<1>22. ASSUME StartPage PROVE ControlOK'
  BY <1>0, <1>22 DEF StartPage, PageFrame
<1>23. ASSUME ClaimNote PROVE ControlOK'
  BY <1>0, <1>23 DEF ClaimNote
<1>24. ASSUME OpenNote PROVE ControlOK'
  BY <1>0, <1>24 DEF OpenNote
<1>25. ASSUME Render PROVE ControlOK'
  BY <1>0, <1>25 DEF Render, Writing, WritingFrame, ThrowCancelled
<1>26. ASSUME ClaimAsset PROVE ControlOK'
  BY <1>0, <1>26 DEF ClaimAsset, Writing, WritingFrame, ThrowCancelled
<1>27. ASSUME OpenAsset PROVE ControlOK'
  BY <1>0, <1>27 DEF OpenAsset, Writing, WritingFrame, ThrowCancelled
<1>28. ASSUME CopyAsset PROVE ControlOK'
  BY <1>0, <1>28 DEF CopyAsset, Writing, WritingFrame, ThrowCancelled
<1>29. ASSUME RecordAsset PROVE ControlOK'
  BY <1>0, <1>29 DEF RecordAsset, Writing, WritingFrame, ThrowCancelled
<1>30. ASSUME RememberAsset PROVE ControlOK'
  BY <1>0, <1>30 DEF RememberAsset, Writing, WritingFrame, ThrowCancelled
<1>31. ASSUME RenderRest PROVE ControlOK'
  BY <1>0, <1>31 DEF RenderRest, Writing, WritingFrame, ThrowCancelled
<1>32. ASSUME FinishNote PROVE ControlOK'
  BY <1>0, <1>32 DEF FinishNote, Writing, WritingFrame, ThrowCancelled
<1>33. ASSUME AbortNote PROVE ControlOK'
  BY <1>0, <1>33 DEF AbortNote, WritingFrame
<1>34. ASSUME RecordNote PROVE ControlOK'
  BY <1>0, <1>34 DEF RecordNote
<1>35. ASSUME NoteFailed PROVE ControlOK'
  BY <1>0, <1>35 DEF NoteFailed
<1>36. ASSUME Level PROVE ControlOK'
  BY <1>0, <1>36 DEF Level, SectionStep
<1>37. ASSUME Arrive PROVE ControlOK'
  BY <1>a, <1>37 DEF Arrive, Still
<1>38. ASSUME Deliver PROVE ControlOK'
  BY <1>0, <1>a, <1>c, <1>38 DEF Deliver, Still
<1>39. ASSUME HookFires PROVE ControlOK'
  BY <1>0, <1>39 DEF HookFires, Still
<1>40. ASSUME Exited PROVE ControlOK'
  BY <1>0, <1>40 DEF Exited, vars
<1>. QED
  BY <1>1, <1>2, <1>3, <1>4, <1>5, <1>6, <1>7, <1>8, <1>9, <1>10, <1>11, <1>12, <1>13, <1>14,
     <1>15, <1>16, <1>17, <1>18, <1>19, <1>20, <1>21, <1>22, <1>23, <1>24, <1>25, <1>26, <1>27,
     <1>28, <1>29, <1>30, <1>31, <1>32, <1>33, <1>34, <1>35, <1>36, <1>37, <1>38, <1>39, <1>40
  DEF Next, Process, RunStep, SectionSteps, NoteSteps

\* Faults and signals keep within their bounds.
LEMMA CountsStep ==
  ASSUME IInv, Next
  PROVE  CountsOK'
<1> USE DEF Goto, Crash, settings, files, workspace, closers, cursor, unwinding,
            outcome, events, names
<1>0. CountsOK
  BY DEF IInv, TypeOK, CursorSound, CountsOK
<1>a. MaxFaults \in Nat /\ MaxSignals \in Nat
  BY BoundsAssumption
<1>b. ASSUME UNCHANGED <<arrived, signals>>, UNCHANGED faults \/ \E ok : Tries(ok)
      PROVE  CountsOK'
  BY <1>0, <1>a, <1>b DEF CountsOK, Tries
<1>1. ASSUME Launch PROVE CountsOK'
  BY <1>b, <1>1 DEF Launch
<1>2. ASSUME NextInput PROVE CountsOK'
  BY <1>b, <1>2 DEF NextInput
<1>3. ASSUME NoMoreInputs PROVE CountsOK'
  BY <1>b, <1>3 DEF NoMoreInputs
<1>4. ASSUME RefuseInput PROVE CountsOK'
  BY <1>b, <1>4 DEF RefuseInput
<1>5. ASSUME OpenInput PROVE CountsOK'
  BY <1>b, <1>5 DEF OpenInput
<1>6. ASSUME RejectContainer PROVE CountsOK'
  BY <1>b, <1>6 DEF RejectContainer
<1>7. ASSUME InputFailed PROVE CountsOK'
  BY <1>b, <1>7 DEF InputFailed
<1>8. ASSUME CloseInput PROVE CountsOK'
  BY <1>b, <1>8 DEF CloseInput
<1>9. ASSUME CloseGroup PROVE CountsOK'
  BY <1>b, <1>9 DEF CloseGroup
<1>10. ASSUME Report PROVE CountsOK'
  BY <1>b, <1>10 DEF Report
<1>11. ASSUME Closing PROVE CountsOK'
  BY <1>b, <1>11 DEF Closing
<1>12. ASSUME OpenIndex PROVE CountsOK'
  BY <1>b, <1>12 DEF OpenIndex
<1>13. ASSUME OpenStore PROVE CountsOK'
  BY <1>b, <1>13 DEF OpenStore
<1>14. ASSUME ClaimSection PROVE CountsOK'
  BY <1>b, <1>14 DEF ClaimSection
<1>15. ASSUME CountNext PROVE CountsOK'
  BY <1>b, <1>15 DEF CountNext, SectionStep
<1>16. ASSUME CountPage PROVE CountsOK'
  BY <1>b, <1>16 DEF CountPage
<1>17. ASSUME StartPages PROVE CountsOK'
  BY <1>b, <1>17 DEF StartPages, SectionStep
<1>18. ASSUME NextPage PROVE CountsOK'
  BY <1>b, <1>18 DEF NextPage, SectionStep
<1>19. ASSUME NoMorePages PROVE CountsOK'
  BY <1>b, <1>19 DEF NoMorePages
<1>20. ASSUME SectionFailed PROVE CountsOK'
  BY <1>b, <1>20 DEF SectionFailed
<1>21. ASSUME CloseSection PROVE CountsOK'
  BY <1>b, <1>21 DEF CloseSection
<1>22. ASSUME StartPage PROVE CountsOK'
  BY <1>b, <1>22 DEF StartPage, PageFrame
<1>23. ASSUME ClaimNote PROVE CountsOK'
  BY <1>b, <1>23 DEF ClaimNote
<1>24. ASSUME OpenNote PROVE CountsOK'
  BY <1>b, <1>24 DEF OpenNote
<1>25. ASSUME Render PROVE CountsOK'
  BY <1>b, <1>25 DEF Render, Writing, WritingFrame, ThrowCancelled
<1>26. ASSUME ClaimAsset PROVE CountsOK'
  BY <1>b, <1>26 DEF ClaimAsset, Writing, WritingFrame, ThrowCancelled
<1>27. ASSUME OpenAsset PROVE CountsOK'
  BY <1>b, <1>27 DEF OpenAsset, Writing, WritingFrame, ThrowCancelled
<1>28. ASSUME CopyAsset PROVE CountsOK'
  BY <1>b, <1>28 DEF CopyAsset, Writing, WritingFrame, ThrowCancelled
<1>29. ASSUME RecordAsset PROVE CountsOK'
  BY <1>b, <1>29 DEF RecordAsset, Writing, WritingFrame, ThrowCancelled
<1>30. ASSUME RememberAsset PROVE CountsOK'
  BY <1>b, <1>30 DEF RememberAsset, Writing, WritingFrame, ThrowCancelled
<1>31. ASSUME RenderRest PROVE CountsOK'
  BY <1>b, <1>31 DEF RenderRest, Writing, WritingFrame, ThrowCancelled
<1>32. ASSUME FinishNote PROVE CountsOK'
  BY <1>b, <1>32 DEF FinishNote, Writing, WritingFrame, ThrowCancelled
<1>33. ASSUME AbortNote PROVE CountsOK'
  BY <1>b, <1>33 DEF AbortNote, WritingFrame
<1>34. ASSUME RecordNote PROVE CountsOK'
  BY <1>b, <1>34 DEF RecordNote
<1>35. ASSUME NoteFailed PROVE CountsOK'
  BY <1>b, <1>35 DEF NoteFailed
<1>36. ASSUME Level PROVE CountsOK'
  BY <1>b, <1>36 DEF Level, SectionStep
<1>37. ASSUME Arrive PROVE CountsOK'
  BY <1>0, <1>a, <1>37 DEF Arrive, Still, CountsOK
<1>38. ASSUME Deliver PROVE CountsOK'
  <2>1. arrived' = arrived - 1 /\ signals' = signals + 1 /\ arrived > 0 /\ faults' = faults
    BY <1>38 DEF Deliver, Still
  <2>. QED  BY <1>0, <1>a, <2>1 DEF CountsOK
<1>39. ASSUME HookFires PROVE CountsOK'
  BY <1>b, <1>39 DEF HookFires, Still
<1>40. ASSUME Exited PROVE CountsOK'
  BY <1>b, <1>40 DEF Exited, vars
<1>. QED
  BY <1>1, <1>2, <1>3, <1>4, <1>5, <1>6, <1>7, <1>8, <1>9, <1>10, <1>11, <1>12, <1>13, <1>14,
     <1>15, <1>16, <1>17, <1>18, <1>19, <1>20, <1>21, <1>22, <1>23, <1>24, <1>25, <1>26, <1>27,
     <1>28, <1>29, <1>30, <1>31, <1>32, <1>33, <1>34, <1>35, <1>36, <1>37, <1>38, <1>39, <1>40
  DEF Next, Process, RunStep, SectionSteps, NoteSteps

FlagsOK == {rethrow, hook, stopped} \subseteq BOOLEAN

\* The flags of a failing section, of the hook and of a stop stay flags.
LEMMA FlagsStep ==
  ASSUME IInv, Next
  PROVE  FlagsOK'
<1> USE DEF settings, files, workspace, closers, cursor, unwinding, outcome, events, names
<1>0. rethrow \in BOOLEAN /\ hook \in BOOLEAN /\ stopped \in BOOLEAN
  BY DEF IInv, TypeOK
<1>a. ASSUME rethrow' \in BOOLEAN, hook' \in BOOLEAN, stopped' \in BOOLEAN
      PROVE  FlagsOK'
  BY <1>a DEF FlagsOK
<1>1. ASSUME Launch PROVE FlagsOK'
  BY <1>0, <1>a, <1>1, Zenon DEF Launch
<1>2. ASSUME NextInput PROVE FlagsOK'
  BY <1>0, <1>a, <1>2, Zenon DEF NextInput
<1>3. ASSUME NoMoreInputs PROVE FlagsOK'
  BY <1>0, <1>a, <1>3, Zenon DEF NoMoreInputs
<1>4. ASSUME RefuseInput PROVE FlagsOK'
  BY <1>0, <1>a, <1>4, Zenon DEF RefuseInput
<1>5. ASSUME OpenInput PROVE FlagsOK'
  BY <1>0, <1>a, <1>5, Zenon DEF OpenInput
<1>6. ASSUME RejectContainer PROVE FlagsOK'
  BY <1>0, <1>a, <1>6, Zenon DEF RejectContainer
<1>7. ASSUME InputFailed PROVE FlagsOK'
  BY <1>0, <1>a, <1>7, Zenon DEF InputFailed
<1>8. ASSUME CloseInput PROVE FlagsOK'
  BY <1>0, <1>a, <1>8, Zenon DEF CloseInput
<1>9. ASSUME CloseGroup PROVE FlagsOK'
  BY <1>0, <1>a, <1>9, Zenon DEF CloseGroup
<1>10. ASSUME Report PROVE FlagsOK'
  BY <1>0, <1>a, <1>10, Zenon DEF Report
<1>11. ASSUME Closing PROVE FlagsOK'
  BY <1>0, <1>a, <1>11, Zenon DEF Closing
<1>12. ASSUME OpenIndex PROVE FlagsOK'
  BY <1>0, <1>a, <1>12, Zenon DEF OpenIndex
<1>13. ASSUME OpenStore PROVE FlagsOK'
  BY <1>0, <1>a, <1>13, Zenon DEF OpenStore
<1>14. ASSUME ClaimSection PROVE FlagsOK'
  BY <1>0, <1>a, <1>14, Zenon DEF ClaimSection
<1>15. ASSUME CountNext PROVE FlagsOK'
  BY <1>0, <1>a, <1>15, Zenon DEF CountNext, SectionStep
<1>16. ASSUME CountPage PROVE FlagsOK'
  BY <1>0, <1>a, <1>16, Zenon DEF CountPage
<1>17. ASSUME StartPages PROVE FlagsOK'
  BY <1>0, <1>a, <1>17, Zenon DEF StartPages, SectionStep
<1>18. ASSUME NextPage PROVE FlagsOK'
  BY <1>0, <1>a, <1>18, Zenon DEF NextPage, SectionStep
<1>19. ASSUME NoMorePages PROVE FlagsOK'
  BY <1>0, <1>a, <1>19, Zenon DEF NoMorePages
<1>20. ASSUME SectionFailed PROVE FlagsOK'
  BY <1>0, <1>a, <1>20, Zenon DEF SectionFailed
<1>21. ASSUME CloseSection PROVE FlagsOK'
  BY <1>0, <1>a, <1>21, Zenon DEF CloseSection
<1>22. ASSUME StartPage PROVE FlagsOK'
  BY <1>0, <1>a, <1>22, Zenon DEF StartPage, PageFrame
<1>23. ASSUME ClaimNote PROVE FlagsOK'
  BY <1>0, <1>a, <1>23, Zenon DEF ClaimNote
<1>24. ASSUME OpenNote PROVE FlagsOK'
  BY <1>0, <1>a, <1>24, Zenon DEF OpenNote
<1>25. ASSUME Render PROVE FlagsOK'
  BY <1>0, <1>a, <1>25, Zenon DEF Render, WritingFrame
<1>26. ASSUME ClaimAsset PROVE FlagsOK'
  BY <1>0, <1>a, <1>26, Zenon DEF ClaimAsset, WritingFrame
<1>27. ASSUME OpenAsset PROVE FlagsOK'
  BY <1>0, <1>a, <1>27, Zenon DEF OpenAsset, WritingFrame
<1>28. ASSUME CopyAsset PROVE FlagsOK'
  BY <1>0, <1>a, <1>28, Zenon DEF CopyAsset, WritingFrame
<1>29. ASSUME RecordAsset PROVE FlagsOK'
  BY <1>0, <1>a, <1>29, Zenon DEF RecordAsset, WritingFrame
<1>30. ASSUME RememberAsset PROVE FlagsOK'
  BY <1>0, <1>a, <1>30, Zenon DEF RememberAsset, WritingFrame
<1>31. ASSUME RenderRest PROVE FlagsOK'
  BY <1>0, <1>a, <1>31, Zenon DEF RenderRest, WritingFrame
<1>32. ASSUME FinishNote PROVE FlagsOK'
  BY <1>0, <1>a, <1>32, Zenon DEF FinishNote, WritingFrame
<1>33. ASSUME AbortNote PROVE FlagsOK'
  BY <1>0, <1>a, <1>33, Zenon DEF AbortNote, WritingFrame
<1>34. ASSUME RecordNote PROVE FlagsOK'
  BY <1>0, <1>a, <1>34, Zenon DEF RecordNote
<1>35. ASSUME NoteFailed PROVE FlagsOK'
  BY <1>0, <1>a, <1>35, Zenon DEF NoteFailed
<1>36. ASSUME Level PROVE FlagsOK'
  BY <1>0, <1>a, <1>36, Zenon DEF Level, SectionStep
<1>37. ASSUME Arrive PROVE FlagsOK'
  BY <1>0, <1>a, <1>37, Zenon DEF Arrive, Still
<1>38. ASSUME Deliver PROVE FlagsOK'
  BY <1>0, <1>a, <1>38, Zenon DEF Deliver, Still
<1>39. ASSUME HookFires PROVE FlagsOK'
  BY <1>0, <1>a, <1>39, Zenon DEF HookFires, Still
<1>40. ASSUME Exited PROVE FlagsOK'
  BY <1>0, <1>a, <1>40, Zenon DEF Exited, vars
<1>. QED
  BY <1>1, <1>2, <1>3, <1>4, <1>5, <1>6, <1>7, <1>8, <1>9, <1>10, <1>11, <1>12, <1>13, <1>14,
     <1>15, <1>16, <1>17, <1>18, <1>19, <1>20, <1>21, <1>22, <1>23, <1>24, <1>25, <1>26, <1>27,
     <1>28, <1>29, <1>30, <1>31, <1>32, <1>33, <1>34, <1>35, <1>36, <1>37, <1>38, <1>39, <1>40
  DEF Next, Process, RunStep, SectionSteps, NoteSteps

CursorOK ==
  /\ Len(batch) \in Nat /\ \A n \in 1..Len(batch) : Len(batch[n].pages) \in Nat
  /\ input \in 0..Len(batch)
  /\ "store" \in held /\ pc # "claimSection" => page \in 1..Len(Pages) + 1
  /\ pc = "open" \/ "descriptor" \in held => input >= 1
  /\ pc \in OnPage => page <= Len(Pages)

\* The run stays on an input of the batch and on a page of that input.
LEMMA CursorStep ==
  ASSUME IInv, Next
  PROVE  CursorOK'
<1> USE DEF settings, files, workspace, closers, cursor, unwinding, outcome, events, names,
            Goto, Crash
<1>0. CursorOK /\ HeldSound
  BY DEF IInv, TypeOK, CursorSound, CursorOK
<1>00. HeldSound'
  BY HeldStep
<1>a. ASSUME UNCHANGED <<batch, input, page>>, pc' # "open",
             "descriptor" \in held' => "descriptor" \in held \/ pc = "open",
             "store" \in held' /\ pc' # "claimSection" => "store" \in held /\ pc # "claimSection",
             pc' \in OnPage => pc \in OnPage \/ page <= Len(Pages)
      PROVE  CursorOK'
  BY <1>0, <1>a DEF CursorOK, Pages, Input
<1>b. ASSUME UNCHANGED <<batch, input, page, held, pc>> PROVE CursorOK'
  BY <1>0, <1>b DEF CursorOK, Pages, Input
<1>c. ASSUME UNCHANGED <<batch, input, held>>, "descriptor" \in held, pc' # "open",
             page' \in 1..Len(Pages) + 1, pc' \in OnPage => page' <= Len(Pages)
      PROVE  CursorOK'
  BY <1>0, <1>c DEF CursorOK, Pages, Input
<1>d. "descriptor" \in held => input \in 1..Len(batch) /\ Len(Pages) \in Nat
  <2> SUFFICES ASSUME "descriptor" \in held PROVE input \in 1..Len(batch) /\ Len(Pages) \in Nat
    OBVIOUS
  <2>0. Len(batch) \in Nat /\ input \in 0..Len(batch) /\ input >= 1
    BY <1>0 DEF CursorOK
  <2>1. input \in 1..Len(batch)
    BY <2>0
  <2>2. Len(batch[input].pages) \in Nat
    BY <1>0, <2>1 DEF CursorOK
  <2>. QED  BY <2>1, <2>2 DEF Pages, Input
<1>e. pc \in Converting => "descriptor" \in held /\ "store" \in held
  BY <1>0 DEF HeldSound
<1>f. pc \in OnPage => page \in 1..Len(Pages)
  <2> SUFFICES ASSUME pc \in OnPage PROVE page \in 1..Len(Pages)
    OBVIOUS
  <2>1. pc \in Converting /\ pc # "claimSection"
    BY DEF Converting, OnPage, WithNote, Written, WithAsset
  <2>2. page \in 1..Len(Pages) + 1 /\ page <= Len(Pages)
    BY <1>0, <1>e, <2>1 DEF CursorOK
  <2>3. Len(Pages) \in Nat
    BY <1>d, <1>e, <2>1
  <2>. QED  BY <2>2, <2>3
<1> USE DEF OnPage, WithNote, Written, WithAsset, Converting
<1>1. ASSUME Launch PROVE CursorOK'
  BY <1>0, <1>00, <1>a, <1>1 DEF Launch, HeldSound
<1>2. ASSUME NextInput PROVE CursorOK'
  <2>1. held = {"workspace"} /\ UNCHANGED <<batch, page, held>> /\ input < Len(batch)
    BY <1>0, <1>2 DEF NextInput, HeldSound
  <2>2. (input' = input + 1 /\ pc' = "open") \/ (input' = input /\ pc' = "closing")
    BY <1>2 DEF NextInput
  <2>3. Len(batch) \in Nat /\ input \in 0..Len(batch)
    BY <1>0 DEF CursorOK
  <2>4. input' \in 0..Len(batch) /\ (pc' = "open" => input' >= 1)
    BY <2>1, <2>2, <2>3
  <2>5. \A n \in 1..Len(batch) : Len(batch[n].pages) \in Nat
    BY <1>0 DEF CursorOK
  <2>. QED  BY <2>1, <2>2, <2>3, <2>4, <2>5 DEF CursorOK
<1>3. ASSUME NoMoreInputs PROVE CursorOK'
  BY <1>0, <1>00, <1>a, <1>3 DEF NoMoreInputs, HeldSound
<1>4. ASSUME RefuseInput PROVE CursorOK'
  BY <1>0, <1>00, <1>a, <1>4 DEF RefuseInput, HeldSound
<1>5. ASSUME OpenInput PROVE CursorOK'
  BY <1>0, <1>00, <1>a, <1>5 DEF OpenInput, HeldSound
<1>6. ASSUME RejectContainer PROVE CursorOK'
  BY <1>0, <1>00, <1>a, <1>6 DEF RejectContainer, HeldSound
<1>7. ASSUME InputFailed PROVE CursorOK'
  BY <1>0, <1>00, <1>a, <1>7 DEF InputFailed, HeldSound
<1>8. ASSUME CloseInput PROVE CursorOK'
  BY <1>0, <1>00, <1>a, <1>8 DEF CloseInput, HeldSound, ReleaseBoth
<1>9. ASSUME CloseGroup PROVE CursorOK'
  BY <1>0, <1>00, <1>a, <1>9 DEF CloseGroup, HeldSound
<1>10. ASSUME Report PROVE CursorOK'
  BY <1>0, <1>00, <1>a, <1>10 DEF Report, HeldSound
<1>11. ASSUME Closing PROVE CursorOK'
  BY <1>0, <1>00, <1>a, <1>11 DEF Closing, HeldSound, ReleaseLast
<1>12. ASSUME OpenIndex PROVE CursorOK'
  BY <1>0, <1>00, <1>a, <1>12 DEF OpenIndex, HeldSound
<1>13. ASSUME OpenStore PROVE CursorOK'
  BY <1>0, <1>00, <1>a, <1>13 DEF OpenStore, HeldSound, Release
<1>14. ASSUME ClaimSection PROVE CursorOK'
  <2>1. pc = "claimSection" /\ UNCHANGED <<batch, input, held>>
    BY <1>14 DEF ClaimSection
  <2>2. page' = 1 /\ pc' \in {"count", "sectionFailed"}
    BY <1>14 DEF ClaimSection
  <2>3. "descriptor" \in held /\ Len(Pages) \in Nat
    BY <1>d, <1>e, <2>1
  <2>5. page' \in 1..Len(Pages) + 1
    BY <2>2, <2>3
<2>. QED  BY <1>c, <2>1, <2>2, <2>3, <2>5
<1>15. ASSUME CountNext PROVE CursorOK'
  BY <1>0, <1>00, <1>a, <1>15 DEF CountNext, SectionStep, HeldSound
<1>16. ASSUME CountPage PROVE CursorOK'
  <2>1. pc = "countWait" /\ UNCHANGED <<batch, input, held>>
    BY <1>16 DEF CountPage
  <2>2. (page' = page /\ pc' = "closeSection") \/ (page' = page + 1 /\ pc' = "count")
    BY <1>16 DEF CountPage
  <2>3. "descriptor" \in held /\ Len(Pages) \in Nat
    BY <1>d, <1>e, <2>1
  <2>4. page \in 1..Len(Pages)
    BY <1>f, <2>1
  <2>5. page' \in 1..Len(Pages) + 1
    BY <2>2, <2>3, <2>4
<2>. QED  BY <1>c, <2>1, <2>2, <2>3, <2>4, <2>5
<1>17. ASSUME StartPages PROVE CursorOK'
  <2>1. pc = "count" /\ UNCHANGED <<batch, input, held>>
    BY <1>17 DEF StartPages, SectionStep
  <2>2. page' = 1 /\ pc' \in {"pages", "sectionFailed"}
    BY <1>17 DEF StartPages, SectionStep
  <2>3. "descriptor" \in held /\ Len(Pages) \in Nat
    BY <1>d, <1>e, <2>1
  <2>5. page' \in 1..Len(Pages) + 1
    BY <2>2, <2>3
<2>. QED  BY <1>c, <2>1, <2>2, <2>3, <2>5
<1>18. ASSUME NextPage PROVE CursorOK'
  BY <1>0, <1>00, <1>a, <1>18 DEF NextPage, SectionStep, HeldSound
<1>19. ASSUME NoMorePages PROVE CursorOK'
  BY <1>0, <1>00, <1>a, <1>19 DEF NoMorePages, HeldSound
<1>20. ASSUME SectionFailed PROVE CursorOK'
  BY <1>0, <1>00, <1>a, <1>20 DEF SectionFailed, HeldSound
<1>21. ASSUME CloseSection PROVE CursorOK'
  BY <1>0, <1>00, <1>a, <1>21 DEF CloseSection, HeldSound, ReleaseBoth
<1>22. ASSUME StartPage PROVE CursorOK'
  <2>1. pc = "pageWait" /\ UNCHANGED <<batch, input, held>>
    BY <1>22 DEF StartPage, PageFrame
  <2>2. \/ page' = page /\ pc' \in {"closeSection", "claimNote"}
        \/ page' = page + 1 /\ pc' = "pages"
    BY <1>22 DEF StartPage, PageFrame
  <2>3. "descriptor" \in held /\ Len(Pages) \in Nat
    BY <1>d, <1>e, <2>1
  <2>4. page \in 1..Len(Pages)
    BY <1>f, <2>1
  <2>5. page' \in 1..Len(Pages) + 1
    BY <2>2, <2>3, <2>4
<2>. QED  BY <1>c, <2>1, <2>2, <2>3, <2>4, <2>5
<1>23. ASSUME ClaimNote PROVE CursorOK'
  BY <1>0, <1>00, <1>a, <1>23 DEF ClaimNote, HeldSound
<1>24. ASSUME OpenNote PROVE CursorOK'
  BY <1>0, <1>00, <1>a, <1>24 DEF OpenNote, HeldSound
<1>25. ASSUME Render PROVE CursorOK'
  BY <1>0, <1>00, <1>a, <1>25 DEF Render, WritingFrame, Writing, ThrowCancelled, HeldSound
<1>26. ASSUME ClaimAsset PROVE CursorOK'
  BY <1>0, <1>00, <1>a, <1>26 DEF ClaimAsset, WritingFrame, Writing, ThrowCancelled, HeldSound
<1>27. ASSUME OpenAsset PROVE CursorOK'
  BY <1>0, <1>00, <1>a, <1>27 DEF OpenAsset, WritingFrame, Writing, ThrowCancelled, HeldSound
<1>28. ASSUME CopyAsset PROVE CursorOK'
  BY <1>0, <1>00, <1>a, <1>28 DEF CopyAsset, WritingFrame, Writing, ThrowCancelled, HeldSound
<1>29. ASSUME RecordAsset PROVE CursorOK'
  BY <1>0, <1>00, <1>a, <1>29 DEF RecordAsset, WritingFrame, Writing, ThrowCancelled, HeldSound
<1>30. ASSUME RememberAsset PROVE CursorOK'
  BY <1>0, <1>00, <1>a, <1>30 DEF RememberAsset, WritingFrame, Writing, ThrowCancelled, HeldSound
<1>31. ASSUME RenderRest PROVE CursorOK'
  BY <1>0, <1>00, <1>a, <1>31 DEF RenderRest, WritingFrame, Writing, ThrowCancelled, HeldSound
<1>32. ASSUME FinishNote PROVE CursorOK'
  BY <1>0, <1>00, <1>a, <1>32 DEF FinishNote, WritingFrame, Writing, ThrowCancelled, HeldSound
<1>33. ASSUME AbortNote PROVE CursorOK'
  BY <1>0, <1>00, <1>a, <1>33 DEF AbortNote, WritingFrame, HeldSound
<1>34. ASSUME RecordNote PROVE CursorOK'
  BY <1>0, <1>00, <1>a, <1>34 DEF RecordNote, HeldSound
<1>35. ASSUME NoteFailed PROVE CursorOK'
  BY <1>0, <1>00, <1>a, <1>35 DEF NoteFailed, HeldSound
<1>36. ASSUME Level PROVE CursorOK'
  <2>1. pc = "level" /\ UNCHANGED <<batch, input, held>>
    BY <1>36 DEF Level, SectionStep
  <2>2. page' = page + 1 /\ pc' \in {"pages", "sectionFailed"}
    BY <1>36 DEF Level, SectionStep
  <2>3. "descriptor" \in held /\ Len(Pages) \in Nat
    BY <1>d, <1>e, <2>1
  <2>4. page \in 1..Len(Pages)
    BY <1>f, <2>1
  <2>5. page' \in 1..Len(Pages) + 1
    BY <2>2, <2>3, <2>4
<2>. QED  BY <1>c, <2>1, <2>2, <2>3, <2>4, <2>5
<1>37. ASSUME Arrive PROVE CursorOK'
  BY <1>b, <1>37 DEF Arrive, Still
<1>38. ASSUME Deliver PROVE CursorOK'
  BY <1>0, <1>00, <1>a, <1>38 DEF Deliver, Still, HeldSound
<1>39. ASSUME HookFires PROVE CursorOK'
  BY <1>b, <1>39 DEF HookFires, Still
<1>40. ASSUME Exited PROVE CursorOK'
  BY <1>b, <1>40 DEF Exited, vars
<1>. QED
  BY <1>1, <1>2, <1>3, <1>4, <1>5, <1>6, <1>7, <1>8, <1>9, <1>10, <1>11, <1>12, <1>13, <1>14,
     <1>15, <1>16, <1>17, <1>18, <1>19, <1>20, <1>21, <1>22, <1>23, <1>24, <1>25, <1>26, <1>27,
     <1>28, <1>29, <1>30, <1>31, <1>32, <1>33, <1>34, <1>35, <1>36, <1>37, <1>38, <1>39, <1>40
  DEF Next, Process, RunStep, SectionSteps, NoteSteps

-----------------------------------------------------------------------------
\* The files, step by step

\* What TypeOK says of the files.
FilesOK ==
  /\ openWriters = partial
  /\ whole \cap (partial \cup unsure \cup theirs) = {}
  /\ partial \cap (unsure \cup theirs) = {} /\ unsure \cap theirs = {}

\* A file stays in one state, and what is half-written is open.
LEMMA FilesStep ==
  ASSUME IInv, Next
  PROVE  FilesOK'
<1> USE DEF Goto, Crash, settings, files, workspace, closers, cursor, unwinding, outcome,
            events, names
<1>0. FilesOK
  BY DEF IInv, TypeOK, FilesOK
<1>a. ASSUME UNCHANGED files PROVE FilesOK'
  BY <1>0, <1>a DEF FilesOK
<1>b. ASSUME NEW path, Open(path) PROVE FilesOK'
  BY <1>0, <1>b DEF Open, FilesOK
<1>c. ASSUME NEW path, Abort(path) PROVE FilesOK'
  BY <1>0, <1>c DEF Abort, FilesOK
<1>d. ASSUME NEW path, NEW ok, Close(path, ok) PROVE FilesOK'
  <2>1. CASE path \notin openWriters
    BY <1>a, <1>d, <2>1 DEF Close
  <2>2. CASE path \in openWriters
    <3>1. openWriters' = openWriters \ {path} /\ partial' = partial \ {path} /\ theirs' = theirs
      BY <1>d, <2>2 DEF Close
    <3>2. \/ whole' = whole \cup {path} /\ unsure' = unsure
          \/ whole' = whole /\ unsure' = unsure \cup {path}
      BY <1>d, <2>2 DEF Close
    <3>3. path \notin whole \cup theirs \cup unsure
      BY <1>0, <2>2 DEF FilesOK
    <3>. QED  BY <1>0, <2>2, <3>1, <3>2, <3>3 DEF FilesOK
  <2>. QED  BY <2>1, <2>2
<1>e. ASSUME AbortAll PROVE FilesOK'
  BY <1>0, <1>e DEF AbortAll, FilesOK
<1>1. ASSUME Launch PROVE FilesOK'
  BY <1>a, <1>1 DEF Launch
<1>2. ASSUME NextInput PROVE FilesOK'
  BY <1>a, <1>2 DEF NextInput
<1>3. ASSUME NoMoreInputs PROVE FilesOK'
  BY <1>a, <1>3 DEF NoMoreInputs
<1>4. ASSUME RefuseInput PROVE FilesOK'
  BY <1>a, <1>4 DEF RefuseInput
<1>5. ASSUME OpenInput PROVE FilesOK'
  BY <1>a, <1>5 DEF OpenInput
<1>6. ASSUME RejectContainer PROVE FilesOK'
  BY <1>a, <1>6 DEF RejectContainer
<1>7. ASSUME InputFailed PROVE FilesOK'
  BY <1>a, <1>7 DEF InputFailed
<1>8. ASSUME CloseInput PROVE FilesOK'
  BY <1>e, <1>8 DEF CloseInput
<1>9. ASSUME CloseGroup PROVE FilesOK'
  BY <1>a, <1>9 DEF CloseGroup
<1>10. ASSUME Report PROVE FilesOK'
  BY <1>a, <1>10 DEF Report
<1>11. ASSUME Closing PROVE FilesOK'
  BY <1>a, <1>e, <1>11 DEF Closing
<1>12. ASSUME OpenIndex PROVE FilesOK'
  BY <1>a, <1>12 DEF OpenIndex
<1>13. ASSUME OpenStore PROVE FilesOK'
  BY <1>a, <1>13 DEF OpenStore
<1>14. ASSUME ClaimSection PROVE FilesOK'
  BY <1>a, <1>14 DEF ClaimSection
<1>15. ASSUME CountNext PROVE FilesOK'
  BY <1>a, <1>15 DEF CountNext, SectionStep
<1>16. ASSUME CountPage PROVE FilesOK'
  BY <1>a, <1>16 DEF CountPage
<1>17. ASSUME StartPages PROVE FilesOK'
  BY <1>a, <1>17 DEF StartPages, SectionStep
<1>18. ASSUME NextPage PROVE FilesOK'
  BY <1>a, <1>18 DEF NextPage, SectionStep
<1>19. ASSUME NoMorePages PROVE FilesOK'
  BY <1>a, <1>19 DEF NoMorePages
<1>20. ASSUME SectionFailed PROVE FilesOK'
  BY <1>a, <1>20 DEF SectionFailed
<1>21. ASSUME CloseSection PROVE FilesOK'
  BY <1>a, <1>21 DEF CloseSection
<1>22. ASSUME StartPage PROVE FilesOK'
  BY <1>a, <1>22 DEF StartPage, PageFrame
<1>23. ASSUME ClaimNote PROVE FilesOK'
  BY <1>a, <1>23 DEF ClaimNote
<1>24. ASSUME OpenNote PROVE FilesOK'
  BY <1>a, <1>b, <1>24 DEF OpenNote
<1>25. ASSUME Render PROVE FilesOK'
  BY <1>a, <1>25 DEF Render, WritingFrame, Writing, ThrowCancelled
<1>26. ASSUME ClaimAsset PROVE FilesOK'
  BY <1>a, <1>26 DEF ClaimAsset, WritingFrame, Writing, ThrowCancelled
<1>27. ASSUME OpenAsset PROVE FilesOK'
  BY <1>a, <1>b, <1>27 DEF OpenAsset, WritingFrame, Writing, ThrowCancelled
<1>28. ASSUME CopyAsset PROVE FilesOK'
  BY <1>c, <1>d, <1>28 DEF CopyAsset, WritingFrame, Writing, ThrowCancelled
<1>29. ASSUME RecordAsset PROVE FilesOK'
  BY <1>a, <1>29 DEF RecordAsset, WritingFrame, Writing, ThrowCancelled
<1>30. ASSUME RememberAsset PROVE FilesOK'
  BY <1>a, <1>30 DEF RememberAsset, WritingFrame, Writing, ThrowCancelled
<1>31. ASSUME RenderRest PROVE FilesOK'
  BY <1>a, <1>31 DEF RenderRest, WritingFrame, Writing, ThrowCancelled
<1>32. ASSUME FinishNote PROVE FilesOK'
  BY <1>a, <1>d, <1>32 DEF FinishNote, WritingFrame, Writing, ThrowCancelled
<1>33. ASSUME AbortNote PROVE FilesOK'
  BY <1>c, <1>33 DEF AbortNote, WritingFrame
<1>34. ASSUME RecordNote PROVE FilesOK'
  BY <1>a, <1>34 DEF RecordNote
<1>35. ASSUME NoteFailed PROVE FilesOK'
  BY <1>a, <1>35 DEF NoteFailed
<1>36. ASSUME Level PROVE FilesOK'
  BY <1>a, <1>36 DEF Level, SectionStep
<1>37. ASSUME Arrive PROVE FilesOK'
  BY <1>a, <1>37 DEF Arrive, Still
<1>38. ASSUME Deliver PROVE FilesOK'
  BY <1>a, <1>38 DEF Deliver, Still
<1>39. ASSUME HookFires PROVE FilesOK'
  BY <1>a, <1>39 DEF HookFires, Still
<1>40. ASSUME Exited PROVE FilesOK'
  BY <1>a, <1>40 DEF Exited, vars
<1>. QED
  BY <1>1, <1>2, <1>3, <1>4, <1>5, <1>6, <1>7, <1>8, <1>9, <1>10, <1>11, <1>12, <1>13,
     <1>14, <1>15, <1>16, <1>17, <1>18, <1>19, <1>20, <1>21, <1>22, <1>23, <1>24, <1>25, <1>26,
     <1>27, <1>28, <1>29, <1>30, <1>31, <1>32, <1>33, <1>34, <1>35, <1>36, <1>37, <1>38, <1>39,
     <1>40
  DEF Next, Process, RunStep, SectionSteps, NoteSteps

\* The step takes no finished file away, nor one that may not be overwritten.
Kept == whole \subseteq whole' /\ (mode # "overwrite" => theirs \subseteq theirs')

\* Only opening a file could take a finished one away, and no file is opened
\* by a name that has one.
LEMMA KeptStep ==
  ASSUME IInv, Next
  PROVE  Kept
<1> USE DEF Goto, Crash, settings, files, workspace, closers, cursor, unwinding, outcome,
            events, names
<1> USE DEF Kept
<1>0. NamesSound /\ mode \in Modes
  BY DEF IInv, WritersSound
<1>a. ASSUME UNCHANGED files PROVE Kept
  BY <1>a
<1>b. ASSUME NEW path, path \notin whole, CanOpen(path), Open(path) PROVE Kept
  <2>1. mode \in {"newOnly", "overwrite", "dryRun"}
    BY <1>0, ModesAssumption
  <2>. QED  BY <1>b, <2>1 DEF Open, CanOpen
<1>c. ASSUME NEW path, Abort(path) PROVE Kept
  BY <1>c DEF Abort
<1>d. ASSUME NEW path, NEW ok, Close(path, ok) PROVE Kept
  BY <1>d DEF Close
<1>e. ASSUME AbortAll PROVE Kept
  BY <1>e DEF AbortAll
<1>f. (pc = "openNote" => note \notin whole) /\ (pc = "openAsset" => asset \notin whole)
  BY <1>0 DEF NamesSound
<1>1. ASSUME Launch PROVE Kept
  BY <1>a, <1>1 DEF Launch
<1>2. ASSUME NextInput PROVE Kept
  BY <1>a, <1>2 DEF NextInput
<1>3. ASSUME NoMoreInputs PROVE Kept
  BY <1>a, <1>3 DEF NoMoreInputs
<1>4. ASSUME RefuseInput PROVE Kept
  BY <1>a, <1>4 DEF RefuseInput
<1>5. ASSUME OpenInput PROVE Kept
  BY <1>a, <1>5 DEF OpenInput
<1>6. ASSUME RejectContainer PROVE Kept
  BY <1>a, <1>6 DEF RejectContainer
<1>7. ASSUME InputFailed PROVE Kept
  BY <1>a, <1>7 DEF InputFailed
<1>8. ASSUME CloseInput PROVE Kept
  BY <1>e, <1>8 DEF CloseInput
<1>9. ASSUME CloseGroup PROVE Kept
  BY <1>a, <1>9 DEF CloseGroup
<1>10. ASSUME Report PROVE Kept
  BY <1>a, <1>10 DEF Report
<1>11. ASSUME Closing PROVE Kept
  BY <1>a, <1>e, <1>11 DEF Closing
<1>12. ASSUME OpenIndex PROVE Kept
  BY <1>a, <1>12 DEF OpenIndex
<1>13. ASSUME OpenStore PROVE Kept
  BY <1>a, <1>13 DEF OpenStore
<1>14. ASSUME ClaimSection PROVE Kept
  BY <1>a, <1>14 DEF ClaimSection
<1>15. ASSUME CountNext PROVE Kept
  BY <1>a, <1>15 DEF CountNext, SectionStep
<1>16. ASSUME CountPage PROVE Kept
  BY <1>a, <1>16 DEF CountPage
<1>17. ASSUME StartPages PROVE Kept
  BY <1>a, <1>17 DEF StartPages, SectionStep
<1>18. ASSUME NextPage PROVE Kept
  BY <1>a, <1>18 DEF NextPage, SectionStep
<1>19. ASSUME NoMorePages PROVE Kept
  BY <1>a, <1>19 DEF NoMorePages
<1>20. ASSUME SectionFailed PROVE Kept
  BY <1>a, <1>20 DEF SectionFailed
<1>21. ASSUME CloseSection PROVE Kept
  BY <1>a, <1>21 DEF CloseSection
<1>22. ASSUME StartPage PROVE Kept
  BY <1>a, <1>22 DEF StartPage, PageFrame
<1>23. ASSUME ClaimNote PROVE Kept
  BY <1>a, <1>23 DEF ClaimNote
<1>24. ASSUME OpenNote PROVE Kept
  BY <1>a, <1>b, <1>f, <1>24 DEF OpenNote
<1>25. ASSUME Render PROVE Kept
  BY <1>a, <1>25 DEF Render, WritingFrame, Writing, ThrowCancelled
<1>26. ASSUME ClaimAsset PROVE Kept
  BY <1>a, <1>26 DEF ClaimAsset, WritingFrame, Writing, ThrowCancelled
<1>27. ASSUME OpenAsset PROVE Kept
  BY <1>a, <1>b, <1>f, <1>27 DEF OpenAsset, WritingFrame, Writing, ThrowCancelled
<1>28. ASSUME CopyAsset PROVE Kept
  BY <1>c, <1>d, <1>28 DEF CopyAsset, WritingFrame, Writing, ThrowCancelled
<1>29. ASSUME RecordAsset PROVE Kept
  BY <1>a, <1>29 DEF RecordAsset, WritingFrame, Writing, ThrowCancelled
<1>30. ASSUME RememberAsset PROVE Kept
  BY <1>a, <1>30 DEF RememberAsset, WritingFrame, Writing, ThrowCancelled
<1>31. ASSUME RenderRest PROVE Kept
  BY <1>a, <1>31 DEF RenderRest, WritingFrame, Writing, ThrowCancelled
<1>32. ASSUME FinishNote PROVE Kept
  BY <1>a, <1>d, <1>32 DEF FinishNote, WritingFrame, Writing, ThrowCancelled
<1>33. ASSUME AbortNote PROVE Kept
  BY <1>c, <1>33 DEF AbortNote, WritingFrame
<1>34. ASSUME RecordNote PROVE Kept
  BY <1>a, <1>34 DEF RecordNote
<1>35. ASSUME NoteFailed PROVE Kept
  BY <1>a, <1>35 DEF NoteFailed
<1>36. ASSUME Level PROVE Kept
  BY <1>a, <1>36 DEF Level, SectionStep
<1>37. ASSUME Arrive PROVE Kept
  BY <1>a, <1>37 DEF Arrive, Still
<1>38. ASSUME Deliver PROVE Kept
  BY <1>a, <1>38 DEF Deliver, Still
<1>39. ASSUME HookFires PROVE Kept
  BY <1>a, <1>39 DEF HookFires, Still
<1>40. ASSUME Exited PROVE Kept
  BY <1>a, <1>40 DEF Exited, vars
<1>. QED
  BY <1>1, <1>2, <1>3, <1>4, <1>5, <1>6, <1>7, <1>8, <1>9, <1>10, <1>11, <1>12, <1>13,
     <1>14, <1>15, <1>16, <1>17, <1>18, <1>19, <1>20, <1>21, <1>22, <1>23, <1>24, <1>25, <1>26,
     <1>27, <1>28, <1>29, <1>30, <1>31, <1>32, <1>33, <1>34, <1>35, <1>36, <1>37, <1>38, <1>39,
     <1>40
  DEF Next, Process, RunStep, SectionSteps, NoteSteps

-----------------------------------------------------------------------------
\* The report, step by step

\* What record* does to a list: one index more, with the record or with nothing.
LEMMA Recorded ==
  ASSUME ReportSound, NEW list \in Lists, NEW record, NEW ok, Record(list, record, ok)
  PROVE  /\ ReportSound'
         /\ \A other \in Lists \ {list} : report'[other] = report[other]
         /\ Len(report[list]) \in Nat
         /\ Len(report'[list]) = Len(report[list]) + 1
         /\ \A n \in 1..Len(report[list]) : report'[list][n] = report[list][n]
         /\ report'[list][Len(report[list]) + 1] = IF ok THEN record ELSE Missing
         /\ report'[list][Len(report[list]) + 1] \in {record, Missing}
<1> DEFINE s == report[list]
           r == IF ok THEN record ELSE Missing
<1>1. DOMAIN report = Lists /\ \A other \in Lists : \E S : report[other] \in Seq(S)
  BY DEF ReportSound
<1>2. report' = [report EXCEPT ![list] = Append(s, r)]
  BY DEF Record
<1>3. DOMAIN report' = Lists
  BY <1>1, <1>2
<1>4. report'[list] = Append(s, r) /\ \A other \in Lists \ {list} : report'[other] = report[other]
  BY <1>1, <1>2
<1>5. PICK S : s \in Seq(S)
  BY <1>1
<1> DEFINE T == S \cup {r}
<1>6. s \in Seq(T) /\ r \in T
  BY <1>5
<1>7. r \in {record, Missing}
  OBVIOUS
<1> HIDE DEF r, T
<1>8. /\ Append(s, r) \in Seq(T) /\ Len(s) \in Nat /\ Len(Append(s, r)) = Len(s) + 1
      /\ \A n \in 1..Len(s) : Append(s, r)[n] = s[n]
      /\ Append(s, r)[Len(s) + 1] = r
  BY <1>6, AppendProperties
<1>9. ReportSound'
  <2>1. \A other \in Lists : \E U : report'[other] \in Seq(U)
    BY <1>1, <1>4, <1>8
  <2>. QED  BY <1>3, <2>1 DEF ReportSound
<1>. QED  BY <1>4, <1>7, <1>8, <1>9 DEF r

\* The records of a list are those it had and the new one, if it went through.
LEMMA RecordsAfter ==
  ASSUME ReportSound, NEW list \in Lists, NEW record, NEW ok, Record(list, record, ok)
  PROVE  /\ Records(list)' \subseteq Records(list) \cup {record}
         /\ \A other \in Lists \ {list} : Records(other)' = Records(other)
<1> DEFINE s == report[list]
<1>1. /\ ReportSound'
      /\ \A other \in Lists \ {list} : report'[other] = report[other]
      /\ Len(s) \in Nat
      /\ Len(report'[list]) = Len(s) + 1
      /\ \A n \in 1..Len(s) : report'[list][n] = s[n]
      /\ report'[list][Len(s) + 1] \in {record, Missing}
  BY Recorded
<1>2. /\ Range(s) = {s[n] : n \in 1..Len(s)}
      /\ Range(report'[list]) = {report'[list][n] : n \in 1..Len(s) + 1}
  <2>1. DOMAIN s = 1..Len(s) /\ DOMAIN report'[list] = 1..Len(report'[list])
    BY <1>1 DEF ReportSound
  <2>. QED  BY <1>1, <2>1 DEF Range
<1>3. Range(report'[list]) \subseteq Range(s) \cup {record, Missing}
  <2> SUFFICES ASSUME NEW n \in 1..Len(s) + 1
               PROVE  report'[list][n] \in Range(s) \cup {record, Missing}
    BY <1>2
  <2>1. CASE n = Len(s) + 1
    BY <1>1, <2>1
  <2>2. CASE n # Len(s) + 1
    <3>1. n \in 1..Len(s)
      BY <1>1, <2>2
    <3>. QED  BY <1>1, <1>2, <3>1
  <2>. QED  BY <2>1, <2>2
<1>. QED  BY <1>1, <1>3 DEF Records

\* No step makes a list of the report anything but a sequence.
LEMMA ReportStep ==
  ASSUME IInv, Next
  PROVE  ReportSound'
<1> USE DEF Goto, Crash, settings, files, workspace, closers, cursor, unwinding, outcome,
            events, names
<1>0. ReportSound
  BY DEF IInv
<1>a. ASSUME UNCHANGED report PROVE ReportSound'
  BY <1>0, <1>a DEF ReportSound
<1>b. ASSUME NEW list \in Lists, NEW record, NEW ok, Record(list, record, ok) PROVE ReportSound'
  BY <1>0, <1>b, Recorded
<1>1. ASSUME Launch PROVE ReportSound'
  BY <1>a, <1>1 DEF Launch
<1>2. ASSUME NextInput PROVE ReportSound'
  <2>1. \E record, ok : Record("inputs", record, ok)
    BY <1>2 DEF NextInput
  <2>. QED  BY <1>b, <2>1 DEF Lists
<1>3. ASSUME NoMoreInputs PROVE ReportSound'
  BY <1>a, <1>3 DEF NoMoreInputs
<1>4. ASSUME RefuseInput PROVE ReportSound'
  <2>1. \E record, ok : Record("failures", record, ok)
    BY <1>4 DEF RefuseInput
  <2>. QED  BY <1>b, <2>1 DEF Lists
<1>5. ASSUME OpenInput PROVE ReportSound'
  BY <1>a, <1>5 DEF OpenInput
<1>6. ASSUME RejectContainer PROVE ReportSound'
  <2>1. \E record, ok : Record("failures", record, ok)
    BY <1>6 DEF RejectContainer
  <2>. QED  BY <1>b, <2>1 DEF Lists
<1>7. ASSUME InputFailed PROVE ReportSound'
  <2>1. \E record, ok : Record("failures", record, ok)
    BY <1>7 DEF InputFailed
  <2>. QED  BY <1>b, <2>1 DEF Lists
<1>8. ASSUME CloseInput PROVE ReportSound'
  BY <1>a, <1>8 DEF CloseInput
<1>9. ASSUME CloseGroup PROVE ReportSound'
  <2>1. \E record, ok : Record("groups", record, ok)
    BY <1>9 DEF CloseGroup
  <2>. QED  BY <1>b, <2>1 DEF Lists
<1>10. ASSUME Report PROVE ReportSound'
  BY <1>a, <1>10 DEF Report
<1>11. ASSUME Closing PROVE ReportSound'
  BY <1>a, <1>11 DEF Closing
<1>12. ASSUME OpenIndex PROVE ReportSound'
  BY <1>a, <1>12 DEF OpenIndex
<1>13. ASSUME OpenStore PROVE ReportSound'
  BY <1>a, <1>13 DEF OpenStore
<1>14. ASSUME ClaimSection PROVE ReportSound'
  BY <1>a, <1>14 DEF ClaimSection
<1>15. ASSUME CountNext PROVE ReportSound'
  BY <1>a, <1>15 DEF CountNext, SectionStep
<1>16. ASSUME CountPage PROVE ReportSound'
  BY <1>a, <1>16 DEF CountPage
<1>17. ASSUME StartPages PROVE ReportSound'
  BY <1>a, <1>17 DEF StartPages, SectionStep
<1>18. ASSUME NextPage PROVE ReportSound'
  BY <1>a, <1>18 DEF NextPage, SectionStep
<1>19. ASSUME NoMorePages PROVE ReportSound'
  BY <1>a, <1>19 DEF NoMorePages
<1>20. ASSUME SectionFailed PROVE ReportSound'
  <2>1. \E record, ok : Record("failures", record, ok)
    BY <1>20 DEF SectionFailed
  <2>. QED  BY <1>b, <2>1 DEF Lists
<1>21. ASSUME CloseSection PROVE ReportSound'
  BY <1>a, <1>21 DEF CloseSection
<1>22. ASSUME StartPage PROVE ReportSound'
  BY <1>a, <1>22 DEF StartPage, PageFrame
<1>23. ASSUME ClaimNote PROVE ReportSound'
  BY <1>a, <1>23 DEF ClaimNote
<1>24. ASSUME OpenNote PROVE ReportSound'
  BY <1>a, <1>24 DEF OpenNote
<1>25. ASSUME Render PROVE ReportSound'
  <2>1. UNCHANGED report \/ \E record, ok : Record("skipped", record, ok)
    BY <1>25 DEF Render
  <2>. QED  BY <1>a, <1>b, <2>1 DEF Lists
<1>26. ASSUME ClaimAsset PROVE ReportSound'
  BY <1>a, <1>26 DEF ClaimAsset, WritingFrame, Writing, ThrowCancelled
<1>27. ASSUME OpenAsset PROVE ReportSound'
  BY <1>a, <1>27 DEF OpenAsset, WritingFrame, Writing, ThrowCancelled
<1>28. ASSUME CopyAsset PROVE ReportSound'
  BY <1>a, <1>28 DEF CopyAsset, WritingFrame, Writing, ThrowCancelled
<1>29. ASSUME RecordAsset PROVE ReportSound'
  <2>1. \E record, ok : Record("attachments", record, ok)
    BY <1>29 DEF RecordAsset
  <2>. QED  BY <1>b, <2>1 DEF Lists
<1>30. ASSUME RememberAsset PROVE ReportSound'
  BY <1>a, <1>30 DEF RememberAsset, WritingFrame, Writing, ThrowCancelled
<1>31. ASSUME RenderRest PROVE ReportSound'
  BY <1>a, <1>31 DEF RenderRest, WritingFrame, Writing, ThrowCancelled
<1>32. ASSUME FinishNote PROVE ReportSound'
  BY <1>a, <1>32 DEF FinishNote, WritingFrame, Writing, ThrowCancelled
<1>33. ASSUME AbortNote PROVE ReportSound'
  BY <1>a, <1>33 DEF AbortNote, WritingFrame
<1>34. ASSUME RecordNote PROVE ReportSound'
  <2>1. \E record, ok : Record("notes", record, ok)
    BY <1>34 DEF RecordNote
  <2>. QED  BY <1>b, <2>1 DEF Lists
<1>35. ASSUME NoteFailed PROVE ReportSound'
  <2>1. \E record, ok : Record("failures", record, ok)
    BY <1>35 DEF NoteFailed
  <2>. QED  BY <1>b, <2>1 DEF Lists
<1>36. ASSUME Level PROVE ReportSound'
  BY <1>a, <1>36 DEF Level, SectionStep
<1>37. ASSUME Arrive PROVE ReportSound'
  BY <1>a, <1>37 DEF Arrive, Still
<1>38. ASSUME Deliver PROVE ReportSound'
  BY <1>a, <1>38 DEF Deliver, Still
<1>39. ASSUME HookFires PROVE ReportSound'
  BY <1>a, <1>39 DEF HookFires, Still
<1>40. ASSUME Exited PROVE ReportSound'
  BY <1>a, <1>40 DEF Exited, vars
<1>. QED
  BY <1>1, <1>2, <1>3, <1>4, <1>5, <1>6, <1>7, <1>8, <1>9, <1>10, <1>11, <1>12, <1>13,
     <1>14, <1>15, <1>16, <1>17, <1>18, <1>19, <1>20, <1>21, <1>22, <1>23, <1>24, <1>25, <1>26,
     <1>27, <1>28, <1>29, <1>30, <1>31, <1>32, <1>33, <1>34, <1>35, <1>36, <1>37, <1>38, <1>39,
     <1>40
  DEF Next, Process, RunStep, SectionSteps, NoteSteps

\* What a step may add to what is reported as written.
ReportedNext ==
  Reported' \subseteq Reported \cup (IF pc = "recordNote" THEN {note} ELSE {})
                             \cup (IF pc = "recordAsset" THEN {asset} ELSE {})

\* What is reported as written, after a step: nothing new but the note or the
\* attachment in hand.
LEMMA ReportedStep ==
  ASSUME IInv, Next
  PROVE  ReportedNext
<1> USE DEF Goto, Crash, settings, files, workspace, closers, cursor, unwinding, outcome,
            events, names
<1>0. ReportSound
  BY DEF IInv
<1>a. ASSUME UNCHANGED report PROVE ReportedNext
  BY <1>a DEF ReportedNext, Reported, Records
<1>b. ASSUME NEW list \in Lists \ {"notes", "attachments"}, NEW record, NEW ok,
             Record(list, record, ok)
      PROVE  ReportedNext
  <2>1. \A other \in {"notes", "attachments"} : Records(other)' = Records(other)
    BY <1>0, <1>b, RecordsAfter DEF Lists
  <2>. QED  BY <2>1 DEF ReportedNext, Reported
<1>1. ASSUME Launch PROVE ReportedNext
  BY <1>a, <1>1 DEF Launch
<1>2. ASSUME NextInput PROVE ReportedNext
  <2>1. \E record, ok : Record("inputs", record, ok)
    BY <1>2 DEF NextInput
  <2>. QED  BY <1>b, <2>1 DEF Lists
<1>3. ASSUME NoMoreInputs PROVE ReportedNext
  BY <1>a, <1>3 DEF NoMoreInputs
<1>4. ASSUME RefuseInput PROVE ReportedNext
  <2>1. \E record, ok : Record("failures", record, ok)
    BY <1>4 DEF RefuseInput
  <2>. QED  BY <1>b, <2>1 DEF Lists
<1>5. ASSUME OpenInput PROVE ReportedNext
  BY <1>a, <1>5 DEF OpenInput
<1>6. ASSUME RejectContainer PROVE ReportedNext
  <2>1. \E record, ok : Record("failures", record, ok)
    BY <1>6 DEF RejectContainer
  <2>. QED  BY <1>b, <2>1 DEF Lists
<1>7. ASSUME InputFailed PROVE ReportedNext
  <2>1. \E record, ok : Record("failures", record, ok)
    BY <1>7 DEF InputFailed
  <2>. QED  BY <1>b, <2>1 DEF Lists
<1>8. ASSUME CloseInput PROVE ReportedNext
  BY <1>a, <1>8 DEF CloseInput
<1>9. ASSUME CloseGroup PROVE ReportedNext
  <2>1. \E record, ok : Record("groups", record, ok)
    BY <1>9 DEF CloseGroup
  <2>. QED  BY <1>b, <2>1 DEF Lists
<1>10. ASSUME Report PROVE ReportedNext
  BY <1>a, <1>10 DEF Report
<1>11. ASSUME Closing PROVE ReportedNext
  BY <1>a, <1>11 DEF Closing
<1>12. ASSUME OpenIndex PROVE ReportedNext
  BY <1>a, <1>12 DEF OpenIndex
<1>13. ASSUME OpenStore PROVE ReportedNext
  BY <1>a, <1>13 DEF OpenStore
<1>14. ASSUME ClaimSection PROVE ReportedNext
  BY <1>a, <1>14 DEF ClaimSection
<1>15. ASSUME CountNext PROVE ReportedNext
  BY <1>a, <1>15 DEF CountNext, SectionStep
<1>16. ASSUME CountPage PROVE ReportedNext
  BY <1>a, <1>16 DEF CountPage
<1>17. ASSUME StartPages PROVE ReportedNext
  BY <1>a, <1>17 DEF StartPages, SectionStep
<1>18. ASSUME NextPage PROVE ReportedNext
  BY <1>a, <1>18 DEF NextPage, SectionStep
<1>19. ASSUME NoMorePages PROVE ReportedNext
  BY <1>a, <1>19 DEF NoMorePages
<1>20. ASSUME SectionFailed PROVE ReportedNext
  <2>1. \E record, ok : Record("failures", record, ok)
    BY <1>20 DEF SectionFailed
  <2>. QED  BY <1>b, <2>1 DEF Lists
<1>21. ASSUME CloseSection PROVE ReportedNext
  BY <1>a, <1>21 DEF CloseSection
<1>22. ASSUME StartPage PROVE ReportedNext
  BY <1>a, <1>22 DEF StartPage, PageFrame
<1>23. ASSUME ClaimNote PROVE ReportedNext
  BY <1>a, <1>23 DEF ClaimNote
<1>24. ASSUME OpenNote PROVE ReportedNext
  BY <1>a, <1>24 DEF OpenNote
<1>25. ASSUME Render PROVE ReportedNext
  <2>1. UNCHANGED report \/ \E record, ok : Record("skipped", record, ok)
    BY <1>25 DEF Render
  <2>. QED  BY <1>a, <1>b, <2>1 DEF Lists
<1>26. ASSUME ClaimAsset PROVE ReportedNext
  BY <1>a, <1>26 DEF ClaimAsset, WritingFrame, Writing, ThrowCancelled
<1>27. ASSUME OpenAsset PROVE ReportedNext
  BY <1>a, <1>27 DEF OpenAsset, WritingFrame, Writing, ThrowCancelled
<1>28. ASSUME CopyAsset PROVE ReportedNext
  BY <1>a, <1>28 DEF CopyAsset, WritingFrame, Writing, ThrowCancelled
<1>29. ASSUME RecordAsset PROVE ReportedNext
  <2>1. PICK ok : Record("attachments", [input |-> input, path |-> asset], ok)
    BY <1>29 DEF RecordAsset
  <2>2. Records("attachments")' \subseteq Records("attachments") \cup {[input |-> input, path |-> asset]}
    BY <1>0, <2>1, RecordsAfter DEF Lists
  <2>3. Records("notes")' = Records("notes")
    BY <1>0, <2>1, RecordsAfter DEF Lists
  <2>4. Reported' \subseteq Reported \cup {asset}
    BY <2>2, <2>3 DEF Reported
  <2>. QED  BY <1>29, <2>4 DEF ReportedNext, RecordAsset
<1>30. ASSUME RememberAsset PROVE ReportedNext
  BY <1>a, <1>30 DEF RememberAsset, WritingFrame, Writing, ThrowCancelled
<1>31. ASSUME RenderRest PROVE ReportedNext
  BY <1>a, <1>31 DEF RenderRest, WritingFrame, Writing, ThrowCancelled
<1>32. ASSUME FinishNote PROVE ReportedNext
  BY <1>a, <1>32 DEF FinishNote, WritingFrame, Writing, ThrowCancelled
<1>33. ASSUME AbortNote PROVE ReportedNext
  BY <1>a, <1>33 DEF AbortNote, WritingFrame
<1>34. ASSUME RecordNote PROVE ReportedNext
  <2>1. PICK ok : Record("notes", [input |-> input, page |-> page, path |-> note], ok)
    BY <1>34 DEF RecordNote
  <2>2. Records("notes")' \subseteq Records("notes") \cup {[input |-> input, page |-> page, path |-> note]}
    BY <1>0, <2>1, RecordsAfter DEF Lists
  <2>3. Records("attachments")' = Records("attachments")
    BY <1>0, <2>1, RecordsAfter DEF Lists
  <2>4. Reported' \subseteq Reported \cup {note}
    BY <2>2, <2>3 DEF Reported
  <2>. QED  BY <1>34, <2>4 DEF ReportedNext, RecordNote
<1>35. ASSUME NoteFailed PROVE ReportedNext
  <2>1. \E record, ok : Record("failures", record, ok)
    BY <1>35 DEF NoteFailed
  <2>. QED  BY <1>b, <2>1 DEF Lists
<1>36. ASSUME Level PROVE ReportedNext
  BY <1>a, <1>36 DEF Level, SectionStep
<1>37. ASSUME Arrive PROVE ReportedNext
  BY <1>a, <1>37 DEF Arrive, Still
<1>38. ASSUME Deliver PROVE ReportedNext
  BY <1>a, <1>38 DEF Deliver, Still
<1>39. ASSUME HookFires PROVE ReportedNext
  BY <1>a, <1>39 DEF HookFires, Still
<1>40. ASSUME Exited PROVE ReportedNext
  BY <1>a, <1>40 DEF Exited, vars
<1>. QED
  BY <1>1, <1>2, <1>3, <1>4, <1>5, <1>6, <1>7, <1>8, <1>9, <1>10, <1>11, <1>12, <1>13,
     <1>14, <1>15, <1>16, <1>17, <1>18, <1>19, <1>20, <1>21, <1>22, <1>23, <1>24, <1>25, <1>26,
     <1>27, <1>28, <1>29, <1>30, <1>31, <1>32, <1>33, <1>34, <1>35, <1>36, <1>37, <1>38, <1>39,
     <1>40
  DEF Next, Process, RunStep, SectionSteps, NoteSteps

-----------------------------------------------------------------------------
\* Names, writers and signals, step by step

\* No file without a name the run claimed, and no name for two things.
LEMMA NamesStep ==
  ASSUME IInv, Next
  PROVE  NamesSound'
<1>0. NamesSound /\ ReportedNext
  BY ReportedStep DEF IInv
<1>a. ASSUME UNCHANGED <<claimed, note, asset>>, pc \notin {"recordNote", "recordAsset"},
             whole' \cup partial' \cup unsure' \subseteq whole \cup partial \cup unsure,
             pc' \in WithNote => pc \in WithNote, pc' \in WithAsset => pc \in WithAsset,
             pc' \notin {"openNote", "openAsset"}
      PROVE  NamesSound'
  BY <1>0, <1>a DEF NamesSound, ReportedNext
<1>f. openWriters = partial
  BY DEF IInv, TypeOK
<1>g. ASSUME UNCHANGED <<claimed, note, asset, files, report, pc>> PROVE NamesSound'
  BY <1>0, <1>g DEF NamesSound, files, Reported, Records
<1>b. ASSUME NEW path, NEW ok, Claim(path, ok)
      PROVE  /\ IsFiniteSet(claimed') /\ claimed \subseteq claimed'
             /\ ok => path \in claimed'
  BY <1>0, <1>b, FS_AddElement DEF NamesSound, Claim
<1> USE DEF Goto, Crash, settings, files, workspace, closers, cursor, unwinding, outcome,
            events, names, WithNote, Written, WithAsset
<1>1. ASSUME Launch PROVE NamesSound'
  BY <1>a, <1>1 DEF Launch
<1>2. ASSUME NextInput PROVE NamesSound'
  BY <1>a, <1>2 DEF NextInput
<1>3. ASSUME NoMoreInputs PROVE NamesSound'
  BY <1>a, <1>3 DEF NoMoreInputs
<1>4. ASSUME RefuseInput PROVE NamesSound'
  BY <1>a, <1>4 DEF RefuseInput
<1>5. ASSUME OpenInput PROVE NamesSound'
  BY <1>a, <1>5 DEF OpenInput
<1>6. ASSUME RejectContainer PROVE NamesSound'
  BY <1>a, <1>6 DEF RejectContainer
<1>7. ASSUME InputFailed PROVE NamesSound'
  BY <1>a, <1>7 DEF InputFailed
<1>8. ASSUME CloseInput PROVE NamesSound'
  BY <1>a, <1>f, <1>8 DEF CloseInput, AbortAll
<1>9. ASSUME CloseGroup PROVE NamesSound'
  BY <1>a, <1>9 DEF CloseGroup
<1>10. ASSUME Report PROVE NamesSound'
  BY <1>a, <1>10 DEF Report
<1>11. ASSUME Closing PROVE NamesSound'
  BY <1>a, <1>f, <1>11 DEF Closing, AbortAll
<1>12. ASSUME OpenIndex PROVE NamesSound'
  BY <1>a, <1>12 DEF OpenIndex
<1>13. ASSUME OpenStore PROVE NamesSound'
  BY <1>a, <1>13 DEF OpenStore
<1>14. ASSUME ClaimSection PROVE NamesSound'
  <2>1. IsFiniteSet(claimed') /\ claimed \subseteq claimed' /\ pc' \in {"count", "sectionFailed"}
    BY <1>b, <1>14 DEF ClaimSection
  <2>2. UNCHANGED files /\ Reported' \subseteq Reported
    BY <1>0, <1>14 DEF ClaimSection, ReportedNext
  <2>. QED  BY <1>0, <2>1, <2>2 DEF NamesSound
<1>15. ASSUME CountNext PROVE NamesSound'
  BY <1>a, <1>15 DEF CountNext, SectionStep
<1>16. ASSUME CountPage PROVE NamesSound'
  BY <1>a, <1>16 DEF CountPage
<1>17. ASSUME StartPages PROVE NamesSound'
  BY <1>a, <1>17 DEF StartPages, SectionStep
<1>18. ASSUME NextPage PROVE NamesSound'
  BY <1>a, <1>18 DEF NextPage, SectionStep
<1>19. ASSUME NoMorePages PROVE NamesSound'
  BY <1>a, <1>19 DEF NoMorePages
<1>20. ASSUME SectionFailed PROVE NamesSound'
  BY <1>a, <1>20 DEF SectionFailed
<1>21. ASSUME CloseSection PROVE NamesSound'
  BY <1>a, <1>21 DEF CloseSection
<1>22. ASSUME StartPage PROVE NamesSound'
  BY <1>a, <1>22 DEF StartPage, PageFrame
<1>23. ASSUME ClaimNote PROVE NamesSound'
  <2>1. PICK ok \in BOOLEAN :
          /\ Claim(Available(section, Page.title), ok)
          /\ note' = IF ok THEN Available(section, Page.title) ELSE note
          /\ pc' = IF ok THEN "openNote" ELSE "sectionFailed"
    BY <1>23 DEF ClaimNote
  <2>2. UNCHANGED files /\ Reported' \subseteq Reported
    BY <1>0, <1>23 DEF ClaimNote, ReportedNext
  <2>3. IsFiniteSet(claimed') /\ claimed \subseteq claimed'
    BY <1>b, <2>1
  <2>4. CASE ok
    <3>1. note' \notin claimed /\ note' \in claimed' /\ pc' = "openNote"
      BY <1>0, <1>b, <2>1, <2>4, AvailableIsFree DEF NamesSound
    <3>. QED  BY <1>0, <2>2, <2>3, <3>1 DEF NamesSound
  <2>5. CASE ~ok
    <3>1. pc' = "sectionFailed"
      BY <2>1, <2>5
    <3>. QED  BY <1>0, <2>2, <2>3, <3>1 DEF NamesSound
  <2>. QED  BY <2>4, <2>5
<1>24. ASSUME OpenNote PROVE NamesSound'
  <2>1. pc = "openNote" /\ UNCHANGED <<claimed, note, asset>> /\ pc' \in {"render", "noteFailed"}
    BY <1>24 DEF OpenNote
  <2>2. Reported' \subseteq Reported /\ note \in claimed \ Reported
    BY <1>0, <2>1 DEF NamesSound, ReportedNext
  <2>3. whole' \cup partial' \cup unsure' \subseteq whole \cup partial \cup unsure \cup {note}
    BY <1>24 DEF OpenNote, Open
  <2>. QED  BY <1>0, <2>1, <2>2, <2>3 DEF NamesSound
<1>25. ASSUME Render PROVE NamesSound'
  BY <1>a, <1>25 DEF Render, WritingFrame, Writing, ThrowCancelled
<1>26. ASSUME ClaimAsset PROVE NamesSound'
  <2>1. PICK ok \in BOOLEAN :
          /\ Claim(Available(Attachments, "image"), ok)
          /\ asset' = IF ok THEN Available(Attachments, "image") ELSE asset
          /\ pc' = IF ok THEN "openAsset" ELSE "abortNote"
    BY <1>26 DEF ClaimAsset, Writing
  <2>2. pc = "claimAsset" /\ note' = note /\ UNCHANGED files /\ Reported' \subseteq Reported
    BY <1>0, <1>26 DEF ClaimAsset, WritingFrame, ReportedNext
  <2>3. IsFiniteSet(claimed') /\ claimed \subseteq claimed'
    BY <1>b, <2>1
  <2>4. note \in claimed \ Reported
    BY <1>0, <2>2 DEF NamesSound
  <2>5. CASE ok
    <3>1. asset' \notin claimed /\ asset' \in claimed' /\ pc' = "openAsset"
      BY <1>0, <1>b, <2>1, <2>5, AvailableIsFree DEF NamesSound
    <3>. QED  BY <1>0, <2>2, <2>3, <2>4, <3>1 DEF NamesSound
  <2>6. CASE ~ok
    <3>1. pc' = "abortNote"
      BY <2>1, <2>6
    <3>. QED  BY <1>0, <2>2, <2>3, <3>1 DEF NamesSound
  <2>. QED  BY <2>5, <2>6
<1>27. ASSUME OpenAsset PROVE NamesSound'
  <2>1. pc = "openAsset" /\ UNCHANGED <<claimed, note, asset>> /\ pc' \in {"copyAsset", "abortNote"}
    BY <1>27 DEF OpenAsset, WritingFrame, Writing
  <2>2. Reported' \subseteq Reported /\ {note, asset} \subseteq claimed \ Reported /\ asset # note
    BY <1>0, <2>1 DEF NamesSound, ReportedNext
  <2>3. whole' \cup partial' \cup unsure' \subseteq whole \cup partial \cup unsure \cup {asset}
    BY <1>27 DEF OpenAsset, Open
  <2>. QED  BY <1>0, <2>1, <2>2, <2>3 DEF NamesSound
<1>28. ASSUME CopyAsset PROVE NamesSound'
  <2>1. pc = "copyAsset" /\ UNCHANGED <<claimed, note, asset>> /\ pc' \in {"recordAsset", "abortNote"}
    BY <1>28 DEF CopyAsset, WritingFrame, Writing
  <2>2. whole' \cup partial' \cup unsure' \subseteq whole \cup partial \cup unsure
    BY <1>28, <1>f DEF CopyAsset, Abort, Close
  <2>. QED  BY <1>a, <2>1, <2>2
<1>29. ASSUME RecordAsset PROVE NamesSound'
  <2>1. pc = "recordAsset" /\ UNCHANGED <<claimed, note, files>> /\ pc' \in {"rememberAsset", "abortNote"}
    BY <1>29 DEF RecordAsset, WritingFrame, Writing
  <2>2. Reported' \subseteq Reported \cup {asset} /\ {note, asset} \subseteq claimed \ Reported /\ asset # note
    BY <1>0, <2>1 DEF NamesSound, ReportedNext
  <2>. QED  BY <1>0, <2>1, <2>2 DEF NamesSound
<1>30. ASSUME RememberAsset PROVE NamesSound'
  BY <1>a, <1>30 DEF RememberAsset, WritingFrame, Writing, ThrowCancelled
<1>31. ASSUME RenderRest PROVE NamesSound'
  BY <1>a, <1>31 DEF RenderRest, WritingFrame, Writing, ThrowCancelled
<1>32. ASSUME FinishNote PROVE NamesSound'
  <2>1. pc = "finishNote" /\ UNCHANGED <<claimed, note, asset>> /\ pc' \in {"recordNote", "abortNote"}
    BY <1>32 DEF FinishNote, Writing
  <2>2. whole' \cup partial' \cup unsure' \subseteq whole \cup partial \cup unsure
    BY <1>32, <1>f DEF FinishNote, Close
  <2>. QED  BY <1>a, <2>1, <2>2
<1>33. ASSUME AbortNote PROVE NamesSound'
  <2>1. UNCHANGED <<claimed, note, asset>> /\ pc = "abortNote" /\ pc' \in {"closeSection", "noteFailed"}
    BY <1>33 DEF AbortNote, WritingFrame
  <2>2. whole' \cup partial' \cup unsure' \subseteq whole \cup partial \cup unsure
    BY <1>33, <1>f DEF AbortNote, Abort
  <2>. QED  BY <1>a, <2>1, <2>2
<1>34. ASSUME RecordNote PROVE NamesSound'
  <2>1. pc = "recordNote" /\ UNCHANGED <<claimed, files>> /\ pc' \in {"level", "noteFailed"}
    BY <1>34 DEF RecordNote
  <2>2. Reported' \subseteq Reported \cup {note} /\ note \in claimed
    BY <1>0, <2>1 DEF NamesSound, ReportedNext
  <2>. QED  BY <1>0, <2>1, <2>2 DEF NamesSound
<1>35. ASSUME NoteFailed PROVE NamesSound'
  BY <1>a, <1>35 DEF NoteFailed
<1>36. ASSUME Level PROVE NamesSound'
  BY <1>a, <1>36 DEF Level, SectionStep
<1>37. ASSUME Arrive PROVE NamesSound'
  BY <1>g, <1>37 DEF Arrive, Still
<1>38. ASSUME Deliver PROVE NamesSound'
  BY <1>a, <1>38 DEF Deliver, Still
<1>39. ASSUME HookFires PROVE NamesSound'
  BY <1>g, <1>39 DEF HookFires, Still
<1>40. ASSUME Exited PROVE NamesSound'
  BY <1>a, <1>40 DEF Exited, vars
<1>. QED
  BY <1>1, <1>2, <1>3, <1>4, <1>5, <1>6, <1>7, <1>8, <1>9, <1>10, <1>11, <1>12, <1>13,
     <1>14, <1>15, <1>16, <1>17, <1>18, <1>19, <1>20, <1>21, <1>22, <1>23, <1>24, <1>25, <1>26,
     <1>27, <1>28, <1>29, <1>30, <1>31, <1>32, <1>33, <1>34, <1>35, <1>36, <1>37, <1>38, <1>39,
     <1>40
  DEF Next, Process, RunStep, SectionSteps, NoteSteps

\* A note stays open until it is finished, and is complete when it is reported.
LEMMA WritersStep ==
  ASSUME IInv, Next
  PROVE  WritersSound'
<1>0. WritersSound
  BY DEF IInv
<1>a. ASSUME UNCHANGED <<mode, files, note, asset>>, pc' \in Written => pc \in Written,
             pc' \notin {"copyAsset", "recordAsset", "recordNote"},
             pc' = "rememberAsset" => pc = "recordAsset"
      PROVE  WritersSound'
  BY <1>0, <1>a DEF WritersSound, files
<1>b. ASSUME UNCHANGED mode, pc' \notin Written \cup {"copyAsset", "recordAsset", "rememberAsset", "recordNote"}
      PROVE  WritersSound'
  BY <1>0, <1>b DEF WritersSound
<1>c. ASSUME UNCHANGED <<mode, files, note, asset, pc>> PROVE WritersSound'
  BY <1>0, <1>c DEF WritersSound, files
<1> USE DEF Goto, Crash, settings, files, workspace, closers, cursor, unwinding, outcome,
            events, names, WithNote, Written, WithAsset
<1>1. ASSUME Launch PROVE WritersSound'
  BY <1>a, <1>b, <1>1 DEF Launch
<1>2. ASSUME NextInput PROVE WritersSound'
  BY <1>a, <1>b, <1>2 DEF NextInput
<1>3. ASSUME NoMoreInputs PROVE WritersSound'
  BY <1>a, <1>b, <1>3 DEF NoMoreInputs
<1>4. ASSUME RefuseInput PROVE WritersSound'
  BY <1>a, <1>b, <1>4 DEF RefuseInput
<1>5. ASSUME OpenInput PROVE WritersSound'
  BY <1>a, <1>b, <1>5 DEF OpenInput
<1>6. ASSUME RejectContainer PROVE WritersSound'
  BY <1>a, <1>b, <1>6 DEF RejectContainer
<1>7. ASSUME InputFailed PROVE WritersSound'
  BY <1>a, <1>b, <1>7 DEF InputFailed
<1>8. ASSUME CloseInput PROVE WritersSound'
  BY <1>a, <1>b, <1>8 DEF CloseInput
<1>9. ASSUME CloseGroup PROVE WritersSound'
  BY <1>a, <1>b, <1>9 DEF CloseGroup
<1>10. ASSUME Report PROVE WritersSound'
  BY <1>a, <1>b, <1>10 DEF Report
<1>11. ASSUME Closing PROVE WritersSound'
  BY <1>a, <1>b, <1>11 DEF Closing
<1>12. ASSUME OpenIndex PROVE WritersSound'
  BY <1>a, <1>b, <1>12 DEF OpenIndex
<1>13. ASSUME OpenStore PROVE WritersSound'
  BY <1>a, <1>b, <1>13 DEF OpenStore
<1>14. ASSUME ClaimSection PROVE WritersSound'
  BY <1>a, <1>b, <1>14 DEF ClaimSection
<1>15. ASSUME CountNext PROVE WritersSound'
  BY <1>a, <1>b, <1>15 DEF CountNext, SectionStep
<1>16. ASSUME CountPage PROVE WritersSound'
  BY <1>a, <1>b, <1>16 DEF CountPage
<1>17. ASSUME StartPages PROVE WritersSound'
  BY <1>a, <1>b, <1>17 DEF StartPages, SectionStep
<1>18. ASSUME NextPage PROVE WritersSound'
  BY <1>a, <1>b, <1>18 DEF NextPage, SectionStep
<1>19. ASSUME NoMorePages PROVE WritersSound'
  BY <1>a, <1>b, <1>19 DEF NoMorePages
<1>20. ASSUME SectionFailed PROVE WritersSound'
  BY <1>a, <1>b, <1>20 DEF SectionFailed
<1>21. ASSUME CloseSection PROVE WritersSound'
  BY <1>a, <1>b, <1>21 DEF CloseSection
<1>22. ASSUME StartPage PROVE WritersSound'
  BY <1>a, <1>b, <1>22 DEF StartPage, PageFrame
<1>23. ASSUME ClaimNote PROVE WritersSound'
  BY <1>a, <1>b, <1>23 DEF ClaimNote
<1>24. ASSUME OpenNote PROVE WritersSound'
  <2>1. /\ UNCHANGED <<mode, note, asset>>
        /\ pc' = "noteFailed" \/ (pc' = "render" /\ Open(note))
    BY <1>24 DEF OpenNote
  <2>2. CASE pc' = "render" /\ Open(note)
    <3>1. mode # "dryRun" => note \in openWriters'
      BY <2>2 DEF Open
    <3>. QED  BY <1>0, <2>1, <2>2, <3>1 DEF WritersSound
  <2>. QED  BY <1>b, <2>1, <2>2
<1>25. ASSUME Render PROVE WritersSound'
  BY <1>a, <1>b, <1>25 DEF Render, WritingFrame, Writing, ThrowCancelled
<1>26. ASSUME ClaimAsset PROVE WritersSound'
  <2>1. /\ pc = "claimAsset" /\ UNCHANGED <<mode, files, note>>
        /\ pc' \in {"openAsset", "abortNote"}
    BY <1>26 DEF ClaimAsset, Writing, WritingFrame
  <2>. QED  BY <1>0, <2>1 DEF WritersSound
<1>27. ASSUME OpenAsset PROVE WritersSound'
  <2>1. /\ pc = "openAsset" /\ UNCHANGED <<mode, note, asset>>
        /\ pc' = "abortNote" \/ (pc' = "copyAsset" /\ Open(asset))
    BY <1>27 DEF OpenAsset, Writing, WritingFrame
  <2>2. CASE pc' = "copyAsset" /\ Open(asset)
    <3>1. mode # "dryRun" => openWriters' = openWriters \cup {asset}
      BY <2>2 DEF Open
    <3>2. mode # "dryRun" => note \in openWriters
      BY <1>0, <2>1 DEF WritersSound
    <3>. QED  BY <1>0, <2>1, <2>2, <3>1, <3>2 DEF WritersSound
  <2>. QED  BY <1>b, <2>1, <2>2
<1>28. ASSUME CopyAsset PROVE WritersSound'
  <2>1. /\ pc = "copyAsset" /\ UNCHANGED <<mode, note, asset>>
        /\ pc' = "abortNote" \/ (pc' = "recordAsset" /\ Close(asset, TRUE))
    BY <1>28 DEF CopyAsset, Writing, WritingFrame
  <2>2. CASE pc' = "recordAsset" /\ Close(asset, TRUE)
    <3>1. mode # "dryRun" => note \in openWriters /\ asset \in openWriters
      BY <1>0, <2>1 DEF WritersSound
    <3>2. mode # "dryRun" => openWriters' = openWriters \ {asset} /\ asset \in whole'
      BY <2>2, <3>1 DEF Close
    <3>3. asset # note
      BY <2>1 DEF IInv, NamesSound
    <3>. QED  BY <1>0, <2>1, <2>2, <3>1, <3>2, <3>3 DEF WritersSound
  <2>. QED  BY <1>b, <2>1, <2>2
<1>29. ASSUME RecordAsset PROVE WritersSound'
  BY <1>a, <1>b, <1>29 DEF RecordAsset, WritingFrame, Writing, ThrowCancelled
<1>30. ASSUME RememberAsset PROVE WritersSound'
  BY <1>a, <1>b, <1>30 DEF RememberAsset, WritingFrame, Writing, ThrowCancelled
<1>31. ASSUME RenderRest PROVE WritersSound'
  BY <1>a, <1>b, <1>31 DEF RenderRest, WritingFrame, Writing, ThrowCancelled
<1>32. ASSUME FinishNote PROVE WritersSound'
  <2>1. /\ pc = "finishNote" /\ UNCHANGED <<mode, note, asset>>
        /\ pc' = "abortNote" \/ (pc' = "recordNote" /\ Close(note, TRUE))
    BY <1>32 DEF FinishNote, Writing
  <2>2. CASE pc' = "recordNote" /\ Close(note, TRUE)
    <3>1. mode # "dryRun" => note \in openWriters
      BY <1>0, <2>1 DEF WritersSound
    <3>2. mode # "dryRun" => note \in whole'
      BY <2>2, <3>1 DEF Close
    <3>. QED  BY <1>0, <2>1, <2>2, <3>2 DEF WritersSound
  <2>. QED  BY <1>b, <2>1, <2>2
<1>33. ASSUME AbortNote PROVE WritersSound'
  BY <1>a, <1>b, <1>33 DEF AbortNote, WritingFrame
<1>34. ASSUME RecordNote PROVE WritersSound'
  BY <1>a, <1>b, <1>34 DEF RecordNote
<1>35. ASSUME NoteFailed PROVE WritersSound'
  BY <1>a, <1>b, <1>35 DEF NoteFailed
<1>36. ASSUME Level PROVE WritersSound'
  BY <1>a, <1>b, <1>36 DEF Level, SectionStep
<1>37. ASSUME Arrive PROVE WritersSound'
  BY <1>c, <1>37 DEF Arrive, Still
<1>38. ASSUME Deliver PROVE WritersSound'
  BY <1>b, <1>38 DEF Deliver, Still
<1>39. ASSUME HookFires PROVE WritersSound'
  BY <1>c, <1>39 DEF HookFires, Still
<1>40. ASSUME Exited PROVE WritersSound'
  BY <1>c, <1>40 DEF Exited, vars
<1>. QED
  BY <1>1, <1>2, <1>3, <1>4, <1>5, <1>6, <1>7, <1>8, <1>9, <1>10, <1>11, <1>12, <1>13,
     <1>14, <1>15, <1>16, <1>17, <1>18, <1>19, <1>20, <1>21, <1>22, <1>23, <1>24, <1>25, <1>26,
     <1>27, <1>28, <1>29, <1>30, <1>31, <1>32, <1>33, <1>34, <1>35, <1>36, <1>37, <1>38, <1>39,
     <1>40
  DEF Next, Process, RunStep, SectionSteps, NoteSteps

\* What a step may do to the mode and to the remembered attachments.
ContentNext == mode' = mode /\ (content' = content \/ RememberAsset)

\* The mode is set once, and only save remembers content.
LEMMA ContentStep ==
  ASSUME IInv, Next
  PROVE  ContentNext
<1> USE DEF Goto, Crash, settings, files, workspace, closers, cursor, unwinding, outcome,
            events, names
<1> USE DEF ContentNext
<1>1. ASSUME Launch PROVE ContentNext
  BY <1>1 DEF Launch
<1>2. ASSUME NextInput PROVE ContentNext
  BY <1>2 DEF NextInput
<1>3. ASSUME NoMoreInputs PROVE ContentNext
  BY <1>3 DEF NoMoreInputs
<1>4. ASSUME RefuseInput PROVE ContentNext
  BY <1>4 DEF RefuseInput
<1>5. ASSUME OpenInput PROVE ContentNext
  BY <1>5 DEF OpenInput
<1>6. ASSUME RejectContainer PROVE ContentNext
  BY <1>6 DEF RejectContainer
<1>7. ASSUME InputFailed PROVE ContentNext
  BY <1>7 DEF InputFailed
<1>8. ASSUME CloseInput PROVE ContentNext
  BY <1>8 DEF CloseInput
<1>9. ASSUME CloseGroup PROVE ContentNext
  BY <1>9 DEF CloseGroup
<1>10. ASSUME Report PROVE ContentNext
  BY <1>10 DEF Report
<1>11. ASSUME Closing PROVE ContentNext
  BY <1>11 DEF Closing
<1>12. ASSUME OpenIndex PROVE ContentNext
  BY <1>12 DEF OpenIndex
<1>13. ASSUME OpenStore PROVE ContentNext
  BY <1>13 DEF OpenStore
<1>14. ASSUME ClaimSection PROVE ContentNext
  BY <1>14 DEF ClaimSection
<1>15. ASSUME CountNext PROVE ContentNext
  BY <1>15 DEF CountNext, SectionStep
<1>16. ASSUME CountPage PROVE ContentNext
  BY <1>16 DEF CountPage
<1>17. ASSUME StartPages PROVE ContentNext
  BY <1>17 DEF StartPages, SectionStep
<1>18. ASSUME NextPage PROVE ContentNext
  BY <1>18 DEF NextPage, SectionStep
<1>19. ASSUME NoMorePages PROVE ContentNext
  BY <1>19 DEF NoMorePages
<1>20. ASSUME SectionFailed PROVE ContentNext
  BY <1>20 DEF SectionFailed
<1>21. ASSUME CloseSection PROVE ContentNext
  BY <1>21 DEF CloseSection
<1>22. ASSUME StartPage PROVE ContentNext
  BY <1>22 DEF StartPage, PageFrame
<1>23. ASSUME ClaimNote PROVE ContentNext
  BY <1>23 DEF ClaimNote
<1>24. ASSUME OpenNote PROVE ContentNext
  BY <1>24 DEF OpenNote
<1>25. ASSUME Render PROVE ContentNext
  BY <1>25 DEF Render, WritingFrame, Writing, ThrowCancelled
<1>26. ASSUME ClaimAsset PROVE ContentNext
  BY <1>26 DEF ClaimAsset, WritingFrame, Writing, ThrowCancelled
<1>27. ASSUME OpenAsset PROVE ContentNext
  BY <1>27 DEF OpenAsset, WritingFrame, Writing, ThrowCancelled
<1>28. ASSUME CopyAsset PROVE ContentNext
  BY <1>28 DEF CopyAsset, WritingFrame, Writing, ThrowCancelled
<1>29. ASSUME RecordAsset PROVE ContentNext
  BY <1>29 DEF RecordAsset, WritingFrame, Writing, ThrowCancelled
<1>30. ASSUME RememberAsset PROVE ContentNext
  BY <1>30 DEF RememberAsset, WritingFrame
<1>31. ASSUME RenderRest PROVE ContentNext
  BY <1>31 DEF RenderRest, WritingFrame, Writing, ThrowCancelled
<1>32. ASSUME FinishNote PROVE ContentNext
  BY <1>32 DEF FinishNote, WritingFrame, Writing, ThrowCancelled
<1>33. ASSUME AbortNote PROVE ContentNext
  BY <1>33 DEF AbortNote, WritingFrame
<1>34. ASSUME RecordNote PROVE ContentNext
  BY <1>34 DEF RecordNote
<1>35. ASSUME NoteFailed PROVE ContentNext
  BY <1>35 DEF NoteFailed
<1>36. ASSUME Level PROVE ContentNext
  BY <1>36 DEF Level, SectionStep
<1>37. ASSUME Arrive PROVE ContentNext
  BY <1>37 DEF Arrive, Still
<1>38. ASSUME Deliver PROVE ContentNext
  BY <1>38 DEF Deliver, Still
<1>39. ASSUME HookFires PROVE ContentNext
  BY <1>39 DEF HookFires, Still
<1>40. ASSUME Exited PROVE ContentNext
  BY <1>40 DEF Exited, vars
<1>. QED
  BY <1>1, <1>2, <1>3, <1>4, <1>5, <1>6, <1>7, <1>8, <1>9, <1>10, <1>11, <1>12, <1>13,
     <1>14, <1>15, <1>16, <1>17, <1>18, <1>19, <1>20, <1>21, <1>22, <1>23, <1>24, <1>25, <1>26,
     <1>27, <1>28, <1>29, <1>30, <1>31, <1>32, <1>33, <1>34, <1>35, <1>36, <1>37, <1>38, <1>39,
     <1>40
  DEF Next, Process, RunStep, SectionSteps, NoteSteps

\* What is reported or linked to is complete, and stays complete.
LEMMA DiskStep ==
  ASSUME IInv, Next
  PROVE  RecordedOnDisk'
<1> DEFINE Linked == {r.path : r \in content}
<1>1. RecordedOnDisk <=> (mode # "dryRun" => Reported \cup Linked \subseteq whole)
  BY DEF RecordedOnDisk, Reported
<1>2. RecordedOnDisk' <=> (mode' # "dryRun" => Reported' \cup Linked' \subseteq whole')
  BY DEF RecordedOnDisk, Reported
<1>3. mode' = mode /\ (content' = content \/ RememberAsset)
  BY ContentStep DEF ContentNext
<1>4. whole \subseteq whole' /\ ReportedNext /\ RecordedOnDisk /\ WritersSound
  BY KeptStep, ReportedStep DEF IInv, Kept
<1>5. mode # "dryRun" => Reported' \subseteq whole'
  BY <1>1, <1>4 DEF ReportedNext, WritersSound
<1>6. mode # "dryRun" => Linked' \subseteq whole'
  <2>1. CASE content' = content
    BY <1>1, <1>4, <2>1
  <2>2. CASE RememberAsset
    <3>1. PICK dir, digest, ok : RememberContent(dir, digest, asset, ok)
      BY <2>2 DEF RememberAsset
    <3>2. content' \subseteq content \cup {[dir |-> dir, digest |-> digest, path |-> asset]}
      BY <3>1 DEF RememberContent
    <3>3. Linked' \subseteq Linked \cup {asset}
      BY <3>2
    <3>4. mode # "dryRun" => asset \in whole
      BY <1>4, <2>2 DEF RememberAsset, WritersSound
    <3>. QED  BY <1>1, <1>4, <3>3, <3>4
  <2>. QED  BY <1>3, <2>1, <2>2
<1>. QED  BY <1>2, <1>3, <1>5, <1>6

\* A path that is reported nowhere may be reported once.
LEMMA ReportsFreshPath ==
  ASSUME ReportSound, NoPathTwice, NEW list \in {"notes", "attachments"}, NEW record, NEW ok,
         Record(list, record, ok), record.path \notin Reported
  PROVE  NoPathTwice'
<1> DEFINE lists == {"notes", "attachments"}
           L(l) == Len(report[l])
<1>0. list \in Lists /\ \A l \in lists : l \in Lists /\ L(l) \in Nat
  BY DEF Lists, ReportSound
<1>1. /\ \A other \in lists \ {list} : report'[other] = report[other]
      /\ Len(report'[list]) = L(list) + 1
      /\ \A n \in 1..L(list) : report'[list][n] = report[list][n]
      /\ report'[list][L(list) + 1] \in {record, Missing}
  BY <1>0, Recorded
<1>2. \A l \in lists : \A n \in 1..L(l) : report[l][n] # Missing => report[l][n].path \in Reported
  <2> SUFFICES ASSUME NEW l \in lists, NEW n \in 1..L(l), report[l][n] # Missing
               PROVE  report[l][n].path \in Reported
    OBVIOUS
  <2>1. PICK S : report[l] \in Seq(S)
    BY <1>0 DEF ReportSound
  <2>2. report[l][n] \in Records(l)
    BY <2>1 DEF Records, Range
  <2>. QED  BY <2>2 DEF Reported
<1>3. SUFFICES ASSUME NEW l \in lists, NEW k \in lists,
                      NEW n \in 1..Len(report'[l]), NEW m \in 1..Len(report'[k]),
                      Missing \notin {report'[l][n], report'[k][m]},
                      report'[l][n].path = report'[k][m].path
               PROVE  l = k /\ n = m
  BY DEF NoPathTwice
<1> DEFINE New(j, i) == j = list /\ i = L(list) + 1
<1>4. ASSUME NEW j \in lists, NEW i \in 1..Len(report'[j]), report'[j][i] # Missing
      PROVE  \/ New(j, i) /\ report'[j][i] = record
             \/ ~New(j, i) /\ i \in 1..L(j) /\ report'[j][i] = report[j][i]
                /\ report'[j][i].path \in Reported
  <2>1. CASE j = list /\ i = L(list) + 1
    BY <1>1, <1>4, <2>1
  <2>2. CASE ~(j = list /\ i = L(list) + 1)
    <3>1. i \in 1..L(j) /\ report'[j][i] = report[j][i]
      <4>1. CASE j = list
        <5>1. i \in 1..L(list) + 1 /\ i # L(list) + 1 /\ L(list) \in Nat
          BY <1>0, <1>1, <2>2, <4>1
        <5>2. i \in 1..L(list)
          BY <5>1
        <5>. QED  BY <1>1, <4>1, <5>2
      <4>2. CASE j # list
        BY <1>1, <4>2
      <4>. QED  BY <4>1, <4>2
    <3>. QED  BY <1>2, <1>4, <2>2, <3>1
  <2>. QED  BY <2>1, <2>2
<1>5. CASE ~New(l, n) /\ ~New(k, m)
  <2>1. /\ n \in 1..L(l) /\ m \in 1..L(k)
        /\ report'[l][n] = report[l][n] /\ report'[k][m] = report[k][m]
    BY <1>3, <1>4, <1>5
  <2>2. Missing \notin {report[l][n], report[k][m]} /\ report[l][n].path = report[k][m].path
    BY <1>3, <2>1
  <2>. QED  BY <2>1, <2>2 DEF NoPathTwice
<1>6. CASE New(l, n) \/ New(k, m)
  BY <1>3, <1>4, <1>6
<1>. QED  BY <1>5, <1>6

\* No step reports a path twice.
LEMMA PathsStep ==
  ASSUME IInv, Next
  PROVE  NoPathTwice'
<1> USE DEF Goto, Crash, settings, files, workspace, closers, cursor, unwinding, outcome,
            events, names
<1>0. ReportSound /\ NoPathTwice /\ NamesSound
  BY DEF IInv
<1>a. ASSUME UNCHANGED report PROVE NoPathTwice'
  BY <1>0, <1>a DEF NoPathTwice
<1>b. ASSUME NEW list \in Lists \ {"notes", "attachments"}, NEW record, NEW ok,
             Record(list, record, ok)
      PROVE  NoPathTwice'
  <2>1. report'["notes"] = report["notes"] /\ report'["attachments"] = report["attachments"]
    BY <1>0, <1>b, Recorded DEF Lists
  <2>2. \A l \in {"notes", "attachments"} : report'[l] = report[l]
    BY <2>1
  <2>. QED  BY <1>0, <2>2 DEF NoPathTwice
<1>1. ASSUME Launch PROVE NoPathTwice'
  BY <1>a, <1>1 DEF Launch
<1>2. ASSUME NextInput PROVE NoPathTwice'
  <2>1. \E record, ok : Record("inputs", record, ok)
    BY <1>2 DEF NextInput
  <2>. QED  BY <1>b, <2>1 DEF Lists
<1>3. ASSUME NoMoreInputs PROVE NoPathTwice'
  BY <1>a, <1>3 DEF NoMoreInputs
<1>4. ASSUME RefuseInput PROVE NoPathTwice'
  <2>1. \E record, ok : Record("failures", record, ok)
    BY <1>4 DEF RefuseInput
  <2>. QED  BY <1>b, <2>1 DEF Lists
<1>5. ASSUME OpenInput PROVE NoPathTwice'
  BY <1>a, <1>5 DEF OpenInput
<1>6. ASSUME RejectContainer PROVE NoPathTwice'
  <2>1. \E record, ok : Record("failures", record, ok)
    BY <1>6 DEF RejectContainer
  <2>. QED  BY <1>b, <2>1 DEF Lists
<1>7. ASSUME InputFailed PROVE NoPathTwice'
  <2>1. \E record, ok : Record("failures", record, ok)
    BY <1>7 DEF InputFailed
  <2>. QED  BY <1>b, <2>1 DEF Lists
<1>8. ASSUME CloseInput PROVE NoPathTwice'
  BY <1>a, <1>8 DEF CloseInput
<1>9. ASSUME CloseGroup PROVE NoPathTwice'
  <2>1. \E record, ok : Record("groups", record, ok)
    BY <1>9 DEF CloseGroup
  <2>. QED  BY <1>b, <2>1 DEF Lists
<1>10. ASSUME Report PROVE NoPathTwice'
  BY <1>a, <1>10 DEF Report
<1>11. ASSUME Closing PROVE NoPathTwice'
  BY <1>a, <1>11 DEF Closing
<1>12. ASSUME OpenIndex PROVE NoPathTwice'
  BY <1>a, <1>12 DEF OpenIndex
<1>13. ASSUME OpenStore PROVE NoPathTwice'
  BY <1>a, <1>13 DEF OpenStore
<1>14. ASSUME ClaimSection PROVE NoPathTwice'
  BY <1>a, <1>14 DEF ClaimSection
<1>15. ASSUME CountNext PROVE NoPathTwice'
  BY <1>a, <1>15 DEF CountNext, SectionStep
<1>16. ASSUME CountPage PROVE NoPathTwice'
  BY <1>a, <1>16 DEF CountPage
<1>17. ASSUME StartPages PROVE NoPathTwice'
  BY <1>a, <1>17 DEF StartPages, SectionStep
<1>18. ASSUME NextPage PROVE NoPathTwice'
  BY <1>a, <1>18 DEF NextPage, SectionStep
<1>19. ASSUME NoMorePages PROVE NoPathTwice'
  BY <1>a, <1>19 DEF NoMorePages
<1>20. ASSUME SectionFailed PROVE NoPathTwice'
  <2>1. \E record, ok : Record("failures", record, ok)
    BY <1>20 DEF SectionFailed
  <2>. QED  BY <1>b, <2>1 DEF Lists
<1>21. ASSUME CloseSection PROVE NoPathTwice'
  BY <1>a, <1>21 DEF CloseSection
<1>22. ASSUME StartPage PROVE NoPathTwice'
  BY <1>a, <1>22 DEF StartPage, PageFrame
<1>23. ASSUME ClaimNote PROVE NoPathTwice'
  BY <1>a, <1>23 DEF ClaimNote
<1>24. ASSUME OpenNote PROVE NoPathTwice'
  BY <1>a, <1>24 DEF OpenNote
<1>25. ASSUME Render PROVE NoPathTwice'
  <2>1. UNCHANGED report \/ \E record, ok : Record("skipped", record, ok)
    BY <1>25 DEF Render
  <2>. QED  BY <1>a, <1>b, <2>1 DEF Lists
<1>26. ASSUME ClaimAsset PROVE NoPathTwice'
  BY <1>a, <1>26 DEF ClaimAsset, WritingFrame, Writing, ThrowCancelled
<1>27. ASSUME OpenAsset PROVE NoPathTwice'
  BY <1>a, <1>27 DEF OpenAsset, WritingFrame, Writing, ThrowCancelled
<1>28. ASSUME CopyAsset PROVE NoPathTwice'
  BY <1>a, <1>28 DEF CopyAsset, WritingFrame, Writing, ThrowCancelled
<1>29. ASSUME RecordAsset PROVE NoPathTwice'
  <2>1. PICK ok : Record("attachments", [input |-> input, path |-> asset], ok)
    BY <1>29 DEF RecordAsset
  <2>2. asset \notin Reported
    BY <1>0, <1>29 DEF NamesSound, RecordAsset, WithAsset
  <2>. QED  BY <1>0, <2>1, <2>2, ReportsFreshPath
<1>30. ASSUME RememberAsset PROVE NoPathTwice'
  BY <1>a, <1>30 DEF RememberAsset, WritingFrame, Writing, ThrowCancelled
<1>31. ASSUME RenderRest PROVE NoPathTwice'
  BY <1>a, <1>31 DEF RenderRest, WritingFrame, Writing, ThrowCancelled
<1>32. ASSUME FinishNote PROVE NoPathTwice'
  BY <1>a, <1>32 DEF FinishNote, WritingFrame, Writing, ThrowCancelled
<1>33. ASSUME AbortNote PROVE NoPathTwice'
  BY <1>a, <1>33 DEF AbortNote, WritingFrame
<1>34. ASSUME RecordNote PROVE NoPathTwice'
  <2>1. PICK ok : Record("notes", [input |-> input, page |-> page, path |-> note], ok)
    BY <1>34 DEF RecordNote
  <2>2. note \notin Reported
    BY <1>0, <1>34 DEF NamesSound, RecordNote, WithNote
  <2>. QED  BY <1>0, <2>1, <2>2, ReportsFreshPath
<1>35. ASSUME NoteFailed PROVE NoPathTwice'
  <2>1. \E record, ok : Record("failures", record, ok)
    BY <1>35 DEF NoteFailed
  <2>. QED  BY <1>b, <2>1 DEF Lists
<1>36. ASSUME Level PROVE NoPathTwice'
  BY <1>a, <1>36 DEF Level, SectionStep
<1>37. ASSUME Arrive PROVE NoPathTwice'
  BY <1>a, <1>37 DEF Arrive, Still
<1>38. ASSUME Deliver PROVE NoPathTwice'
  BY <1>a, <1>38 DEF Deliver, Still
<1>39. ASSUME HookFires PROVE NoPathTwice'
  BY <1>a, <1>39 DEF HookFires, Still
<1>40. ASSUME Exited PROVE NoPathTwice'
  BY <1>a, <1>40 DEF Exited, vars
<1>. QED
  BY <1>1, <1>2, <1>3, <1>4, <1>5, <1>6, <1>7, <1>8, <1>9, <1>10, <1>11, <1>12, <1>13,
     <1>14, <1>15, <1>16, <1>17, <1>18, <1>19, <1>20, <1>21, <1>22, <1>23, <1>24, <1>25, <1>26,
     <1>27, <1>28, <1>29, <1>30, <1>31, <1>32, <1>33, <1>34, <1>35, <1>36, <1>37, <1>38, <1>39,
     <1>40
  DEF Next, Process, RunStep, SectionSteps, NoteSteps

\* A sum of counters that does not fall stays above nought.
LEMMA StaysAbove ==
  ASSUME NEW a \in Nat, NEW b \in Nat, NEW c \in Nat, NEW d \in Nat,
         c + d >= a + b, a + b > 0
  PROVE  c + d > 0
OBVIOUS

\* No note is begun once one was finished after a signal.
LEMMA LateStep ==
  ASSUME IInv, Next
  PROVE  LateSound'
<1> DEFINE Begun == (WithNote \ {"recordNote"}) \cup {"claimNote"}
<1>0. LateSound /\ arrived \in Nat /\ signals \in Nat
  BY DEF IInv, CursorSound
<1>a. ASSUME UNCHANGED <<arrived, signals, late>>, pc' \in Begun => pc \in Begun
      PROVE  LateSound'
  BY <1>0, <1>a DEF LateSound
<1>b. ASSUME UNCHANGED late, arrived' + signals' >= arrived + signals,
             arrived' \in Nat, signals' \in Nat, pc' \in Begun => pc \in Begun
      PROVE  LateSound'
  <2>0. arrived + signals > 0 => arrived' + signals' > 0
    <3>1. arrived \in Nat /\ signals \in Nat
      BY <1>0
    <3>2. arrived' \in Nat /\ signals' \in Nat
      BY <1>b
    <3>3. arrived' + signals' >= arrived + signals
      BY <1>b
    <3>. QED  BY <3>1, <3>2, <3>3, StaysAbove
  <2>1. late = 1 => arrived + signals > 0
    BY <1>0 DEF LateSound
  <2>2. late' = late
    BY <1>b
  <2>3. late \in {0, 1} /\ (late = 1 => pc \notin Begun)
    BY <1>0 DEF LateSound
  <2>4. late' = 1 => pc' \notin Begun
    BY <2>2, <2>3, <1>b
  <2>5. late' = 1 => arrived' + signals' > 0
    BY <2>0, <2>1, <2>2
  <2>. QED  BY <2>2, <2>3, <2>4, <2>5 DEF LateSound
<1> USE DEF Goto, Crash, settings, files, workspace, closers, cursor, unwinding, outcome,
            events, names, WithNote, Written, WithAsset
<1>1. ASSUME Launch PROVE LateSound'
  BY <1>a, <1>1 DEF Launch
<1>2. ASSUME NextInput PROVE LateSound'
  BY <1>a, <1>2 DEF NextInput
<1>3. ASSUME NoMoreInputs PROVE LateSound'
  BY <1>a, <1>3 DEF NoMoreInputs
<1>4. ASSUME RefuseInput PROVE LateSound'
  BY <1>a, <1>4 DEF RefuseInput
<1>5. ASSUME OpenInput PROVE LateSound'
  BY <1>a, <1>5 DEF OpenInput
<1>6. ASSUME RejectContainer PROVE LateSound'
  BY <1>a, <1>6 DEF RejectContainer
<1>7. ASSUME InputFailed PROVE LateSound'
  BY <1>a, <1>7 DEF InputFailed
<1>8. ASSUME CloseInput PROVE LateSound'
  BY <1>a, <1>8 DEF CloseInput
<1>9. ASSUME CloseGroup PROVE LateSound'
  BY <1>a, <1>9 DEF CloseGroup
<1>10. ASSUME Report PROVE LateSound'
  BY <1>a, <1>10 DEF Report
<1>11. ASSUME Closing PROVE LateSound'
  BY <1>a, <1>11 DEF Closing
<1>12. ASSUME OpenIndex PROVE LateSound'
  BY <1>a, <1>12 DEF OpenIndex
<1>13. ASSUME OpenStore PROVE LateSound'
  BY <1>a, <1>13 DEF OpenStore
<1>14. ASSUME ClaimSection PROVE LateSound'
  BY <1>a, <1>14 DEF ClaimSection
<1>15. ASSUME CountNext PROVE LateSound'
  BY <1>a, <1>15 DEF CountNext, SectionStep
<1>16. ASSUME CountPage PROVE LateSound'
  BY <1>a, <1>16 DEF CountPage
<1>17. ASSUME StartPages PROVE LateSound'
  BY <1>a, <1>17 DEF StartPages, SectionStep
<1>18. ASSUME NextPage PROVE LateSound'
  BY <1>a, <1>18 DEF NextPage, SectionStep
<1>19. ASSUME NoMorePages PROVE LateSound'
  BY <1>a, <1>19 DEF NoMorePages
<1>20. ASSUME SectionFailed PROVE LateSound'
  BY <1>a, <1>20 DEF SectionFailed
<1>21. ASSUME CloseSection PROVE LateSound'
  BY <1>a, <1>21 DEF CloseSection
<1>22. ASSUME StartPage PROVE LateSound'
  <2>1. UNCHANGED <<arrived, signals, late>> /\ arrived = 0 /\ pc' \in {"closeSection", "pages", "claimNote"}
    BY <1>22 DEF StartPage, PageFrame
  <2>2. CASE pc' # "claimNote"
    BY <1>a, <2>1, <2>2
  <2>3. CASE pc' = "claimNote"
    <3>1. ~(signals > 0)
      BY <1>22, <2>3 DEF StartPage, Cancelled
    <3>2. arrived + signals = 0
      BY <1>0, <2>1, <3>1
    <3>. QED  BY <1>0, <2>1, <3>2 DEF LateSound
  <2>. QED  BY <2>2, <2>3
<1>23. ASSUME ClaimNote PROVE LateSound'
  BY <1>a, <1>23 DEF ClaimNote
<1>24. ASSUME OpenNote PROVE LateSound'
  BY <1>a, <1>24 DEF OpenNote
<1>25. ASSUME Render PROVE LateSound'
  BY <1>a, <1>25 DEF Render, WritingFrame, Writing, ThrowCancelled
<1>26. ASSUME ClaimAsset PROVE LateSound'
  BY <1>a, <1>26 DEF ClaimAsset, WritingFrame, Writing, ThrowCancelled
<1>27. ASSUME OpenAsset PROVE LateSound'
  BY <1>a, <1>27 DEF OpenAsset, WritingFrame, Writing, ThrowCancelled
<1>28. ASSUME CopyAsset PROVE LateSound'
  BY <1>a, <1>28 DEF CopyAsset, WritingFrame, Writing, ThrowCancelled
<1>29. ASSUME RecordAsset PROVE LateSound'
  BY <1>a, <1>29 DEF RecordAsset, WritingFrame, Writing, ThrowCancelled
<1>30. ASSUME RememberAsset PROVE LateSound'
  BY <1>a, <1>30 DEF RememberAsset, WritingFrame, Writing, ThrowCancelled
<1>31. ASSUME RenderRest PROVE LateSound'
  BY <1>a, <1>31 DEF RenderRest, WritingFrame, Writing, ThrowCancelled
<1>32. ASSUME FinishNote PROVE LateSound'
  <2>1. pc = "finishNote" /\ UNCHANGED <<arrived, signals>>
    BY <1>32 DEF FinishNote
  <2>2. late = 0
    BY <1>0, <2>1 DEF LateSound
  <2>3. \/ late' = 0
        \/ late' = 1 /\ arrived + signals > 0 /\ pc' = "recordNote"
    BY <1>32, <2>2 DEF FinishNote, Writing
  <2>. QED  BY <2>1, <2>3 DEF LateSound
<1>33. ASSUME AbortNote PROVE LateSound'
  BY <1>a, <1>33 DEF AbortNote, WritingFrame
<1>34. ASSUME RecordNote PROVE LateSound'
  BY <1>a, <1>34 DEF RecordNote
<1>35. ASSUME NoteFailed PROVE LateSound'
  BY <1>a, <1>35 DEF NoteFailed
<1>36. ASSUME Level PROVE LateSound'
  BY <1>a, <1>36 DEF Level, SectionStep
<1>37. ASSUME Arrive PROVE LateSound'
  <2>1. arrived' = arrived + 1 /\ signals' = signals /\ late' = late /\ pc' = pc
    BY <1>37 DEF Arrive, Still
  <2>2. arrived' + signals' >= arrived + signals /\ arrived' \in Nat /\ signals' \in Nat
    BY <1>0, <2>1
  <2>. QED  BY <1>b, <2>1, <2>2
<1>38. ASSUME Deliver PROVE LateSound'
  <2>1. /\ arrived' = arrived - 1 /\ signals' = signals + 1 /\ arrived > 0
        /\ late' = late /\ pc' \in {pc, "closing"}
    BY <1>38 DEF Deliver, Still
  <2>2. arrived' + signals' >= arrived + signals /\ arrived' \in Nat /\ signals' \in Nat
    BY <1>0, <2>1
  <2>. QED  BY <1>b, <2>1, <2>2
<1>39. ASSUME HookFires PROVE LateSound'
  BY <1>a, <1>39 DEF HookFires, Still
<1>40. ASSUME Exited PROVE LateSound'
  BY <1>a, <1>40 DEF Exited, vars
<1>. QED
  BY <1>1, <1>2, <1>3, <1>4, <1>5, <1>6, <1>7, <1>8, <1>9, <1>10, <1>11, <1>12, <1>13,
     <1>14, <1>15, <1>16, <1>17, <1>18, <1>19, <1>20, <1>21, <1>22, <1>23, <1>24, <1>25, <1>26,
     <1>27, <1>28, <1>29, <1>30, <1>31, <1>32, <1>33, <1>34, <1>35, <1>36, <1>37, <1>38, <1>39,
     <1>40
  DEF Next, Process, RunStep, SectionSteps, NoteSteps

-----------------------------------------------------------------------------
\* The invariant holds, and what follows from it

\* A run that was not yet started: nothing open, nothing reported, no file of its own.
LEMMA InitEstablishes == Init => IInv
<1> SUFFICES ASSUME Init PROVE IInv
  OBVIOUS
<1> USE DEF Init, SinkInit, WorkspaceInit, ClosersInit
<1>1. Len(batch) \in Nat /\ \A n \in 1..Len(batch) : Len(batch[n].pages) \in Nat
  BY BatchesAssumption
<1>2. stack = <<>> /\ held = {} /\ Len(stack) = 0 /\ stack \in Seq(Resources) /\ held = Range(stack)
  BY DEF Range
<1>3. StackSound
  BY <1>2 DEF StackSound, Ordered
<1>4. report = [list \in Lists |-> <<>>] /\ \A list \in Lists : report[list] \in Seq({})
  BY EmptySeq
<1>5. \A list \in Lists : Records(list) = {}
  BY <1>4 DEF Records, Range
<1>6. "notes" \in Lists /\ "attachments" \in Lists
  BY DEF Lists
<1>7. ReportSound
  BY <1>4 DEF ReportSound
<1>8. NoPathTwice
  BY <1>4, <1>6 DEF NoPathTwice
<1>9. Reported = {}
  BY <1>5, <1>6 DEF Reported
<1>10. RecordedOnDisk
  BY <1>5, <1>6 DEF RecordedOnDisk
<1>11. NamesSound
  BY <1>9, FS_EmptySet DEF NamesSound, WithNote, Written, WithAsset
<1>12. WritersSound /\ LateSound
  BY DEF WritersSound, LateSound, WithNote, Written, WithAsset
<1>13. CursorSound
  BY <1>1 DEF CursorSound, OnPage, WithNote, Written, WithAsset
<1>14. HeldSound
  BY DEF HeldSound, Converting, OnPage, WithNote, Written, WithAsset
<1>15. TypeOK
  <2>1. pc \in Labels /\ input \in 0..Len(batch)
    BY <1>1 DEF Labels
  <2>2. arrived + signals \in 0..MaxSignals /\ faults \in 0..MaxFaults
    BY BoundsAssumption
  <2>3. {rethrow, hook, stopped} \subseteq BOOLEAN
    OBVIOUS
  <2>. QED  BY <1>2, <2>1, <2>2, <2>3 DEF TypeOK
<1>. QED  BY <1>3, <1>7, <1>8, <1>10, <1>11, <1>12, <1>13, <1>14, <1>15 DEF IInv

\* Every step of the run, of a signal or of the hook keeps the invariant.
LEMMA StepPreserves == IInv /\ [Next]_vars => IInv'
<1> SUFFICES ASSUME IInv, [Next]_vars PROVE IInv'
  OBVIOUS
<1>1. CASE Next
  <2>1. StackSound' /\ HeldSound'
    BY <1>1, HeldStep
  <2>2. ControlOK' /\ CountsOK' /\ FlagsOK'
    BY <1>1, ControlStep, CountsStep, FlagsStep
  <2>3. CursorOK' /\ FilesOK'
    BY <1>1, CursorStep, FilesStep
  <2>4. held' = Range(stack)' /\ held' \subseteq Resources
    BY <2>1 DEF StackSound, Ordered, Range
  <2>5. TypeOK'
    BY <2>2, <2>3, <2>4 DEF TypeOK, ControlOK, CountsOK, FlagsOK, CursorOK, FilesOK, Resources
  <2>6. CursorSound'
    BY <2>2, <2>3 DEF CursorSound, CursorOK, CountsOK
  <2>7. NamesSound' /\ WritersSound' /\ ReportSound' /\ LateSound'
    BY <1>1, NamesStep, WritersStep, ReportStep, LateStep
  <2>8. RecordedOnDisk' /\ NoPathTwice'
    BY <1>1, DiskStep, PathsStep
  <2>. QED  BY <2>1, <2>5, <2>6, <2>7, <2>8 DEF IInv
<1>2. CASE UNCHANGED vars
  <2> USE <1>2 DEF vars, settings, files, workspace, closers, cursor, unwinding, outcome,
                   events, names, IInv, Pages, Input
  <2>1. TypeOK'
    BY DEF TypeOK
  <2>2. CursorSound'
    BY DEF CursorSound
  <2>3. StackSound' /\ HeldSound'
    BY DEF StackSound, HeldSound
  <2>4. Reported' = Reported
    BY DEF Reported, Records
  <2>5. NamesSound' /\ WritersSound' /\ ReportSound' /\ LateSound'
    BY <2>4 DEF NamesSound, WritersSound, ReportSound, LateSound
  <2>6. RecordedOnDisk'
    BY DEF RecordedOnDisk, Records
  <2>7. NoPathTwice'
    BY DEF NoPathTwice
  <2>. QED  BY <2>1, <2>2, <2>3, <2>5, <2>6, <2>7
<1>. QED  BY <1>1, <1>2

\* The invariant holds in every state a run reaches, whatever fails and whenever
\* it is signalled.
THEOREM Invariance == Spec => []IInv
BY InitEstablishes, StepPreserves, PTL DEF Spec

\* Every variable keeps its type: the walk stays on the batch, every file is in
\* one state, and what is open is what is registered.
THEOREM TypeCorrect == Spec => []TypeOK
<1>1. IInv => TypeOK
  BY DEF IInv
<1>. QED  BY <1>1, Invariance, PTL

\* Whatever fails and whenever the run is told to stop, what the report lists as
\* written is a complete file.
THEOREM ReportedIsComplete == Spec => []RecordedOnDisk
<1>1. IInv => RecordedOnDisk
  BY DEF IInv
<1>. QED  BY <1>1, Invariance, PTL

\* No path is reported twice, by any input, page or attachment of the batch.
THEOREM PathsAreDistinct == Spec => []NoPathTwice
<1>1. IInv => NoPathTwice
  BY DEF IInv
<1>. QED  BY <1>1, Invariance, PTL

\* A run that ends has nothing open and no half-written file, on every way out.
THEOREM EndsClean == Spec => []NothingLeft
<1>1. IInv => NothingLeft
  BY DEF IInv, NothingLeft, HeldSound, TypeOK
<1>. QED  BY <1>1, Invariance, PTL

\* A store is never open without its descriptor, nor anything without the
\* workspace, also while the way out closes one entry after another.
THEOREM DescriptorLast == Spec => []DescriptorOutlives
<1>1. IInv => DescriptorOutlives
  <2> SUFFICES ASSUME IInv PROVE DescriptorOutlives
    OBVIOUS
  <2>1. /\ stack \in Seq(Resources) /\ held = {stack[i] : i \in 1..Len(stack)}
        /\ \A i \in 1..Len(stack) :
             /\ stack[1] = "workspace"
             /\ stack[i] \in {"index", "store"} => \E j \in 1..i-1 : stack[j] = "descriptor"
    BY DEF IInv, StackSound, Ordered, Range
  <2>2. \A i \in 1..Len(stack) : 1..i-1 \subseteq 1..Len(stack) /\ 1 \in 1..Len(stack)
    BY <2>1
  <2>3. held \cap {"index", "store"} # {} => "descriptor" \in held
    BY <2>1, <2>2
  <2>4. held # {} => "workspace" \in held
    BY <2>1, <2>2
  <2>. QED  BY <2>3, <2>4 DEF DescriptorOutlives
<1>. QED  BY <1>1, Invariance, PTL

\* No step takes away a file the run finished, nor one it found and may not
\* overwrite.
THEOREM NothingFinishedIsLost == Spec => FinishedFilesStay
<1>1. IInv /\ [Next]_vars => [Kept]_vars
  BY KeptStep
<1>2. [Kept]_vars => [whole \subseteq whole' /\ (mode # "overwrite" => theirs \subseteq theirs')]_vars
  BY DEF Kept
<1>. QED  BY <1>1, <1>2, Invariance, PTL DEF Spec, FinishedFilesStay

\* At most one note is finished after the first signal arrives.
THEOREM AtMostOneMore == Spec => []OneNoteAfterInterrupt
<1>1. IInv => OneNoteAfterInterrupt
  BY DEF IInv, LateSound, OneNoteAfterInterrupt
<1>. QED  BY <1>1, Invariance, PTL
=============================================================================
