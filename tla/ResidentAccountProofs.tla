----------------------- MODULE ResidentAccountProofs ------------------------
(***************************************************************************)
(* For every budget planBudget accepts and any number of sections: the plan *)
(* divides the budget and nothing more, and a run under it stays within it. *)
(***************************************************************************)
EXTENDS ResidentAccount, TLAPS

\* Rounding down to a unit loses less than the unit.
LEMMA FloorTo ==
  /\ \A v \in Nat : floorTo(v, PAGE_BYTES) \in 0..v /\ v - floorTo(v, PAGE_BYTES) < PAGE_BYTES
  /\ \A v \in Nat : floorTo(v, 4096) \in 0..v /\ v - floorTo(v, 4096) < 4096
  BY SMT DEF floorTo, PAGE_BYTES

\* Whole quotients by the bytes all small buffers want.
LEMMA Quotient ==
  ASSUME NEW a \in Nat
  PROVE  /\ a \div 573440 \in Nat
         /\ 573440 * (a \div 573440) <= a
         /\ a < 573440 * (a \div 573440) + 573440
  BY SMT

\* What the scaled buffers add up to, at every scale a budget can ask for.
LEMMA ScaledBuffers ==
  ASSUME NEW m \in Nat, m >= 262144, m <= 573440,
         NEW q \in Nat, 573440 * q <= 64 * m, 64 * m < 573440 * q + 573440,
         NEW p \in Nat, 573440 * p <= 16 * m, 16 * m < 573440 * p + 573440
  PROVE  q >= 29 /\ p >= 7 /\ 8192 * q + 3072 * p <= m
  BY SMT

\* The small buffers keep their floors, and take no more than a quarter of the
\* budget and the record copies besides.
LEMMA SmallBuffers ==
  ASSUME NEW t \in Nat, t >= MINIMUM_BUDGET_BYTES
  PROVE  /\ fixedBytes(Buffers(t)) \in Nat
         /\ fixedBytes(Buffers(t)) = fixedBufferBytes(Buffers(t))
         /\ 4 * (fixedBytes(Buffers(t)) - 196608) <= t
<1> DEFINE m == Smaller(wanted, t \div 4)
           q == (64 * m) \div 573440
           p == (16 * m) \div 573440
<1>1. wanted = 573440
  BY SMT DEF wanted, SPILL_REGIONS, DEFAULT_SPILL_BUDGET, SPOOL_BUFFERS,
             DEFAULT_CHUNK_BYTES, DEFAULT_NOTE_BUFFER_BYTES
<1>2. m \in Nat /\ m >= 262144 /\ m <= 573440 /\ 4 * m <= t
  <2>1. t >= 1048576
    BY SMT DEF MINIMUM_BUDGET_BYTES
  <2>2. t \div 4 \in Nat /\ t \div 4 >= 262144 /\ 4 * (t \div 4) <= t
    BY SMT, <2>1
  <2>. QED  BY SMT, <1>1, <2>2 DEF Smaller
<1>3. /\ Scaled(DEFAULT_SPILL_BUDGET, 1024, t) = q * 1024
      /\ Scaled(DEFAULT_CHUNK_BYTES, 256, t) = p * 256
      /\ Scaled(DEFAULT_NOTE_BUFFER_BYTES, 512, t) = p * 512
  <2>1. /\ DEFAULT_SPILL_BUDGET \div 1024 = 64
        /\ DEFAULT_CHUNK_BYTES \div 256 = 16
        /\ DEFAULT_NOTE_BUFFER_BYTES \div 512 = 16
    BY SMT DEF DEFAULT_SPILL_BUDGET, DEFAULT_CHUNK_BYTES, DEFAULT_NOTE_BUFFER_BYTES
  <2>. QED  BY <1>1, <2>1 DEF Scaled
<1> HIDE DEF m
<1>4. /\ q \in Nat /\ p \in Nat
      /\ 573440 * q <= 64 * m /\ 64 * m < 573440 * q + 573440
      /\ 573440 * p <= 16 * m /\ 16 * m < 573440 * p + 573440
  <2>1. 64 * m \in Nat /\ 16 * m \in Nat
    BY SMT, <1>2
  <2>. QED  BY SMT, <2>1, Quotient
<1> HIDE DEF q, p
<1>5. q >= 29 /\ p >= 7 /\ 8192 * q + 3072 * p <= m
  BY SMT, <1>2, <1>4, ScaledBuffers
<1>6. Buffers(t) = [spillChars |-> q * 1024, chunkBytes |-> p * 256,
                    noteBufferBytes |-> p * 512, recordCopyBytes |-> 196608]
  <2>1. RECORD_COPY_PAGES * PAGE_BYTES = 196608
    BY SMT DEF RECORD_COPY_PAGES, PAGE_BYTES
  <2>2. /\ Larger(4096, q * 1024) = q * 1024
        /\ Larger(512, p * 256) = p * 256
        /\ Larger(1024, p * 512) = p * 512
    BY SMT, <1>4, <1>5 DEF Larger
  <2>. QED  BY SMT, <1>3, <2>1, <2>2 DEF Buffers
<1>7. /\ fixedBytes(Buffers(t)) = 8192 * q + 3072 * p + 196608
      /\ fixedBufferBytes(Buffers(t)) = 8192 * q + 3072 * p + 196608
  BY SMT, <1>4, <1>6 DEF fixedBytes, fixedBufferBytes, SPILL_REGIONS, SPOOL_BUFFERS
<1>. QED
  BY SMT, <1>2, <1>4, <1>5, <1>7

\* The components of a plan, one by one and together.
LEMMA Plan ==
  ASSUME NEW t \in Nat, t >= MINIMUM_BUDGET_BYTES
  PROVE  /\ cacheBytes(t) \in Nat /\ cacheBytes(t) >= PAGE_BYTES
         /\ PAGE_BYTES * (cacheBytes(t) \div PAGE_BYTES) = cacheBytes(t)
         /\ windowBytes(t) \in Nat /\ windowBytes(t) >= MINIMUM_WINDOW_BYTES
         /\ fixedBytes(Buffers(t)) \in Nat
         /\ valueReserve(t) \in Nat /\ valueReserve(t) >= 98304
         /\ cacheBytes(t) * 3 + windowBytes(t)
              + fixedBytes(Buffers(t)) + valueReserve(t) <= t
         /\ t - (cacheBytes(t) * 3 + windowBytes(t)
                   + fixedBytes(Buffers(t)) + valueReserve(t)) < 4096
<1> DEFINE f == fixedBytes(Buffers(t))
           r == valueReserve(t)
           large == Large(t)
           quarter == large \div 4
           c == floorTo(quarter, PAGE_BYTES)
<1>1. f \in Nat /\ 4 * (f - 196608) <= t
  BY SMT, SmallBuffers
<1>2. r \in Nat /\ (r = t \div 8)
  BY SMT DEF valueReserve, Larger, MINIMUM_VALUE_RESERVE_BYTES, MINIMUM_BUDGET_BYTES
<1>3. large = t - f - r
  BY SMT DEF Large
<1> HIDE DEF f, r, large
<1>4. large \in Nat /\ large >= 458752
  BY SMT, <1>1, <1>2, <1>3 DEF MINIMUM_BUDGET_BYTES
<1>5. quarter \in Nat /\ quarter >= 114688 /\ 4 * quarter <= large
  BY SMT, <1>4
<1> HIDE DEF quarter
<1>6. c \in 0..quarter /\ quarter - c < 65536 /\ c >= 65536
  <2>1. c \in 0..quarter /\ quarter - c < 65536
    BY SMT, <1>5, FloorTo DEF PAGE_BYTES
  <2>2. c >= 65536
    BY SMT, <1>5 DEF floorTo, PAGE_BYTES
  <2>. QED  BY <2>1, <2>2
<1> HIDE DEF c
<1>7. cacheBytes(t) = c
  BY DEF cacheBytes, LARGE_COMPONENTS, c, quarter, large
<1>8. large - c * 3 \in Nat /\ large - c * 3 >= 114688
  BY SMT, <1>4, <1>5, <1>6
<1>9. windowBytes(t) = floorTo(large - c * 3, 4096)
  BY SMT, <1>7 DEF windowBytes, large
<1>10. /\ windowBytes(t) \in 0..(large - c * 3)
       /\ (large - c * 3) - windowBytes(t) < 4096
  BY SMT, <1>8, <1>9, FloorTo
<1>11. windowBytes(t) >= MINIMUM_WINDOW_BYTES
  BY SMT, <1>8, <1>10 DEF MINIMUM_WINDOW_BYTES
<1>12. PAGE_BYTES * (c \div PAGE_BYTES) = c
  BY SMT, <1>5 DEF c, floorTo, PAGE_BYTES
<1>13. r >= 98304
  BY SMT, <1>2 DEF MINIMUM_BUDGET_BYTES
<1>14. cacheBytes(t) \in Nat /\ cacheBytes(t) >= PAGE_BYTES
  BY SMT, <1>5, <1>6, <1>7 DEF PAGE_BYTES
<1>15. /\ c * 3 + windowBytes(t) + f + r <= t
       /\ t - (c * 3 + windowBytes(t) + f + r) < 4096
  BY SMT, <1>1, <1>2, <1>3, <1>4, <1>6, <1>8, <1>10
<1>16. windowBytes(t) \in Nat
  BY SMT, <1>8, <1>10
<1>. QED
  BY <1>1, <1>2, <1>7, <1>11, <1>12, <1>13, <1>14, <1>15, <1>16 DEF f, r

\* planBudget (budget.ts): for every budget from the minimum up, the components
\* add up to the budget or less, less than one window rounding is left over, and
\* the second refusal cannot be reached.
THEOREM PlanAddsUp ==
  ASSUME NEW t \in Nat, t >= MINIMUM_BUDGET_BYTES
  PROVE  /\ Plannable(t)
         /\ accountedBytes(t) <= t
         /\ t - accountedBytes(t) < 4096
  BY SMT, Plan DEF Plannable, accountedBytes

\* limitsFor (limits.ts): the ceilings a reserve buys never need more than it.
THEOREM CeilingsPaidFor ==
  ASSUME NEW r \in Nat, r >= 64
  PROVE  /\ limitsFor(r).maxValueChars \in Nat
         /\ limitsFor(r).maxMathChars \in Nat
         /\ reserveFor(limitsFor(r).maxValueChars, limitsFor(r).maxMathChars) <= r
<1> DEFINE v == (3 * r) \div 40
           k == r \div 64
<1>1. v \in Nat /\ v >= 1 /\ 40 * v <= 3 * r
  BY SMT
<1>2. k \in Nat /\ k >= 1 /\ 64 * k <= r
  BY SMT
<1>3. limitsFor(r).maxValueChars = v /\ limitsFor(r).maxMathChars = k
  <2>1. 4 * 2 * VALUE_COPIES = 40 /\ 4 * 2 * MATH_COPIES = 64
    BY SMT DEF VALUE_COPIES, MATH_COPIES
  <2>2. Larger(1, v) = v /\ Larger(1, k) = k
    BY SMT, <1>1, <1>2 DEF Larger
  <2>. QED  BY <2>1, <2>2 DEF limitsFor
<1> HIDE DEF v, k
<1>4. reserveFor(v, k) = 10 * v + 16 * k
  BY SMT, <1>1, <1>2 DEF reserveFor, VALUE_COPIES, MATH_COPIES
<1>. QED
  BY SMT, <1>1, <1>2, <1>3, <1>4

-----------------------------------------------------------------------------
\* The plan of the budget this run was given.
LEMMA RunPlan ==
  ASSUME TypeOK
  PROVE  /\ total \in Nat
         /\ CachePages \in Nat /\ CachePages >= 1
         /\ PAGE_BYTES * CachePages = cacheBytes(total)
         /\ windowBytes(total) \in Nat
         /\ fixedBufferBytes(Buffers(total)) \in Nat
         /\ valueReserve(total) \in Nat /\ valueReserve(total) >= 64
         /\ limits.maxValueChars \in Nat /\ limits.maxMathChars \in Nat
         /\ cacheBytes(total) * 3 + windowBytes(total)
              + fixedBufferBytes(Buffers(total)) + valueReserve(total) <= total
<1>1. total \in Nat /\ total >= MINIMUM_BUDGET_BYTES
  BY BudgetsAssumption DEF TypeOK, Plannable
<1>2. /\ cacheBytes(total) \in Nat /\ cacheBytes(total) >= PAGE_BYTES
      /\ PAGE_BYTES * CachePages = cacheBytes(total)
      /\ windowBytes(total) \in Nat
      /\ fixedBytes(Buffers(total)) = fixedBufferBytes(Buffers(total))
      /\ fixedBytes(Buffers(total)) \in Nat
      /\ valueReserve(total) \in Nat /\ valueReserve(total) >= 98304
      /\ cacheBytes(total) * 3 + windowBytes(total)
           + fixedBytes(Buffers(total)) + valueReserve(total) <= total
  BY SMT, <1>1, Plan, SmallBuffers DEF CachePages
<1>3. CachePages \in Nat /\ CachePages >= 1
  BY SMT, <1>2 DEF CachePages, PAGE_BYTES
<1>4. valueReserve(total) >= 64
  BY SMT, <1>2
<1>5. limits.maxValueChars \in Nat /\ limits.maxMathChars \in Nat
  BY <1>2, <1>4, CeilingsPaidFor DEF limits
<1>. QED
  BY <1>1, <1>2, <1>3, <1>4, <1>5

\* Nothing longer than its ceiling is built.
Ceilings ==
  /\ joined <= limits.maxValueChars
  /\ built.value <= limits.maxValueChars
  /\ built.math <= limits.maxMathChars

\* The account reads the open section from its registration to its end, and
\* knows its window.
Registered ==
  /\ account.section <=> phase \in {"registered", "pages"}
  /\ account.section => account.windowBytes = windowBytes(total)

IInv == TypeOK /\ Ceilings /\ Registered

LEMMA InitEstablishes == Init => IInv
<1> SUFFICES ASSUME Init PROVE IInv
  OBVIOUS
<1>1. total \in Nat /\ total >= MINIMUM_BUDGET_BYTES
  BY BudgetsAssumption DEF Init, Plannable
<1>2. CachePages \in Nat /\ windowBytes(total) \in Nat
      /\ valueReserve(total) \in Nat /\ valueReserve(total) >= 98304
  BY SMT, <1>1, Plan DEF CachePages, PAGE_BYTES
<1>3. TypeOK
  <2>1. MaxSections \in Nat
    BY SizesAssumption
  <2>2. 0 \in 0..PAGE_BYTES /\ 0 \in 0..CachePages /\ 0 \in 0..windowBytes(total) /\ 0 \in 0..MaxSections
    BY SMT, <1>2, <2>1 DEF PAGE_BYTES
  <2>. QED
    BY <2>2 DEF Init, TypeOK, StoresOK, ValuesOK, AccountOK, Stores, Phases, Lengthy
<1>4. Ceilings
  <2>1. limits.maxValueChars \in Nat /\ limits.maxMathChars \in Nat
    BY RunPlan, <1>3
  <2>. QED  BY SMT, <2>1 DEF Init, Ceilings
<1>5. Registered
  BY DEF Init, Registered
<1>. QED  BY <1>3, <1>4, <1>5 DEF IInv

\* A step that leaves the budget alone leaves its plan alone.
LEMMA PlanStays ==
  ASSUME UNCHANGED total
  PROVE  /\ CachePages' = CachePages /\ windowBytes(total)' = windowBytes(total)
         /\ limits' = limits /\ valueReserve(total)' = valueReserve(total)
         /\ fixedBufferBytes(Buffers(total))' = fixedBufferBytes(Buffers(total))
  BY DEF CachePages, limits

\* What the account reads is a size, and a record is never larger than a page.
LEMMA Readings ==
  ASSUME TypeOK
  PROVE  /\ cacheHighWaterBytes \in Nat /\ highWaterBytes \in Nat
         /\ peakHighWaterBytes \in Nat /\ peakHighWaterBytes >= highWaterBytes
         /\ recordCopyBytes \in 0..PAGE_BYTES
<1>1. /\ high["workspace"] \in Nat /\ high["index"] \in Nat /\ high["conversion"] \in Nat
      /\ CachePages \in Nat
  BY SMT, RunPlan DEF TypeOK, StoresOK, Stores
<1>2. account.leftPages \in Nat /\ account.windowBytes \in Nat /\ account.peak \in Nat
      /\ account.leftCopy \in 0..PAGE_BYTES /\ account.recordCopy \in 0..PAGE_BYTES
  BY DEF TypeOK, AccountOK
<1>3. fixedBufferBytes(Buffers(total)) \in Nat /\ valueReserve(total) \in Nat
  BY RunPlan
<1>4. cacheHighWaterBytes \in Nat
  <2>1. (IF account.section THEN high["index"] + high["conversion"] ELSE 0) \in Nat
    BY <1>1
  <2> DEFINE n == high["workspace"] + account.leftPages
                    + IF account.section THEN high["index"] + high["conversion"] ELSE 0
  <2>2. n \in Nat
    BY <1>1, <1>2, <2>1
  <2>3. cacheHighWaterBytes = PAGE_BYTES * n
    BY DEF cacheHighWaterBytes
  <2> HIDE DEF n
  <2>. QED  BY SMT, <2>2, <2>3 DEF PAGE_BYTES
<1>5. highWaterBytes \in Nat
  BY SMT, <1>2, <1>3, <1>4 DEF highWaterBytes
<1>6. peakHighWaterBytes \in Nat /\ peakHighWaterBytes >= highWaterBytes
  BY SMT, <1>2, <1>5 DEF peakHighWaterBytes, Larger
<1>7. recordCopyBytes \in 0..PAGE_BYTES
  <2>1. /\ copies["workspace"] \in 0..PAGE_BYTES /\ copies["index"] \in 0..PAGE_BYTES
        /\ copies["conversion"] \in 0..PAGE_BYTES
    BY DEF TypeOK, StoresOK, Stores
  <2>2. ASSUME NEW x \in 0..PAGE_BYTES, NEW y \in 0..PAGE_BYTES
        PROVE  Larger(x, y) \in 0..PAGE_BYTES
    BY DEF Larger
  <2>3. 0 \in 0..PAGE_BYTES
    BY SMT DEF PAGE_BYTES
  <2> DEFINE ofSection == IF account.section
                          THEN Larger(copies["index"], copies["conversion"]) ELSE 0
             ofRun == IF account.workspaceCopies THEN copies["workspace"] ELSE 0
  <2>4. ofSection \in 0..PAGE_BYTES /\ ofRun \in 0..PAGE_BYTES
    BY <2>1, <2>2, <2>3
  <2>5. recordCopyBytes = Larger(account.recordCopy, Larger(account.leftCopy, Larger(ofSection, ofRun)))
    BY DEF recordCopyBytes
  <2> HIDE DEF ofSection, ofRun
  <2>. QED  BY <1>2, <2>2, <2>4, <2>5
<1>. QED  BY <1>4, <1>5, <1>6, <1>7

\* The same as a formula of the state, for use of the next one.
ReadingsOK ==
  /\ highWaterBytes \in Nat /\ account.peak \in Nat /\ peakHighWaterBytes \in Nat
  /\ peakHighWaterBytes >= highWaterBytes /\ peakHighWaterBytes >= account.peak

LEMMA ReadingsOfState == TypeOK => ReadingsOK
<1> SUFFICES ASSUME TypeOK PROVE ReadingsOK
  OBVIOUS
<1>1. account.peak \in Nat
  BY DEF TypeOK, AccountOK
<1>2. highWaterBytes \in Nat /\ peakHighWaterBytes \in Nat /\ peakHighWaterBytes >= highWaterBytes
  BY Readings
<1>3. peakHighWaterBytes >= account.peak
  BY SMT, <1>1, <1>2 DEF peakHighWaterBytes, Larger
<1>. QED  BY <1>1, <1>2, <1>3 DEF ReadingsOK

\* Closing a section's stores leaves the workspace's alone.
LEMMA ClosedStores ==
  ASSUME TypeOK, CloseStores, UNCHANGED <<total, sections, arriving>>
  PROVE  StoresOK'
<1>1. /\ CachePages \in Nat /\ windowBytes(total) \in Nat
      /\ CachePages' = CachePages /\ windowBytes(total)' = windowBytes(total)
  BY RunPlan, PlanStays
<1>2. /\ pages' \in [Stores -> 0..CachePages]
      /\ pages'["index"] = 0 /\ pages'["conversion"] = 0
      /\ high' \in [Stores -> 0..CachePages]
      /\ \A s \in Stores : pages'[s] <= high'[s]
  BY SMT, <1>1 DEF TypeOK, StoresOK, Stores, CloseStores
<1>3. copies' \in [Stores -> 0..PAGE_BYTES]
  <2>1. 0 \in 0..PAGE_BYTES
    BY SMT DEF PAGE_BYTES
  <2>. QED  BY <2>1 DEF TypeOK, StoresOK, Stores, CloseStores
<1>4. \A s \in Stores : ~Open(s)' => pages'[s] = 0
  BY <1>2 DEF Stores, Open
<1>5. buffer' \in 0..windowBytes(total) /\ phase' \in Phases
      /\ arriving' \in 0..windowBytes(total)
  BY SMT, <1>1 DEF CloseStores, Phases, TypeOK, StoresOK
<1>. QED
  BY <1>1, <1>2, <1>3, <1>4, <1>5 DEF TypeOK, StoresOK

LEMMA NextPreserves == IInv /\ [Next]_vars => IInv'
<1> SUFFICES ASSUME IInv, [Next]_vars PROVE IInv'
  OBVIOUS
<1> USE DEF IInv
<1>p. /\ total \in Nat
      /\ CachePages \in Nat /\ CachePages >= 1
      /\ windowBytes(total) \in Nat
      /\ valueReserve(total) \in Nat
      /\ limits.maxValueChars \in Nat /\ limits.maxMathChars \in Nat
      /\ PAGE_BYTES \in Nat
  BY SMT, RunPlan DEF PAGE_BYTES
<1>a. Lefts \subseteq Nat /\ Lengths \subseteq 0..PAGE_BYTES /\ Chars \subseteq Nat /\ MathChars \subseteq Nat
      /\ MaxSections \in Nat
  BY SizesAssumption
<1>t. UNCHANGED total
  BY DEF Next, vars, OpenIndex, OpenFailsUnregistered, OpenConversion, OpenFails,
         SectionOpens, CloseSection, ValueDone, LoadPage, LoadFails, Get, Refill,
         Refilled, ShortRead, JoinValue, MathRun
<1>s. /\ CachePages' = CachePages /\ windowBytes(total)' = windowBytes(total)
      /\ limits' = limits /\ valueReserve(total)' = valueReserve(total)
      /\ fixedBufferBytes(Buffers(total))' = fixedBufferBytes(Buffers(total))
  BY <1>t, PlanStays
<1>1. CASE OpenIndex
  <2>1. StoresOK'
    BY SMT, <1>1, <1>a, <1>p, <1>s DEF OpenIndex, stores, values, TypeOK, StoresOK, Stores, Phases, Open
  <2>2. ValuesOK'
    BY SMT, <1>1, <1>a, <1>p DEF OpenIndex, stores, values, TypeOK, ValuesOK, Lengthy
  <2>3. AccountOK'
    BY SMT, <1>1, <1>p, <1>s DEF OpenIndex, stores, values, TypeOK, AccountOK
  <2>4. Ceilings'
    BY SMT, <1>1, <1>a, <1>p, <1>s DEF OpenIndex, stores, values, TypeOK, ValuesOK, Ceilings, Lengthy
  <2>5. Registered'
    BY SMT, <1>1, <1>s DEF OpenIndex, stores, values, TypeOK, AccountOK, Registered
  <2>. QED  BY <1>t, <2>1, <2>2, <2>3, <2>4, <2>5 DEF TypeOK
<1>2. CASE OpenFailsUnregistered
  <2>1. StoresOK'
    BY <1>2, ClosedStores DEF OpenFailsUnregistered
  <2>2. ValuesOK'
    BY SMT, <1>2, <1>a, <1>p DEF OpenFailsUnregistered, CloseStores, stores, values, TypeOK, ValuesOK, Lengthy
  <2>3. AccountOK'
    BY SMT, <1>2, <1>p, <1>s DEF OpenFailsUnregistered, CloseStores, stores, values, TypeOK, AccountOK
  <2>4. Ceilings'
    BY SMT, <1>2, <1>a, <1>p, <1>s DEF OpenFailsUnregistered, CloseStores, stores, values, TypeOK, ValuesOK, Ceilings, Lengthy
  <2>5. Registered'
    BY SMT, <1>2, <1>s DEF OpenFailsUnregistered, CloseStores, stores, values, TypeOK, AccountOK, Registered
  <2>. QED  BY <1>t, <2>1, <2>2, <2>3, <2>4, <2>5 DEF TypeOK
<1>3. CASE OpenConversion
  <2>1. StoresOK'
    BY SMT, <1>3, <1>a, <1>p, <1>s DEF OpenConversion, AddSection, stores, values, TypeOK, StoresOK, Stores, Phases, Open
  <2>2. ValuesOK'
    BY SMT, <1>3, <1>a, <1>p DEF OpenConversion, AddSection, stores, values, TypeOK, ValuesOK, Lengthy
  <2>3. AccountOK'
    BY <1>3, <1>p DEF OpenConversion, AddSection, TypeOK, AccountOK
  <2>4. Ceilings'
    BY SMT, <1>3, <1>a, <1>p, <1>s DEF OpenConversion, AddSection, stores, values, TypeOK, ValuesOK, Ceilings, Lengthy
  <2>5. Registered'
    BY SMT, <1>3, <1>s DEF OpenConversion, AddSection, stores, values, TypeOK, AccountOK, Registered
  <2>. QED  BY <1>t, <2>1, <2>2, <2>3, <2>4, <2>5 DEF TypeOK
<1>4. CASE OpenFails
  <2>1. StoresOK'
    BY <1>4, ClosedStores DEF OpenFails
  <2>2. ValuesOK'
    BY SMT, <1>4, <1>a, <1>p DEF OpenFails, CloseStores, Strand, Larger, stores, values, TypeOK, ValuesOK, Lengthy
  <2>3. AccountOK'
    <3>1. /\ high["index"] \in Nat /\ high["conversion"] \in Nat
          /\ copies["index"] \in 0..PAGE_BYTES /\ copies["conversion"] \in 0..PAGE_BYTES
      BY SMT, <1>p DEF TypeOK, StoresOK, Stores
    <3>2. /\ account.leftPages \in Nat /\ account.leftCopy \in 0..PAGE_BYTES
      BY DEF TypeOK, AccountOK
    <3>3. /\ account.leftPages + high["index"] + high["conversion"] \in Nat
          /\ Larger(account.leftCopy, Larger(copies["index"], copies["conversion"]))
               \in 0..PAGE_BYTES
      BY SMT, <1>p, <3>1, <3>2 DEF Larger
    <3>. QED  BY <1>4, <3>3 DEF OpenFails, Strand, TypeOK, AccountOK
  <2>4. Ceilings'
    BY SMT, <1>4, <1>a, <1>p, <1>s DEF OpenFails, CloseStores, Strand, Larger, stores, values, TypeOK, ValuesOK, Ceilings, Lengthy
  <2>5. Registered'
    BY SMT, <1>4, <1>s DEF OpenFails, CloseStores, Strand, Larger, stores, values, TypeOK, AccountOK, Registered
  <2>. QED  BY <1>t, <2>1, <2>2, <2>3, <2>4, <2>5 DEF TypeOK
<1>5. CASE SectionOpens
  <2>1. StoresOK'
    BY SMT, <1>5, <1>a, <1>p, <1>s DEF SectionOpens, stores, values, TypeOK, StoresOK, Stores, Phases, Open
  <2>2. ValuesOK'
    BY SMT, <1>5, <1>a, <1>p DEF SectionOpens, stores, values, TypeOK, ValuesOK, Lengthy
  <2>3. AccountOK'
    BY SMT, <1>5, <1>p, <1>s DEF SectionOpens, stores, values, TypeOK, AccountOK
  <2>4. Ceilings'
    BY SMT, <1>5, <1>a, <1>p, <1>s DEF SectionOpens, stores, values, TypeOK, ValuesOK, Ceilings, Lengthy
  <2>5. Registered'
    BY SMT, <1>5, <1>s DEF SectionOpens, stores, values, TypeOK, AccountOK, Registered
  <2>. QED  BY <1>t, <2>1, <2>2, <2>3, <2>4, <2>5 DEF TypeOK
<1>6. CASE CloseSection
  <2>1. StoresOK'
    BY <1>6, ClosedStores DEF CloseSection
  <2>2. ValuesOK'
    BY SMT, <1>6, <1>a, <1>p DEF CloseSection, CloseStores, Forget, stores, values, TypeOK, ValuesOK, Lengthy
  <2>3. AccountOK'
    <3>1. peakHighWaterBytes \in Nat /\ recordCopyBytes \in 0..PAGE_BYTES
      BY Readings
    <3>2. 0 \in 0..PAGE_BYTES
      BY SMT, <1>p
    <3>. QED  BY <1>6, <3>1, <3>2 DEF CloseSection, Forget, TypeOK, AccountOK
  <2>4. Ceilings'
    BY SMT, <1>6, <1>a, <1>p, <1>s DEF CloseSection, CloseStores, Forget, stores, values, TypeOK, ValuesOK, Ceilings, Lengthy
  <2>5. Registered'
    BY SMT, <1>6, <1>s DEF CloseSection, CloseStores, Forget, stores, values, TypeOK, AccountOK, Registered
  <2>. QED  BY <1>t, <2>1, <2>2, <2>3, <2>4, <2>5 DEF TypeOK
<1>7. CASE ValueDone
  <2>1. StoresOK'
    BY SMT, <1>7, <1>a, <1>p, <1>s DEF ValueDone, stores, values, TypeOK, StoresOK, Stores, Phases, Open
  <2>2. ValuesOK'
    BY SMT, <1>7, <1>a, <1>p DEF ValueDone, stores, values, TypeOK, ValuesOK, Lengthy
  <2>3. AccountOK'
    BY SMT, <1>7, <1>p, <1>s DEF ValueDone, stores, values, TypeOK, AccountOK
  <2>4. Ceilings'
    BY SMT, <1>7, <1>a, <1>p, <1>s DEF ValueDone, stores, values, TypeOK, ValuesOK, Ceilings, Lengthy
  <2>5. Registered'
    BY SMT, <1>7, <1>s DEF ValueDone, stores, values, TypeOK, AccountOK, Registered
  <2>. QED  BY <1>t, <2>1, <2>2, <2>3, <2>4, <2>5 DEF TypeOK
<1>8. ASSUME NEW store \in Stores, LoadPage(store) PROVE IInv'
  <2>1. StoresOK'
    <3>1. pages[store] \in 0..CachePages /\ high[store] \in 0..CachePages
          /\ pages[store] <= high[store]
      BY DEF TypeOK, StoresOK
    <3>2. /\ MakeRoom(store) + 1 \in 0..CachePages
          /\ Larger(high[store], MakeRoom(store) + 1) \in 0..CachePages
          /\ MakeRoom(store) + 1 <= Larger(high[store], MakeRoom(store) + 1)
      BY SMT, <1>p, <3>1 DEF MakeRoom, Smaller, Larger
    <3>3. /\ pages' \in [Stores -> 0..CachePages] /\ high' \in [Stores -> 0..CachePages]
          /\ \A s \in Stores : pages'[s] <= high'[s]
      BY <1>8, <3>1, <3>2 DEF LoadPage, TypeOK, StoresOK
    <3>4. \A s \in Stores : ~Open(s)' => pages'[s] = 0
      BY <1>8 DEF LoadPage, Open, TypeOK, StoresOK
    <3>. QED  BY <1>8, <1>s, <3>3, <3>4 DEF LoadPage, TypeOK, StoresOK
  <2>2. ValuesOK'
    BY <1>8 DEF LoadPage, values, TypeOK, ValuesOK
  <2>3. AccountOK'
    BY <1>8 DEF LoadPage, TypeOK, AccountOK
  <2>4. Ceilings'
    BY <1>8, <1>s DEF LoadPage, values, Ceilings
  <2>5. Registered'
    BY <1>8, <1>s DEF LoadPage, Registered
  <2>. QED  BY <1>t, <2>1, <2>2, <2>3, <2>4, <2>5 DEF TypeOK
<1>15. ASSUME NEW store \in Stores, LoadFails(store) PROVE IInv'
  <2>1. StoresOK'
    <3>1. pages[store] \in 0..CachePages /\ high[store] \in 0..CachePages
          /\ pages[store] <= high[store]
      BY DEF TypeOK, StoresOK
    <3>2. MakeRoom(store) \in 0..CachePages /\ MakeRoom(store) <= high[store]
      BY SMT, <1>p, <3>1 DEF MakeRoom, Smaller, Larger
    <3>3. /\ pages' \in [Stores -> 0..CachePages] /\ high' \in [Stores -> 0..CachePages]
          /\ \A s \in Stores : pages'[s] <= high'[s]
      BY <1>15, <3>1, <3>2 DEF LoadFails, TypeOK, StoresOK
    <3>4. \A s \in Stores : ~Open(s)' => pages'[s] = 0
      BY <1>15 DEF LoadFails, Open, TypeOK, StoresOK
    <3>. QED  BY <1>15, <1>s, <3>3, <3>4 DEF LoadFails, TypeOK, StoresOK
  <2>2. ValuesOK'
    BY <1>15 DEF LoadFails, values, TypeOK, ValuesOK
  <2>3. AccountOK'
    BY <1>15 DEF LoadFails, TypeOK, AccountOK
  <2>4. Ceilings'
    BY <1>15, <1>s DEF LoadFails, values, Ceilings
  <2>5. Registered'
    BY <1>15, <1>s DEF LoadFails, Registered
  <2>. QED  BY <1>t, <2>1, <2>2, <2>3, <2>4, <2>5 DEF TypeOK
<1>9. ASSUME NEW store \in Stores, NEW length \in Lengths, Get(store, length) PROVE IInv'
  <2>1. StoresOK'
    BY SMT, <1>9, <1>a, <1>p, <1>s DEF Get, Larger, stores, values, TypeOK, StoresOK, Stores, Phases, Open
  <2>2. ValuesOK'
    BY SMT, <1>9, <1>a, <1>p DEF Get, Larger, stores, values, TypeOK, ValuesOK, Lengthy
  <2>3. AccountOK'
    BY SMT, <1>9, <1>p, <1>s DEF Get, Larger, stores, values, TypeOK, AccountOK
  <2>4. Ceilings'
    BY SMT, <1>9, <1>a, <1>p, <1>s DEF Get, Larger, stores, values, TypeOK, ValuesOK, Ceilings, Lengthy
  <2>5. Registered'
    BY SMT, <1>9, <1>s DEF Get, Larger, stores, values, TypeOK, AccountOK, Registered
  <2>. QED  BY <1>t, <2>1, <2>2, <2>3, <2>4, <2>5 DEF TypeOK
<1>10. ASSUME NEW left \in Lefts, Refill(left) PROVE IInv'
  <2>1. StoresOK'
    BY SMT, <1>10, <1>a, <1>p, <1>s DEF Refill, Span, Smaller, stores, values, TypeOK, StoresOK, Stores, Phases, Open
  <2>2. ValuesOK'
    BY SMT, <1>10, <1>a, <1>p DEF Refill, Span, Smaller, stores, values, TypeOK, ValuesOK, Lengthy
  <2>3. AccountOK'
    BY SMT, <1>10, <1>p, <1>s DEF Refill, Span, Smaller, stores, values, TypeOK, AccountOK
  <2>4. Ceilings'
    BY SMT, <1>10, <1>a, <1>p, <1>s DEF Refill, Span, Smaller, stores, values, TypeOK, ValuesOK, Ceilings, Lengthy
  <2>5. Registered'
    BY SMT, <1>10, <1>s DEF Refill, Span, Smaller, stores, values, TypeOK, AccountOK, Registered
  <2>. QED  BY <1>t, <2>1, <2>2, <2>3, <2>4, <2>5 DEF TypeOK
<1>11. ASSUME NEW length \in Chars, JoinValue(length) PROVE IInv'
  <2>1. StoresOK'
    BY SMT, <1>11, <1>a, <1>p, <1>s DEF JoinValue, JoinedLength, Larger, stores, values, TypeOK, StoresOK, Stores, Phases, Open
  <2>2. ValuesOK'
    BY SMT, <1>11, <1>a, <1>p DEF JoinValue, JoinedLength, Larger, stores, values, TypeOK, ValuesOK, Lengthy
  <2>3. AccountOK'
    BY SMT, <1>11, <1>p, <1>s DEF JoinValue, JoinedLength, Larger, stores, values, TypeOK, AccountOK
  <2>4. Ceilings'
    BY SMT, <1>11, <1>a, <1>p, <1>s DEF JoinValue, JoinedLength, Larger, stores, values, TypeOK, ValuesOK, Ceilings, Lengthy
  <2>5. Registered'
    BY SMT, <1>11, <1>s DEF JoinValue, JoinedLength, Larger, stores, values, TypeOK, AccountOK, Registered
  <2>. QED  BY <1>t, <2>1, <2>2, <2>3, <2>4, <2>5 DEF TypeOK
<1>12. CASE Refilled
  <2>1. StoresOK'
    <3>1. buffer' \in 0..windowBytes(total) /\ arriving' \in 0..windowBytes(total)
      <4>1. 0 \in 0..windowBytes(total)
        BY SMT, <1>p
      <4>. QED  BY <1>12, <4>1 DEF Refilled, TypeOK, StoresOK
    <3>2. \A s \in Stores : ~Open(s)' => pages'[s] = 0
      BY <1>12 DEF Refilled, stores, Open, TypeOK, StoresOK
    <3>. QED  BY <1>12, <1>s, <3>1, <3>2 DEF Refilled, stores, TypeOK, StoresOK
  <2>2. ValuesOK'
    BY <1>12 DEF Refilled, values, TypeOK, ValuesOK
  <2>3. AccountOK'
    BY <1>12 DEF Refilled, TypeOK, AccountOK
  <2>4. Ceilings'
    BY <1>12, <1>s DEF Refilled, values, Ceilings
  <2>5. Registered'
    BY <1>12, <1>s DEF Refilled, Registered
  <2>. QED  BY <1>t, <2>1, <2>2, <2>3, <2>4, <2>5 DEF TypeOK
<1>16. CASE ShortRead
  <2>1. StoresOK'
    <3>1. buffer' \in 0..windowBytes(total) /\ arriving' \in 0..windowBytes(total)
      <4>1. 0 \in 0..windowBytes(total)
        BY SMT, <1>p
      <4>. QED  BY <1>16, <4>1 DEF ShortRead, TypeOK, StoresOK
    <3>2. \A s \in Stores : ~Open(s)' => pages'[s] = 0
      BY <1>16 DEF ShortRead, stores, Open, TypeOK, StoresOK
    <3>. QED  BY <1>16, <1>s, <3>1, <3>2 DEF ShortRead, stores, TypeOK, StoresOK
  <2>2. ValuesOK'
    BY <1>16 DEF ShortRead, values, TypeOK, ValuesOK
  <2>3. AccountOK'
    BY <1>16 DEF ShortRead, TypeOK, AccountOK
  <2>4. Ceilings'
    BY <1>16, <1>s DEF ShortRead, values, Ceilings
  <2>5. Registered'
    BY <1>16, <1>s DEF ShortRead, Registered
  <2>. QED  BY <1>t, <2>1, <2>2, <2>3, <2>4, <2>5 DEF TypeOK
<1>13. ASSUME NEW length \in MathChars, MathRun(length) PROVE IInv'
  <2>1. StoresOK'
    BY SMT, <1>13, <1>a, <1>p, <1>s DEF MathRun, Larger, stores, values, TypeOK, StoresOK, Stores, Phases, Open
  <2>2. ValuesOK'
    BY SMT, <1>13, <1>a, <1>p DEF MathRun, Larger, stores, values, TypeOK, ValuesOK, Lengthy
  <2>3. AccountOK'
    BY SMT, <1>13, <1>p, <1>s DEF MathRun, Larger, stores, values, TypeOK, AccountOK
  <2>4. Ceilings'
    BY SMT, <1>13, <1>a, <1>p, <1>s DEF MathRun, Larger, stores, values, TypeOK, ValuesOK, Ceilings, Lengthy
  <2>5. Registered'
    BY SMT, <1>13, <1>s DEF MathRun, Larger, stores, values, TypeOK, AccountOK, Registered
  <2>. QED  BY <1>t, <2>1, <2>2, <2>3, <2>4, <2>5 DEF TypeOK
<1>14. CASE UNCHANGED vars
  BY <1>14, <1>s DEF vars, stores, values, TypeOK, StoresOK, ValuesOK, AccountOK, Ceilings,
                    Registered, Open
<1>. QED
  BY <1>1, <1>2, <1>3, <1>4, <1>5, <1>6, <1>7, <1>8, <1>9, <1>10, <1>11, <1>12,
     <1>13, <1>14, <1>15, <1>16 DEF Next

\* The inductive invariant, on which the theorems below rest.
LEMMA Inductive == Spec => []IInv
<1>. QED  BY InitEstablishes, NextPreserves, PTL DEF Spec

\* No cache outgrows its share of the plan and no window its size, for every
\* budget and any number of sections (PagedStore.#makeRoom, ByteWindow.#refill).
THEOREM TypeCorrect == Spec => []TypeOK
<1>1. IInv => TypeOK
  BY DEF IInv
<1>. QED  BY Inductive, <1>1, PTL

\* A bounded run never holds more than its budget: the claim of budget.ts, for
\* every budget it accepts.
THEOREM StaysWithinBudget == Spec => []HeldWithinBudget
<1>1. IInv => HeldWithinBudget
  <2> SUFFICES ASSUME IInv, arriving = 0 PROVE Held <= total
    BY DEF HeldWithinBudget
  <2> DEFINE w == pages["workspace"]
             i == pages["index"]
             c == pages["conversion"]
             f == fixedBufferBytes(Buffers(total))
             r == valueReserve(total)
             window == windowBytes(total)
             cache == cacheBytes(total)
  <2>1. /\ w \in 0..CachePages /\ i \in 0..CachePages /\ c \in 0..CachePages
        /\ buffer \in 0..window
    BY DEF IInv, TypeOK, StoresOK, Stores
  <2>2. /\ total \in Nat /\ CachePages \in Nat /\ 65536 * CachePages = cache
        /\ window \in Nat /\ f \in Nat /\ r \in Nat
        /\ cache * 3 + window + f + r <= total
    BY SMT, RunPlan DEF IInv, PAGE_BYTES
  <2>3. Held = 65536 * (w + i + c) + buffer + 0 + f + r
    BY SMT DEF Held, PAGE_BYTES
  <2> HIDE DEF w, i, c, f, r, window, cache
  <2>. QED  BY SMT, <2>1, <2>2, <2>3
<1>. QED  BY Inductive, <1>1, PTL

\* joinBounded and the maths ceiling (limits.ts, page.ts): the values a run
\* builds fit the reserve, whatever lengths a file claims.
THEOREM ValuesPaidFor == Spec => []BuiltWithinReserve
<1>1. IInv => BuiltWithinReserve
  <2> SUFFICES ASSUME IInv PROVE BuiltWithinReserve
    OBVIOUS
  <2>1. /\ built.value \in Nat /\ built.math \in Nat
        /\ built.value <= limits.maxValueChars /\ built.math <= limits.maxMathChars
    BY DEF IInv, TypeOK, ValuesOK, Ceilings, Lengthy
  <2>2. /\ limits.maxValueChars \in Nat /\ limits.maxMathChars \in Nat
        /\ valueReserve(total) \in Nat /\ valueReserve(total) >= 64
    BY RunPlan DEF IInv
  <2>3. reserveFor(limits.maxValueChars, limits.maxMathChars) <= valueReserve(total)
    BY <2>2, CeilingsPaidFor DEF limits
  <2>. QED
    BY SMT, <2>1, <2>2, <2>3 DEF BuiltWithinReserve, reserveFor, VALUE_COPIES, MATH_COPIES
<1>. QED  BY Inductive, <1>1, PTL

\* ResidentAccount.release and the failed opening (account.ts, convert.ts): the
\* peak a section leaves behind covers what it held when it ended.
THEOREM PeakCovers == Spec => PeakCoversSection
<1> DEFINE Ends == phase \in {"registered", "pages"} /\ phase' = "idle"
<1>1. ASSUME IInv, [Next]_vars, Ends PROVE peakHighWaterBytes' >= Held
  <2> USE DEF IInv
  <2> DEFINE h == pages["workspace"] + pages["index"] + pages["conversion"]
             f == fixedBufferBytes(Buffers(total))
             r == valueReserve(total)
             n == high["workspace"] + account.leftPages + (high["index"] + high["conversion"])
  <2>1. /\ pages["workspace"] \in Nat /\ pages["index"] \in Nat /\ pages["conversion"] \in Nat
        /\ high["workspace"] \in Nat /\ high["index"] \in Nat /\ high["conversion"] \in Nat
        /\ pages["workspace"] <= high["workspace"] /\ pages["index"] <= high["index"]
        /\ pages["conversion"] <= high["conversion"]
        /\ account.leftPages \in Nat /\ account.peak \in Nat
        /\ windowBytes(total) \in Nat /\ f \in Nat /\ r \in Nat
        /\ buffer \in 0..windowBytes(total)
    <3>1. CachePages \in Nat /\ windowBytes(total) \in Nat /\ f \in Nat /\ r \in Nat
      BY <1>1, RunPlan
    <3>2. /\ pages["workspace"] \in 0..CachePages /\ pages["index"] \in 0..CachePages
          /\ pages["conversion"] \in 0..CachePages
          /\ high["workspace"] \in 0..CachePages /\ high["index"] \in 0..CachePages
          /\ high["conversion"] \in 0..CachePages
          /\ pages["workspace"] <= high["workspace"] /\ pages["index"] <= high["index"]
          /\ pages["conversion"] <= high["conversion"]
          /\ buffer \in 0..windowBytes(total)
      BY <1>1 DEF TypeOK, StoresOK, Stores
    <3>3. account.leftPages \in Nat /\ account.peak \in Nat
      BY <1>1 DEF TypeOK, AccountOK
    <3> HIDE DEF f, r
    <3>. QED  BY SMT, <3>1, <3>2, <3>3
  <2>2. account.section /\ account.windowBytes = windowBytes(total)
    BY <1>1 DEF Registered
  <2>9. phase # "idle" /\ (OpenFails \/ CloseSection)
    BY <1>1 DEF Next, vars, OpenIndex, OpenFailsUnregistered, OpenConversion,
         SectionOpens, ValueDone, LoadPage, LoadFails, Get, Refill, Refilled,
         ShortRead, JoinValue, MathRun
  <2>3. highWaterBytes = PAGE_BYTES * n + windowBytes(total) + f + r
    BY <2>2 DEF highWaterBytes, cacheHighWaterBytes
  <2>4. Held = PAGE_BYTES * h + buffer + 0 + f + r
    <3>1. arriving = 0
      BY <2>9 DEF OpenFails, CloseSection, Still
    <3>. QED  BY <3>1 DEF Held
  <2>5. h \in Nat /\ n \in Nat /\ h <= n
    BY SMT, <2>1
  <2>6. highWaterBytes >= Held
    <3> HIDE DEF h, n, f, r
    <3>. QED  BY SMT, <2>1, <2>3, <2>4, <2>5 DEF PAGE_BYTES
  <2>7. Held \in Nat
    <3> HIDE DEF h, n, f, r
    <3>. QED  BY SMT, <2>1, <2>4, <2>5 DEF PAGE_BYTES
  <2>8. /\ peakHighWaterBytes' \in Nat /\ highWaterBytes' \in Nat /\ account'.peak \in Nat
        /\ peakHighWaterBytes' >= highWaterBytes' /\ peakHighWaterBytes' >= account'.peak
    <3>1. TypeOK'
      BY <1>1, NextPreserves
    <3>2. ReadingsOK'
      BY <3>1, ReadingsOfState, PTL
    <3>. QED  BY <3>2 DEF ReadingsOK
  <2>10. CASE CloseSection
    <3>1. account'.peak = peakHighWaterBytes
      BY <1>1, <2>10 DEF CloseSection, Forget, TypeOK, AccountOK
    <3>2. peakHighWaterBytes \in Nat /\ peakHighWaterBytes >= highWaterBytes /\ highWaterBytes \in Nat
      BY <1>1, Readings
    <3>. QED  BY SMT, <2>6, <2>7, <2>8, <3>1, <3>2
  <2>11. CASE OpenFails
    <3>1. highWaterBytes' = highWaterBytes
      <4>1. UNCHANGED total
        BY <2>11 DEF OpenFails
      <4>2. /\ ~account'.section /\ account'.windowBytes = account.windowBytes
            /\ account'.leftPages = account.leftPages + high["index"] + high["conversion"]
            /\ high'["workspace"] = high["workspace"]
        BY <1>1, <2>11 DEF OpenFails, Strand, CloseStores, TypeOK, StoresOK, AccountOK, Stores
      <4>3. high'["workspace"] + account'.leftPages + 0
              = high["workspace"] + account.leftPages + (high["index"] + high["conversion"])
        BY SMT, <2>1, <4>2
      <4>4. cacheHighWaterBytes' = cacheHighWaterBytes
        BY <2>2, <4>2, <4>3 DEF cacheHighWaterBytes
      <4>. QED  BY <4>1, <4>2, <4>4 DEF highWaterBytes
    <3>2. highWaterBytes \in Nat
      BY <1>1, Readings
    <3>. QED  BY SMT, <2>6, <2>7, <2>8, <3>1, <3>2
  <2>. QED  BY <2>9, <2>10, <2>11
<1>. QED  BY Inductive, <1>1, PTL DEF Spec, PeakCoversSection
=============================================================================
