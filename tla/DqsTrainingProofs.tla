------------------------- MODULE DqsTrainingProofs --------------------------
(***************************************************************************)
(* Theorems about DqsTraining: for every record of the self test, of any   *)
(* length, the two loops choose the window that they are to choose, and    *)
(* what is programmed works.                                               *)
(***************************************************************************)
EXTENDS DqsTraining, TLAPS

-----------------------------------------------------------------------------
(***************************************************************************)
(* The inductive invariant.                                                *)
(***************************************************************************)
\* MinRun delays from i on work.
Run(i) == i + MinRun <= Size /\ \A k \in i..(i + MinRun - 1) : At(k) = 0

\* The windows that start before i.
Before(i) == {w \in Windows : w[1] < i}

\* found and max_len are those of the longest window before i, and none of these reaches
\* the end of the record.
Longest(i) ==
  /\ Before(i) = {} => ~win.flag /\ found = NotFound
  /\ \A w \in Before(i) : w[2] # Size - 1
  /\ Before(i) # {} =>
       /\ win.flag
       /\ \E v \in Before(i) :
            /\ win.max_len = Length(v) /\ found = Pick(v[1], v[2])
            /\ \A w \in Before(i) :
                 Length(v) > Length(w) \/ (Length(v) = Length(w) /\ v[1] <= w[1])

\* data1 and data2 are the ends of the last window before i.
LastSeen(i) ==
  /\ Before(i) = {} => win.data1 = 0 /\ win.data2 = 0
  /\ Before(i) # {} => /\ <<win.data1, win.data2>> \in Windows
                       /\ \A w \in Before(i) : w[1] <= win.data1

\* A window that starts at i starts a stretch of delays that work.
StretchStarts(i) == i > 0 => At(i - 1) = 1 \/ ~Run(i - 1)

SweepInv ==
  /\ pc = "sweep" => /\ Len(record) < Size /\ j = 0 /\ found = NotFound
                     /\ ~win.flag /\ win.data1 = 0 /\ win.data2 = 0
  /\ pc # "sweep" => Len(record) = Size

LookInv ==
  pc = "look" =>
    \/ j <= Size /\ Longest(j) /\ LastSeen(j) /\ StretchStarts(j)
    \/ /\ j > Size
       /\ <<win.data1, win.data2>> \in Windows /\ win.data2 = Size - 1
       /\ found = Pick(win.data1, win.data2)
       /\ \A w \in Windows : w[1] <= win.data1

FollowInv ==
  pc = "follow" =>
    /\ win.data1 <= j /\ j < Size
    /\ Run(win.data1) /\ \A i \in win.data1..j : At(i) = 0
    /\ win.data1 > 0 => At(win.data1 - 1) = 1
    /\ Longest(win.data1)

IInv ==
  /\ TypeOK /\ SweepInv /\ LookInv /\ FollowInv
  /\ FindsWindow /\ ProgramsWorkingDelay /\ LateGateIsReduced

-----------------------------------------------------------------------------
(***************************************************************************)
(* Windows.                                                                *)
(***************************************************************************)
\* A sweep records at least MinRun delays.
LEMMA Sizes == ASSUME search \in {"data", "gate"} PROVE Size \in Nat /\ MinRun <= Size /\ Size > 0
<1>1. Coarse * Fine \in Nat
  BY SizeAssumption
<1>2. QED
  BY <1>1, SizeAssumption DEF Size

\* What it is to be a window.
LEMMA WindowIs ==
  ASSUME TypeOK
  PROVE  /\ \A w \in Windows :
              /\ w = <<w[1], w[2]>> /\ w[1] \in 0..(Size - 1) /\ w[2] \in 0..(Size - 1)
              /\ w[2] - w[1] >= MinRun - 1 /\ w[1] <= w[2]
              /\ \A i \in w[1]..w[2] : At(i) = 0
              /\ w[1] > 0 => At(w[1] - 1) = 1
              /\ w[2] < Size - 1 => At(w[2] + 1) = 1
         /\ \A a, b \in 0..(Size - 1) :
              /\ b - a >= MinRun - 1 /\ \A i \in a..b : At(i) = 0
              /\ a > 0 => At(a - 1) = 1
              /\ b < Size - 1 => At(b + 1) = 1
              => <<a, b>> \in Windows
<1>1. Size \in Nat /\ MinRun \in Nat \ {0}
  BY Sizes, SizeAssumption DEF TypeOK
<1>2. ASSUME NEW w \in Windows
      PROVE  /\ w = <<w[1], w[2]>> /\ w[1] \in 0..(Size - 1) /\ w[2] \in 0..(Size - 1)
             /\ w[2] - w[1] >= MinRun - 1 /\ w[1] <= w[2]
             /\ \A i \in w[1]..w[2] : At(i) = 0
             /\ w[1] > 0 => At(w[1] - 1) = 1
             /\ w[2] < Size - 1 => At(w[2] + 1) = 1
  <2>1. w \in (0..(Size - 1)) \X (0..(Size - 1)) /\ w[2] - w[1] >= MinRun - 1
        /\ (\A i \in w[1]..w[2] : At(i) = 0)
        /\ (w[1] > 0 => At(w[1] - 1) = 1) /\ (w[2] < Size - 1 => At(w[2] + 1) = 1)
    BY DEF Windows
  <2>2. w = <<w[1], w[2]>> /\ w[1] \in 0..(Size - 1) /\ w[2] \in 0..(Size - 1)
    BY <2>1
  <2>3. w[1] <= w[2]
    BY <1>1, <2>1, <2>2
  <2>4. QED
    BY <2>1, <2>2, <2>3
<1>3. ASSUME NEW a \in 0..(Size - 1), NEW b \in 0..(Size - 1),
             b - a >= MinRun - 1, \A i \in a..b : At(i) = 0,
             a > 0 => At(a - 1) = 1, b < Size - 1 => At(b + 1) = 1
      PROVE  <<a, b>> \in Windows
  <2>1. <<a, b>> \in (0..(Size - 1)) \X (0..(Size - 1)) /\ <<a, b>>[1] = a /\ <<a, b>>[2] = b
    OBVIOUS
  <2>2. QED
    BY <1>3, <2>1 DEF Windows
<1>4. QED
  BY <1>2, <1>3

\* Windows are maximal: two that start alike are the same, and none starts in another.
LEMMA WindowsApart ==
  ASSUME TypeOK, NEW v \in Windows, NEW w \in Windows, v[1] <= w[1], w[1] <= v[2]
  PROVE  v = w
<1>1. Size \in Nat /\ v[1] \in 0..(Size - 1) /\ v[2] \in 0..(Size - 1)
      /\ w[1] \in 0..(Size - 1) /\ w[2] \in 0..(Size - 1)
      /\ v[1] <= v[2] /\ w[1] <= w[2] /\ v = <<v[1], v[2]>> /\ w = <<w[1], w[2]>>
  BY WindowIs, Sizes DEF TypeOK
<1>2. \A i \in v[1]..v[2] : At(i) = 0
  BY WindowIs
<1>3. \A i \in w[1]..w[2] : At(i) = 0
  BY WindowIs
<1>4. /\ w[1] > 0 => At(w[1] - 1) = 1
      /\ w[2] < Size - 1 => At(w[2] + 1) = 1
      /\ v[2] < Size - 1 => At(v[2] + 1) = 1
  BY WindowIs
<1>5. v[1] = w[1]
  <2>1. CASE v[1] < w[1]
    <3>1. w[1] - 1 \in v[1]..v[2]
      BY <1>1, <2>1
    <3>2. QED
      BY <1>1, <1>2, <1>4, <2>1, <3>1
  <2>2. QED
    BY <1>1, <2>1
<1>6. ~(v[2] < w[2])
  <2>1. SUFFICES ASSUME v[2] < w[2] PROVE FALSE
    OBVIOUS
  <2>2. v[2] + 1 \in w[1]..w[2] /\ v[2] < Size - 1
    BY <1>1, <2>1
  <2>3. QED
    BY <1>3, <1>4, <2>2
<1>7. ~(w[2] < v[2])
  <2>1. SUFFICES ASSUME w[2] < v[2] PROVE FALSE
    OBVIOUS
  <2>2. w[2] + 1 \in v[1]..v[2] /\ w[2] < Size - 1
    BY <1>1, <2>1
  <2>3. QED
    BY <1>2, <1>4, <2>2
<1>8. QED
  BY <1>1, <1>5, <1>6, <1>7

\* A window starts where MinRun delays work.
LEMMA WindowRuns == ASSUME TypeOK, NEW w \in Windows PROVE Run(w[1])
<1>1. Size \in Nat /\ MinRun \in Nat \ {0} /\ w[1] \in 0..(Size - 1) /\ w[2] \in 0..(Size - 1)
      /\ w[2] - w[1] >= MinRun - 1 /\ \A i \in w[1]..w[2] : At(i) = 0
  BY WindowIs, Sizes, SizeAssumption DEF TypeOK
<1>2. \A k \in w[1]..(w[1] + MinRun - 1) : k \in w[1]..w[2]
  BY <1>1
<1>3. QED
  BY <1>1, <1>2 DEF Run

-----------------------------------------------------------------------------
(***************************************************************************)
(* Types, and what a step leaves alone.                                    *)
(***************************************************************************)
\* The record and the windows are the same while the loops run.
LEMMA SameRecord ==
  ASSUME search' = search, record' = record
  PROVE  /\ Size' = Size /\ Windows' = Windows
         /\ \A i : At(i)' = At(i) /\ Run(i)' = Run(i) /\ Before(i)' = Before(i)
         /\ \A a, b : Pick(a, b)' = Pick(a, b)
<1>1. Size' = Size
  BY DEF Size
<1>2. \A i : At(i)' = At(i)
  BY DEF At
<1>3. Windows' = Windows
  BY <1>1, <1>2 DEF Windows
<1>4. QED
  BY <1>1, <1>2, <1>3 DEF Run, Before, Pick

\* A turn of the inner loop: the window goes on, ends with the record, ends as the longest
\* so far, or ends otherwise.
LEMMA FollowIs ==
  ASSUME TypeOK, Follow
  PROVE  /\ win' = [max_len |-> win'.max_len, flag |-> win'.flag, data1 |-> win'.data1,
                    data2 |-> win'.data2]
         /\ win'.data1 = win.data1
         /\ \/ /\ j + 1 <= Size - 1 /\ At(j + 1) # 1 /\ j' = j + 1 /\ pc' = "follow"
               /\ win' = win /\ found' = found
            \/ /\ j + 1 > Size - 1 /\ j' = j + 2 /\ pc' = "look"
               /\ win'.data2 = j /\ win'.flag = win.flag /\ win'.max_len = win.max_len
               /\ found' = Pick(win.data1, j)
            \/ /\ j + 1 <= Size - 1 /\ At(j + 1) = 1 /\ j' = j + 2 /\ pc' = "look"
               /\ ~win.flag \/ j + 1 - win.data1 > win.max_len
               /\ win'.data2 = j /\ win'.flag /\ win'.max_len = j + 1 - win.data1
               /\ found' = Pick(win.data1, j)
            \/ /\ j + 1 <= Size - 1 /\ At(j + 1) = 1 /\ j' = j + 2 /\ pc' = "look"
               /\ win.flag /\ ~(j + 1 - win.data1 > win.max_len)
               /\ win'.data2 = j /\ win'.flag = win.flag /\ win'.max_len = win.max_len
               /\ found' = found
<1> DEFINE k == j + 1
           len == k - win.data1
           over == k > Size - 1
           ends == over \/ At(k) = 1
           longest == ends /\ ~over /\ (~win.flag \/ len > win.max_len)
<1>1. /\ j' = IF ends THEN k + 1 ELSE k
      /\ pc' = IF ends THEN "look" ELSE "follow"
      /\ win' = [win EXCEPT !.data2 = IF ends THEN k - 1 ELSE @, !.flag = @ \/ longest,
                            !.max_len = IF longest THEN len ELSE @]
      /\ found' = IF over \/ longest THEN Pick(win.data1, k - 1) ELSE found
  BY DEF Follow
<1>2. j \in Nat /\ Size \in Nat /\ k + 1 = j + 2 /\ k - 1 = j
  BY Sizes DEF TypeOK
<1>3. win \in [max_len : 0..Size, flag : BOOLEAN, data1 : 0..(Size - 1), data2 : 0..(Size - 1)]
  BY DEF TypeOK
<1>4. win = [max_len |-> win.max_len, flag |-> win.flag, data1 |-> win.data1,
             data2 |-> win.data2] /\ win.flag \in BOOLEAN
  BY <1>3
<1> HIDE DEF k, len, over, ends, longest
<1>5. /\ win'.max_len = IF longest THEN len ELSE win.max_len
      /\ win'.flag = (win.flag \/ longest)
      /\ win'.data1 = win.data1
      /\ win'.data2 = IF ends THEN k - 1 ELSE win.data2
      /\ win' = [max_len |-> win'.max_len, flag |-> win'.flag, data1 |-> win'.data1,
                 data2 |-> win'.data2]
  BY <1>1, <1>3, <1>4
<1>6. CASE ~ends
  <2>1. ~longest
    BY <1>6 DEF longest
  <2>2. win' = win
    BY <1>4, <1>5, <1>6, <2>1
  <2>3. k <= Size - 1 /\ At(k) # 1 /\ ~over
    BY <1>2, <1>6 DEF ends, over, k
  <2>4. QED
    BY <1>1, <1>5, <1>6, <2>1, <2>2, <2>3 DEF k
<1>7. CASE over
  <2>1. ~longest /\ ends
    BY <1>7 DEF longest, ends
  <2>2. QED
    BY <1>1, <1>2, <1>4, <1>5, <1>7, <2>1 DEF over, k
<1>8. CASE ends /\ ~over
  <2>1. k <= Size - 1 /\ At(k) = 1
    BY <1>2, <1>8 DEF ends, over, k
  <2>2. j + 1 <= Size - 1 /\ At(j + 1) = 1 /\ j' = j + 2 /\ pc' = "look" /\ win'.data2 = j
    BY <1>1, <1>2, <1>5, <1>8, <2>1 DEF k
  <2>3. len = j + 1 - win.data1
    BY <1>2, <1>3 DEF len, k
  <2>4. CASE longest
    <3>1. ~win.flag \/ len > win.max_len
      BY <2>4 DEF longest
    <3>2. win'.flag /\ win'.max_len = len /\ found' = Pick(win.data1, j)
      BY <1>1, <1>2, <1>5, <2>4
    <3>3. QED
      BY <1>5, <2>2, <2>3, <3>1, <3>2
  <2>5. CASE ~longest
    <3>1. win.flag /\ ~(len > win.max_len)
      BY <1>8, <2>5 DEF longest
    <3>2. win'.flag = win.flag /\ win'.max_len = win.max_len /\ found' = found
      BY <1>1, <1>4, <1>5, <1>8, <2>5
    <3>3. QED
      BY <1>5, <2>2, <2>3, <3>1, <3>2
  <2>6. QED
    BY <2>4, <2>5
<1>9. QED
  BY <1>6, <1>7, <1>8

\* Every step keeps the types.
LEMMA TypesKept == ASSUME IInv, [Next]_vars PROVE TypeOK'
<1>1. Size \in Nat /\ MinRun \in Nat \ {0} /\ MinRun <= Size /\ TypeOK
  BY Sizes, SizeAssumption DEF IInv, TypeOK
<1>2. search' = search /\ Size' = Size
  BY DEF Next, vars, Sweep, Look, Follow, ApplyData, ApplyGate, Done, Size
<1>3. CASE Sweep
  BY <1>1, <1>2, <1>3 DEF Sweep, TypeOK, IInv, SweepInv
<1>4. CASE Look
  <2>1. record' = record /\ set' = set
    BY <1>4 DEF Look
  <2>2. CASE j > Size - MinRun
    <3>1. pc' = "apply" /\ j' = j /\ win' = win
          /\ found' = IF search = "data" /\ win.data1 = 0 /\ win.data2 = 0 THEN 0 ELSE found
      BY <1>4, <2>2 DEF Look
    <3>2. found' \in NotFound..(Size - 1)
      BY <1>1, <3>1 DEF TypeOK, NotFound
    <3>3. QED
      BY <1>1, <1>2, <2>1, <3>1, <3>2 DEF TypeOK
  <2>3. CASE ~(j > Size - MinRun)
    <3>1. \/ pc' = "follow" /\ win' = [win EXCEPT !.data1 = j] /\ j' = j
          \/ pc' = pc /\ j' = j + 1 /\ win' = win
      BY <1>4, <2>3 DEF Look
    <3>2. found' = found /\ j \in 0..(Size - 1) /\ j + 1 \in 0..(Size + 1)
      BY <1>1, <1>4, <2>3 DEF Look, TypeOK
    <3>3. win' \in [max_len : 0..Size, flag : BOOLEAN, data1 : 0..(Size - 1),
                    data2 : 0..(Size - 1)]
      BY <1>1, <3>1, <3>2 DEF TypeOK
    <3>4. QED
      BY <1>1, <1>2, <1>4, <2>1, <3>1, <3>2, <3>3 DEF TypeOK, Look
  <2>4. QED
    BY <2>2, <2>3
<1>5. CASE Follow
  <2>1. record' = record /\ set' = set /\ pc = "follow" /\ j \in 0..(Size - 1)
        /\ win.data1 \in 0..j
    BY <1>1, <1>5 DEF Follow, TypeOK, IInv, FollowInv
  <2>2. Pick(win.data1, j) \in 0..(Size - 1)
    BY <1>1, <2>1 DEF Pick
  <2>3. j + 1 - win.data1 \in 0..Size
    BY <1>1, <2>1
  <2>4. j' \in 0..(Size + 1) /\ pc' \in {"look", "follow"}
        /\ (pc' = "follow" => j' \in 0..(Size - 1))
    BY <1>1, <1>5, <2>1, FollowIs
  <2>5. win' \in [max_len : 0..Size, flag : BOOLEAN, data1 : 0..(Size - 1), data2 : 0..(Size - 1)]
    <3>1. win'.max_len \in 0..Size /\ win'.flag \in BOOLEAN
          /\ win'.data1 \in 0..(Size - 1) /\ win'.data2 \in 0..(Size - 1)
      BY <1>1, <1>5, <2>1, <2>3, FollowIs DEF TypeOK
    <3>2. win' = [max_len |-> win'.max_len, flag |-> win'.flag, data1 |-> win'.data1,
                  data2 |-> win'.data2]
      BY <1>1, <1>5, FollowIs
    <3>3. QED
      BY <3>1, <3>2
  <2>6. found' \in NotFound..(Size - 1)
    BY <1>1, <1>5, <2>2, FollowIs DEF TypeOK, NotFound
  <2>7. QED
    BY <1>1, <1>2, <2>1, <2>4, <2>5, <2>6 DEF TypeOK
<1>6. CASE ApplyData
  <2>1. set' = [coarse |-> 0, fine |-> IF found < Lo \/ found > Hi THEN Standard ELSE found]
        /\ UNCHANGED <<search, record, j, win, found>> /\ pc' = "done" /\ search = "data"
    BY <1>6 DEF ApplyData
  <2>2. (IF found < Lo \/ found > Hi THEN Standard ELSE found) \in NotFound..(Delays + Fine)
    BY <1>1, <2>1, LimitAssumption, SizeAssumption DEF TypeOK, Size, NotFound
  <2>3. 0 \in 0..(Modulus - 1)
    <3>1. Coarse * Fine \in Nat
      BY SizeAssumption
    <3>2. QED
      BY <3>1, ModulusAssumption
  <2>4. QED
    BY <1>1, <1>2, <2>1, <2>2, <2>3 DEF TypeOK
<1>7. CASE ApplyGate
  <2>1. PICK d \in Last :
          set' = IF d % Fine >= Quarter
                 THEN [coarse |-> (d \div Fine - 1) % Modulus, fine |-> (d % Fine) - Quarter]
                 ELSE [coarse |-> (d \div Fine - 2) % Modulus, fine |-> (d % Fine) + Quarter]
    BY <1>7 DEF ApplyGate
  <2>2. UNCHANGED <<search, record, j, win, found>> /\ pc' = "done"
    BY <1>7 DEF ApplyGate
  <2>3. d \in 0..(Size - 1)
    BY <1>1 DEF Last, TypeOK, NotFound
  <2>4. Fine \in Nat \ {0} /\ Quarter \in Nat /\ Quarter <= Fine /\ Modulus \in Nat \ {0}
    <3>1. Coarse * Fine \in Nat /\ (Fine = 0 => Coarse * Fine = 0)
      BY SizeAssumption
    <3>2. Fine # 0 /\ Modulus # 0
      BY <3>1, SizeAssumption, ModulusAssumption
    <3>3. QED
      BY <3>2, SizeAssumption, ModulusAssumption DEF Quarter
  <2>5. d \div Fine \in Int /\ d % Fine \in 0..(Fine - 1)
    BY <2>3, <2>4
  <2>6. (d \div Fine - 1) % Modulus \in 0..(Modulus - 1)
        /\ (d \div Fine - 2) % Modulus \in 0..(Modulus - 1)
    BY <2>4, <2>5
  <2>7. /\ d % Fine >= Quarter => (d % Fine) - Quarter \in NotFound..(Delays + Fine)
        /\ ~(d % Fine >= Quarter) => (d % Fine) + Quarter \in NotFound..(Delays + Fine)
    <3>1. 2 * Quarter <= Fine
      BY SizeAssumption DEF Quarter
    <3>2. QED
      BY <2>4, <2>5, <3>1, SizeAssumption DEF NotFound
  <2>8. set' \in [coarse : 0..(Modulus - 1), fine : NotFound..(Delays + Fine)]
    BY <2>1, <2>6, <2>7
  <2>9. QED
    BY <1>1, <1>2, <2>2, <2>8 DEF TypeOK
<1>8. CASE UNCHANGED vars
  BY <1>1, <1>2, <1>8 DEF vars, TypeOK
<1>9. QED
  BY <1>3, <1>4, <1>5, <1>6, <1>7, <1>8 DEF Next, Done

-----------------------------------------------------------------------------
(***************************************************************************)
(* The search.                                                             *)
(***************************************************************************)
\* The outer loop passes a delay at which no window starts.
LEMMA PassKeeps ==
  ASSUME TypeOK, j <= Size, ~Run(j) PROVE Before(j + 1) = Before(j)
<1>1. j \in Nat
  BY DEF TypeOK
<1>2. ASSUME NEW w \in Windows PROVE w[1] < j + 1 <=> w[1] < j
  <2>1. w[1] \in Nat /\ w[1] # j
    BY WindowIs, WindowRuns
  <2>2. QED
    BY <1>1, <2>1
<1>3. QED
  BY <1>2 DEF Before

\* The window that the inner loop has followed to its end.
LEMMA FollowedIsWindow ==
  ASSUME TypeOK, FollowInv, pc = "follow", j + 1 > Size - 1 \/ At(j + 1) = 1
  PROVE  /\ <<win.data1, j>> \in Windows
         /\ Before(j + 2) = Before(win.data1) \cup {<<win.data1, j>>}
<1>1. /\ Size \in Nat /\ MinRun \in Nat \ {0} /\ j \in 0..(Size - 1) /\ win.data1 \in 0..(Size - 1)
      /\ win.data1 <= j /\ Run(win.data1)
      /\ \A i \in win.data1..j : At(i) = 0
      /\ win.data1 > 0 => At(win.data1 - 1) = 1
  BY Sizes, SizeAssumption DEF TypeOK, FollowInv
<1>2. j - win.data1 >= MinRun - 1
  <2>1. SUFFICES ASSUME j - win.data1 < MinRun - 1 PROVE FALSE
    BY <1>1
  <2>2. j + 1 \in win.data1..(win.data1 + MinRun - 1) /\ j + 1 <= Size - 1
    BY <1>1, <2>1 DEF Run
  <2>3. At(j + 1) = 0 /\ At(j + 1) = 1
    BY <1>1, <2>2 DEF Run
  <2>4. QED
    BY <2>3
<1>3. <<win.data1, j>> \in Windows
  <2>1. j < Size - 1 => At(j + 1) = 1
    BY <1>1
  <2>2. QED
    BY <1>1, <1>2, <2>1, WindowIs
<1>4. ASSUME NEW w \in Windows
      PROVE  w[1] < j + 2 <=> w[1] < win.data1 \/ w = <<win.data1, j>>
  <2>1. w[1] \in 0..(Size - 1) /\ w[2] \in 0..(Size - 1) /\ w[1] <= w[2]
        /\ \A i \in w[1]..w[2] : At(i) = 0
    BY WindowIs
  <2>2. w[1] # j + 1
    <3>1. SUFFICES ASSUME w[1] = j + 1 PROVE FALSE
      OBVIOUS
    <3>2. j + 1 <= Size - 1 /\ At(j + 1) = 0
      BY <1>1, <2>1, <3>1
    <3>3. QED
      BY <1>1, <3>2
  <2>3. win.data1 <= w[1] /\ w[1] <= j => w = <<win.data1, j>>
    <3>1. SUFFICES ASSUME win.data1 <= w[1], w[1] <= j PROVE w = <<win.data1, j>>
      OBVIOUS
    <3>2. PICK v \in Windows : v = <<win.data1, j>>
      BY <1>3
    <3>3. v[1] = win.data1 /\ v[2] = j
      BY <3>2
    <3>4. v = w
      BY <3>1, <3>3, WindowsApart
    <3>5. QED
      BY <3>2, <3>4
  <2>4. w = <<win.data1, j>> => w[1] = win.data1
    OBVIOUS
  <2>5. QED
    BY <1>1, <2>1, <2>2, <2>3, <2>4
<1>5. QED
  BY <1>3, <1>4 DEF Before

\* The outer loop keeps the search; at its end all windows have been seen.
LEMMA LookKeeps ==
  ASSUME IInv, TypeOK', Look PROVE LookInv' /\ FollowInv' /\ FindsWindow'
<1>1. /\ Size \in Nat /\ MinRun \in Nat \ {0} /\ MinRun <= Size /\ TypeOK
      /\ j \in Nat /\ pc = "look" /\ search' = search /\ record' = record
      /\ search \in {"data", "gate"}
  BY Sizes, SizeAssumption DEF IInv, TypeOK, Look
<1>2. /\ Size' = Size /\ Windows' = Windows
      /\ \A i : At(i)' = At(i) /\ Run(i)' = Run(i) /\ Before(i)' = Before(i)
      /\ \A a, b : Pick(a, b)' = Pick(a, b)
  BY <1>1, SameRecord
<1>3. CASE j > Size - MinRun
  <2>1. pc' = "apply" /\ j' = j /\ win' = win
        /\ found' = IF search = "data" /\ win.data1 = 0 /\ win.data2 = 0 THEN 0 ELSE found
    BY <1>3 DEF Look
  <2>2. LookInv' /\ FollowInv'
    BY <2>1 DEF LookInv, FollowInv
  <2>3. Before(j) = Windows
    <3>1. ASSUME NEW w \in Windows PROVE w[1] < j
      BY <1>1, <1>3, WindowIs
    <3>2. QED
      BY <3>1 DEF Before
  <2>4. CASE j > Size
    <3>1. /\ <<win.data1, win.data2>> \in Windows /\ win.data2 = Size - 1
          /\ found = Pick(win.data1, win.data2)
          /\ \A w \in Windows : w[1] <= win.data1
      BY <1>1, <2>4 DEF IInv, LookInv
    <3>2. PICK v \in Windows : v = <<win.data1, win.data2>>
      BY <3>1
    <3>3. v[1] = win.data1 /\ v[2] = win.data2
      BY <3>2
    <3>4. \A w \in Windows : Better(v, w)
      BY <3>1, <3>3 DEF Better
    <3>5. found' = Pick(v[1], v[2])
      <4>1. search = "data" /\ win.data1 = 0 /\ win.data2 = 0 => found = 0
        BY <3>1 DEF Pick
      <4>2. QED
        BY <2>1, <3>1, <3>3, <4>1
    <3>6. QED
      BY <1>2, <2>1, <2>2, <3>2, <3>4, <3>5 DEF FindsWindow, Better, Length
  <2>5. CASE j <= Size /\ Windows = {}
    <3>1. Longest(j) /\ LastSeen(j)
      BY <1>1, <2>5 DEF IInv, LookInv
    <3>2. found = NotFound /\ win.data1 = 0 /\ win.data2 = 0
      BY <2>3, <2>5, <3>1 DEF Longest, LastSeen
    <3>3. QED
      BY <1>1, <1>2, <2>1, <2>2, <2>5, <3>2 DEF FindsWindow
  <2>6. CASE j <= Size /\ Windows # {}
    <3>1. Longest(j) /\ LastSeen(j)
      BY <1>1, <2>6 DEF IInv, LookInv
    <3>2. /\ \A w \in Windows : w[2] # Size - 1
          /\ <<win.data1, win.data2>> \in Windows
          /\ \A w \in Windows : w[1] <= win.data1
      BY <2>3, <2>6, <3>1 DEF Longest, LastSeen
    <3>3. PICK v \in Windows :
            /\ found = Pick(v[1], v[2])
            /\ \A w \in Windows :
                 Length(v) > Length(w) \/ (Length(v) = Length(w) /\ v[1] <= w[1])
      BY <2>3, <2>6, <3>1 DEF Longest
    <3>4. \A w \in Windows : Better(v, w)
      BY <3>2, <3>3 DEF Better
    <3>5. found' = Pick(v[1], v[2])
      <4>1. ASSUME search = "data", win.data1 = 0, win.data2 = 0 PROVE found = 0
        <5>1. PICK u \in Windows : u = <<0, 0>>
          BY <3>2, <4>1
        <5>2. u[1] = 0 /\ u[2] = 0 /\ v[1] = 0
          BY <3>2, <4>1, <5>1, WindowIs, <1>1
        <5>3. u = v
          BY <1>1, <5>2, WindowsApart
        <5>4. QED
          BY <3>3, <4>1, <5>2, <5>3 DEF Pick
      <4>2. QED
        BY <2>1, <3>3, <4>1
    <3>6. QED
      BY <1>2, <2>1, <2>2, <3>3, <3>4, <3>5 DEF FindsWindow, Better, Length
  <2>7. QED
    BY <1>1, <2>4, <2>5, <2>6
<1>4. CASE ~(j > Size - MinRun) /\ \A i \in j..(j + MinRun - 1) : At(i) = 0
  <2>1. pc' = "follow" /\ win' = [win EXCEPT !.data1 = j] /\ j' = j /\ found' = found
    BY <1>4 DEF Look
  <2>2. win'.data1 = j /\ win'.flag = win.flag /\ win'.max_len = win.max_len
    BY <1>1, <2>1 DEF TypeOK
  <2>3. Longest(j) /\ StretchStarts(j)
    BY <1>1, <1>4 DEF IInv, LookInv
  <2>4. Run(j) /\ At(j) = 0 /\ j < Size
    BY <1>1, <1>4 DEF Run
  <2>5. j > 0 => At(j - 1) = 1
    <3>1. SUFFICES ASSUME j > 0, At(j - 1) # 1 PROVE FALSE
      OBVIOUS
    <3>2. ~Run(j - 1)
      BY <2>3, <3>1 DEF StretchStarts
    <3>3. At(j - 1) = 0
      <4>1. j - 1 + 1 \in 1..Len(record)
        BY <1>1, <2>4, <3>1 DEF IInv, SweepInv
      <4>2. record[j - 1 + 1] \in {0, 1}
        BY <1>1, <4>1 DEF TypeOK
      <4>3. QED
        BY <3>1, <4>2 DEF At
    <3>4. \A k \in (j - 1)..(j - 1 + MinRun - 1) : At(k) = 0
      <4>1. ASSUME NEW k \in (j - 1)..(j - 1 + MinRun - 1)
            PROVE  k = j - 1 \/ k \in j..(j + MinRun - 1)
        BY <1>1
      <4>2. QED
        BY <1>4, <3>3, <4>1
    <3>5. QED
      BY <1>1, <2>4, <3>2, <3>4 DEF Run
  <2>6. \A i \in j..j : At(i) = 0
    BY <1>1, <2>4
  <2>7. Longest(j)'
    BY <1>2, <2>1, <2>2, <2>3 DEF Longest, Length
  <2>8. FollowInv'
    BY <1>1, <1>2, <2>1, <2>2, <2>4, <2>5, <2>6, <2>7 DEF FollowInv, Longest, Length
  <2>9. QED
    BY <2>1, <2>8 DEF LookInv, FindsWindow
<1>5. CASE ~(j > Size - MinRun) /\ ~\A i \in j..(j + MinRun - 1) : At(i) = 0
  <2>1. pc' = "look" /\ win' = win /\ j' = j + 1 /\ found' = found
    BY <1>1, <1>5 DEF Look
  <2>2. j <= Size /\ j + 1 <= Size /\ ~Run(j) /\ j + 1 - 1 = j
    BY <1>1, <1>5 DEF Run
  <2>3. Longest(j) /\ LastSeen(j)
    BY <1>1, <2>2 DEF IInv, LookInv
  <2>4. Before(j + 1) = Before(j)
    BY <1>1, <2>2, PassKeeps
  <2>5. Longest(j + 1) /\ LastSeen(j + 1) /\ StretchStarts(j + 1)
    <3>1. Longest(j + 1)
      BY <2>3, <2>4 DEF Longest
    <3>2. LastSeen(j + 1)
      BY <2>3, <2>4 DEF LastSeen
    <3>3. StretchStarts(j + 1)
      <4>1. (j + 1) - 1 = j
        BY <1>1
      <4>2. QED
        BY <2>2, <4>1 DEF StretchStarts
    <3>4. QED
      BY <3>1, <3>2, <3>3
  <2>6. Longest(j)' /\ LastSeen(j)' /\ StretchStarts(j)'
    BY <1>2, <2>1, <2>5 DEF Longest, LastSeen, StretchStarts, Length
  <2>7. QED
    BY <1>2, <2>1, <2>2, <2>6 DEF LookInv, FollowInv, FindsWindow
<1>6. QED
  BY <1>3, <1>4, <1>5

\* The inner loop keeps the search: a window that has ended is compared with the longest.
LEMMA FollowKeeps ==
  ASSUME IInv, TypeOK', Follow PROVE LookInv' /\ FollowInv' /\ FindsWindow'
<1>1. /\ Size \in Nat /\ TypeOK /\ FollowInv /\ pc = "follow"
      /\ search' = search /\ record' = record
      /\ j \in 0..(Size - 1) /\ win.data1 \in 0..j /\ Len(record) = Size
  BY Sizes DEF IInv, TypeOK, Follow, FollowInv, SweepInv
<1>2. /\ Size' = Size /\ Windows' = Windows
      /\ \A i : At(i)' = At(i) /\ Run(i)' = Run(i) /\ Before(i)' = Before(i)
      /\ \A a, b : Pick(a, b)' = Pick(a, b)
  BY <1>1, SameRecord
<1>3. Longest(win.data1) /\ Run(win.data1) /\ (\A i \in win.data1..j : At(i) = 0)
      /\ (win.data1 > 0 => At(win.data1 - 1) = 1)
  BY <1>1 DEF FollowInv
<1>4. win'.data1 = win.data1
  BY <1>1, FollowIs
<1>5. ASSUME pc' = "look", j' = j + 2, win'.data2 = j,
             j + 1 > Size - 1 \/ At(j + 1) = 1
      PROVE  /\ <<win.data1, j>> \in Windows
             /\ Before(j + 2) = Before(win.data1) \cup {<<win.data1, j>>}
             /\ FollowInv' /\ FindsWindow'
             /\ \A w \in Before(j + 2) : w[1] <= win.data1
  <2>1. <<win.data1, j>> \in Windows
        /\ Before(j + 2) = Before(win.data1) \cup {<<win.data1, j>>}
    BY <1>1, <1>5, FollowedIsWindow
  <2>2. FollowInv' /\ FindsWindow'
    BY <1>5 DEF FollowInv, FindsWindow
  <2>3. ASSUME NEW w \in Before(j + 2) PROVE w[1] <= win.data1
    <3>1. CASE w = <<win.data1, j>>
      BY <1>1, <3>1
    <3>2. CASE w \in Before(win.data1)
      BY <1>1, <3>2, WindowIs DEF Before
    <3>3. QED
      BY <2>1, <3>1, <3>2
  <2>4. QED
    BY <2>1, <2>2, <2>3
<1>6. CASE /\ j + 1 <= Size - 1 /\ At(j + 1) # 1 /\ j' = j + 1 /\ pc' = "follow"
           /\ win' = win /\ found' = found
  <2>1. At(j + 1) = 0
    <3>1. j + 1 + 1 \in 1..Len(record)
      BY <1>1, <1>6
    <3>2. record[j + 1 + 1] \in {0, 1}
      BY <1>1, <3>1 DEF TypeOK
    <3>3. QED
      BY <1>6, <3>2 DEF At
  <2>2. \A i \in win.data1..(j + 1) : At(i) = 0
    <3>1. \A i \in win.data1..(j + 1) : i \in win.data1..j \/ i = j + 1
      BY <1>1
    <3>2. QED
      BY <1>3, <2>1, <3>1
  <2>3. Longest(win.data1)'
    BY <1>2, <1>3, <1>6 DEF Longest, Length
  <2>4. win.data1 <= j + 1 /\ j + 1 < Size
    BY <1>1, <1>6
  <2>5. FollowInv'
    BY <1>2, <1>3, <1>6, <2>2, <2>3, <2>4 DEF FollowInv
  <2>6. QED
    BY <1>6, <2>5 DEF LookInv, FindsWindow
<1>7. CASE /\ j + 1 > Size - 1 /\ j' = j + 2 /\ pc' = "look"
           /\ win'.data2 = j /\ win'.flag = win.flag /\ win'.max_len = win.max_len
           /\ found' = Pick(win.data1, j)
  <2>1. /\ <<win.data1, j>> \in Windows /\ FollowInv' /\ FindsWindow'
        /\ \A w \in Before(j + 2) : w[1] <= win.data1
    BY <1>5, <1>7
  <2>2. j = Size - 1 /\ j + 2 > Size
    BY <1>1, <1>7
  <2>3. \A w \in Windows : w \in Before(j + 2)
    BY <1>1, <2>2, WindowIs DEF Before
  <2>4. LookInv'
    BY <1>2, <1>4, <1>7, <2>1, <2>2, <2>3 DEF LookInv
  <2>5. QED
    BY <2>1, <2>4
<1>8. CASE j + 1 <= Size - 1 /\ At(j + 1) = 1 /\ j' = j + 2 /\ pc' = "look" /\ win'.data2 = j
  <2>1. /\ <<win.data1, j>> \in Windows /\ FollowInv' /\ FindsWindow'
        /\ Before(j + 2) = Before(win.data1) \cup {<<win.data1, j>>}
        /\ \A w \in Before(j + 2) : w[1] <= win.data1
    BY <1>5, <1>8
  <2>2. j + 2 <= Size
    BY <1>1, <1>8
  <2>3. LastSeen(j)'
    <3>1. Before(j + 2) # {}
      BY <2>1
    <3>2. Before(j)' = Before(j + 2)
      BY <1>2, <1>8 DEF Before
    <3>3. <<win'.data1, win'.data2>> \in Windows' /\ \A w \in Before(j)' : w[1] <= win'.data1
      BY <1>2, <1>4, <1>8, <2>1, <3>2
    <3>4. QED
      BY <3>1, <3>2, <3>3 DEF LastSeen
  <2>4. StretchStarts(j)'
    <3>1. (j + 2) - 1 = j + 1
      BY <1>1
    <3>2. QED
      BY <1>2, <1>8, <3>1 DEF StretchStarts
  <2>5. PICK x \in Windows : x = <<win.data1, j>>
    BY <2>1
  <2>6. x[1] = win.data1 /\ x[2] = j /\ Length(x) = j - win.data1 + 1 /\ x[2] # Size - 1
    BY <1>1, <1>8, <2>5 DEF Length
  <2>7. \A w \in Before(j + 2) : w[2] # Size - 1
    BY <1>3, <2>1, <2>5, <2>6 DEF Longest
  <2>8. \A w \in Before(win.data1) : Length(w) \in Int /\ w[1] \in Int /\ w[1] < win.data1
    BY <1>1, WindowIs DEF Before, Length
  <2>9. CASE /\ ~win.flag \/ j + 1 - win.data1 > win.max_len
             /\ win'.flag /\ win'.max_len = j + 1 - win.data1
             /\ found' = Pick(win.data1, j)
    <3>1. ASSUME NEW w \in Before(j + 2)
          PROVE  Length(x) > Length(w) \/ (Length(x) = Length(w) /\ x[1] <= w[1])
      <4>1. CASE w = x
        BY <1>1, <2>6, <4>1
      <4>2. CASE w \in Before(win.data1)
        <5>1. win.flag
          BY <1>3, <4>2 DEF Longest
        <5>2. PICK v \in Before(win.data1) :
                /\ win.max_len = Length(v)
                /\ \A u \in Before(win.data1) :
                     Length(v) > Length(u) \/ (Length(v) = Length(u) /\ v[1] <= u[1])
          BY <1>3, <4>2 DEF Longest
        <5>3. Length(x) > Length(v)
          BY <1>1, <2>6, <2>8, <2>9, <5>1, <5>2
        <5>4. Length(v) >= Length(w)
          BY <2>8, <4>2, <5>2
        <5>5. QED
          BY <1>1, <2>6, <2>8, <4>2, <5>3, <5>4
      <4>3. QED
        BY <2>1, <2>5, <4>1, <4>2
    <3>2. x \in Before(j + 2) /\ win'.max_len = Length(x) /\ found' = Pick(x[1], x[2])
      BY <1>1, <2>1, <2>5, <2>6, <2>9
    <3>3. Longest(j)'
      BY <1>2, <1>8, <2>7, <2>9, <3>1, <3>2 DEF Longest, Length
    <3>4. QED
      BY <1>2, <1>8, <2>1, <2>2, <2>3, <2>4, <3>3 DEF LookInv
  <2>10. CASE /\ win.flag /\ ~(j + 1 - win.data1 > win.max_len)
              /\ win'.flag = win.flag /\ win'.max_len = win.max_len /\ found' = found
    <3>1. Before(win.data1) # {}
      BY <1>3, <2>10 DEF Longest
    <3>2. PICK v \in Before(win.data1) :
            /\ win.max_len = Length(v) /\ found = Pick(v[1], v[2])
            /\ \A u \in Before(win.data1) :
                 Length(v) > Length(u) \/ (Length(v) = Length(u) /\ v[1] <= u[1])
      BY <1>3, <3>1 DEF Longest
    <3>3. ASSUME NEW w \in Before(j + 2)
          PROVE  Length(v) > Length(w) \/ (Length(v) = Length(w) /\ v[1] <= w[1])
      <4>1. CASE w = x
        <5>1. Length(v) >= Length(x) /\ v[1] <= x[1]
          BY <1>1, <2>6, <2>8, <2>10, <3>2
        <5>2. Length(v) \in Int /\ Length(x) \in Int
          BY <1>1, <2>6, <2>8, <3>2
        <5>3. QED
          BY <4>1, <5>1, <5>2
      <4>2. QED
        BY <2>1, <2>5, <3>2, <4>1
    <3>4. v \in Before(j + 2)
      BY <2>1
    <3>5. Longest(j)'
      BY <1>2, <1>8, <2>7, <2>10, <3>2, <3>3, <3>4 DEF Longest, Length
    <3>6. QED
      BY <1>2, <1>8, <2>1, <2>2, <2>3, <2>4, <3>5 DEF LookInv
  <2>11. QED
    BY <1>1, <1>8, <2>9, <2>10, FollowIs
<1>9. QED
  BY <1>1, <1>6, <1>7, <1>8, FollowIs

\* What is programmed after the search.
LEMMA ApplyKeeps ==
  ASSUME IInv, TypeOK', ApplyData \/ ApplyGate
  PROVE  LookInv' /\ FollowInv' /\ FindsWindow' /\ ProgramsWorkingDelay' /\ LateGateIsReduced'
<1>1. /\ Size \in Nat /\ TypeOK /\ FindsWindow /\ pc = "apply" /\ pc' = "done"
      /\ search' = search /\ record' = record /\ found' = found
  BY Sizes DEF IInv, TypeOK, ApplyData, ApplyGate
<1>2. /\ Size' = Size /\ Windows' = Windows
      /\ \A i : At(i)' = At(i) /\ Run(i)' = Run(i) /\ Before(i)' = Before(i)
      /\ \A a, b : Pick(a, b)' = Pick(a, b)
  BY <1>1, SameRecord
<1>3. LookInv' /\ FollowInv'
  BY <1>1 DEF LookInv, FollowInv
<1>4. FindsWindow'
  BY <1>1, <1>2 DEF FindsWindow, Better, Length
<1>5. ProgramsWorkingDelay'
  <2>1. SUFFICES ASSUME search = "data"
                 PROVE  set'.fine = Standard \/ (set'.fine \in Lo..Hi /\ At(set'.fine) = 0)
    <3>1. At(set.fine)' = record[set'.fine + 1] /\ At(set'.fine) = record[set'.fine + 1]
      BY <1>1 DEF At
    <3>2. QED
      BY <1>1, <3>1 DEF ProgramsWorkingDelay
  <2>2. set'.fine = IF found < Lo \/ found > Hi THEN Standard ELSE found
    BY <2>1 DEF ApplyData, ApplyGate
  <2>3. CASE Windows = {}
    <3>1. found = 0
      BY <1>1, <2>1, <2>3 DEF FindsWindow
    <3>2. QED
      BY <2>2, <3>1, LimitAssumption
  <2>4. CASE Windows # {}
    <3>1. PICK v \in Windows : found = Pick(v[1], v[2])
      BY <1>1, <2>4 DEF FindsWindow
    <3>2. /\ v[1] \in 0..(Size - 1) /\ v[2] \in 0..(Size - 1) /\ v[1] <= v[2]
          /\ \A i \in v[1]..v[2] : At(i) = 0
      BY <1>1, WindowIs
    <3>3. found \in v[1]..v[2]
      BY <1>1, <2>1, <3>1, <3>2 DEF Pick
    <3>4. At(found) = 0 /\ found \in Int
      BY <1>1, <3>2, <3>3
    <3>5. QED
      BY <2>2, <3>4, LimitAssumption
  <2>5. QED
    BY <2>3, <2>4
<1>6. LateGateIsReduced'
  <2>1. SUFFICES ASSUME search = "gate", found \div Fine >= 2
                 PROVE  DelayOf(set'.coarse, set'.fine)
                          = DelayOf(found \div Fine, found % Fine) - 3 * Quarter
    BY <1>1 DEF LateGateIsReduced, DelayOf
  <2>2. Coarse * Fine \in Nat /\ Fine \in Nat \ {0} /\ Modulus \in Nat /\ Modulus > Coarse * Fine
    <3>1. Coarse * Fine \in Nat /\ (Fine = 0 => Coarse * Fine = 0)
      BY SizeAssumption
    <3>2. QED
      BY <3>1, SizeAssumption, ModulusAssumption
  <2>3. found # NotFound
    <3>1. (-1) \div Fine = -1
      BY <2>2
    <3>2. QED
      BY <2>1, <3>1 DEF NotFound
  <2>4. found \in 0..(Size - 1) /\ Size = Coarse * Fine
    BY <1>1, <2>1, <2>3 DEF TypeOK, NotFound, Size
  <2> DEFINE c == found \div Fine
             f == found % Fine
             q == Quarter
  <2>5. q \in Nat /\ Fine = 4 * q /\ Fine \div 2 = 2 * q
    BY <2>2, SizeAssumption DEF Quarter
  <2>6. c \in Nat /\ f \in 0..(Fine - 1) /\ c <= found /\ c >= 2
    BY <2>1, <2>2, <2>4
  <2>7. (c - 1) % Modulus = c - 1 /\ (c - 2) % Modulus = c - 2
    BY <2>2, <2>4, <2>6
  <2>8. \/ set'.coarse = (c - 1) % Modulus /\ set'.fine = f - q
        \/ set'.coarse = (c - 2) % Modulus /\ set'.fine = f + q
    BY <2>1, <2>3 DEF ApplyData, ApplyGate, Last
  <2> HIDE DEF c, f, q
  <2>9. (c - 1) * (2 * q) = c * (2 * q) - 2 * q /\ (c - 2) * (2 * q) = c * (2 * q) - 4 * q
        /\ c * (2 * q) \in Int
    BY <2>5, <2>6
  <2>10. DelayOf(set'.coarse, set'.fine) = DelayOf(c, f) - 3 * q
    <3>1. f \in Int
      BY <2>2, <2>6
    <3>2. CASE set'.coarse = c - 1 /\ set'.fine = f - q
      BY <2>5, <2>9, <3>1, <3>2 DEF DelayOf
    <3>3. CASE set'.coarse = c - 2 /\ set'.fine = f + q
      BY <2>5, <2>9, <3>1, <3>3 DEF DelayOf
    <3>4. QED
      BY <2>7, <2>8, <3>2, <3>3
  <2>11. QED
    BY <2>10 DEF c, f, q
<1>7. QED
  BY <1>3, <1>4, <1>5, <1>6

-----------------------------------------------------------------------------
(***************************************************************************)
(* Theorems.                                                               *)
(***************************************************************************)
\* The two loops keep the longest window seen so far, and where they stand, whatever the
\* record.
THEOREM Invariant == Spec => []IInv
<1>1. Init => IInv
  <2>1. SUFFICES ASSUME Init PROVE IInv
    OBVIOUS
  <2>2. Size \in Nat /\ Size > 0 /\ search \in {"data", "gate"} /\ Modulus \in Nat \ {0}
    <3>1. Coarse * Fine \in Nat
      BY SizeAssumption
    <3>2. QED
      BY <2>1, <3>1, Sizes, ModulusAssumption DEF Init
  <2>3. win \in [max_len : 0..Size, flag : BOOLEAN, data1 : 0..(Size - 1),
                 data2 : 0..(Size - 1)]
    BY <2>1, <2>2 DEF Init
  <2>4. set \in [coarse : 0..(Modulus - 1), fine : NotFound..(Delays + Fine)]
    BY <2>1, <2>2, SizeAssumption DEF Init, NotSet, NotFound
  <2>5. record \in Seq({0, 1}) /\ Len(record) = 0
    BY <2>1 DEF Init
  <2>6. TypeOK
    BY <2>1, <2>2, <2>3, <2>4, <2>5 DEF Init, TypeOK, NotFound
  <2>7. SweepInv
    BY <2>1, <2>2, <2>5 DEF Init, SweepInv
  <2>8. QED
    BY <2>1, <2>6, <2>7
       DEF Init, IInv, LookInv, FollowInv, FindsWindow, ProgramsWorkingDelay, LateGateIsReduced
<1>2. IInv /\ [Next]_vars => IInv'
  <2>1. SUFFICES ASSUME IInv, [Next]_vars PROVE IInv'
    OBVIOUS
  <2>2. TypeOK' /\ TypeOK /\ Size \in Nat /\ MinRun \in Nat \ {0} /\ MinRun <= Size /\ Size > 0
    BY <2>1, TypesKept, Sizes, SizeAssumption DEF IInv, TypeOK
  <2>3. CASE Sweep
    <3>1. /\ search' = search /\ Size' = Size /\ j' = j /\ win' = win /\ found' = found
          /\ j = 0 /\ found = NotFound /\ ~win.flag /\ win.data1 = 0 /\ win.data2 = 0
          /\ pc' = IF Len(record') = Size THEN "look" ELSE "sweep"
      BY <2>1, <2>3 DEF Sweep, Size, IInv, SweepInv
    <3>2. PICK flag \in {0, 1} : record' = Append(record, flag)
      BY <2>3 DEF Sweep
    <3>3. Len(record') = Len(record) + 1 /\ Len(record) < Size /\ Len(record) \in Nat
      BY <2>1, <2>2, <2>3, <3>2 DEF IInv, TypeOK, Sweep, SweepInv
    <3>4. SweepInv'
      BY <2>2, <3>1, <3>3 DEF SweepInv
    <3>5. LookInv'
      <4>1. Before(0)' = {}
        <5>1. ASSUME NEW w \in Windows' PROVE ~(w[1] < 0)
          <6>1. w \in (0..(Size - 1)) \X (0..(Size - 1))
            BY <3>1 DEF Windows
          <6>2. w[1] \in 0..(Size - 1)
            BY <6>1
          <6>3. QED
            BY <2>2, <6>2
        <5>2. QED
          BY <5>1 DEF Before
      <4>2. QED
        BY <2>2, <3>1, <4>1 DEF LookInv, Longest, LastSeen, StretchStarts
    <3>6. QED
      BY <2>2, <3>1, <3>4, <3>5
         DEF IInv, FollowInv, FindsWindow, ProgramsWorkingDelay, LateGateIsReduced
  <2>4. CASE Look
    <3>1. SweepInv' /\ ProgramsWorkingDelay' /\ LateGateIsReduced'
      BY <2>1, <2>4 DEF Look, IInv, SweepInv, ProgramsWorkingDelay, LateGateIsReduced, Size
    <3>2. QED
      BY <2>1, <2>2, <2>4, <3>1, LookKeeps DEF IInv
  <2>5. CASE Follow
    <3>1. pc' \in {"look", "follow"} /\ pc = "follow"
      BY <2>2, <2>5, FollowIs DEF Follow
    <3>2. SweepInv' /\ ProgramsWorkingDelay' /\ LateGateIsReduced'
      BY <2>1, <2>5, <3>1
         DEF Follow, IInv, SweepInv, ProgramsWorkingDelay, LateGateIsReduced, Size
    <3>3. QED
      BY <2>1, <2>2, <2>5, <3>2, FollowKeeps DEF IInv
  <2>6. CASE ApplyData \/ ApplyGate
    <3>1. SweepInv'
      BY <2>1, <2>6 DEF ApplyData, ApplyGate, IInv, SweepInv, Size
    <3>2. QED
      BY <2>1, <2>2, <2>6, <3>1, ApplyKeeps DEF IInv
  <2>7. CASE UNCHANGED vars
    <3>1. /\ search' = search /\ record' = record /\ j' = j /\ win' = win /\ found' = found
          /\ set' = set /\ pc' = pc
      BY <2>7 DEF vars
    <3>2. /\ Size' = Size /\ Windows' = Windows
          /\ \A i : At(i)' = At(i) /\ Run(i)' = Run(i) /\ Before(i)' = Before(i)
          /\ \A a, b : Pick(a, b)' = Pick(a, b)
      BY <3>1, SameRecord
    <3>3. SweepInv' /\ FollowInv' /\ FindsWindow'
      BY <2>1, <3>1, <3>2
         DEF IInv, SweepInv, FollowInv, FindsWindow, Longest, Length, Better
    <3>4. LookInv'
      BY <2>1, <3>1, <3>2 DEF IInv, LookInv, Longest, LastSeen, StretchStarts, Length
    <3>5. ProgramsWorkingDelay' /\ LateGateIsReduced'
      BY <2>1, <3>1 DEF IInv, ProgramsWorkingDelay, LateGateIsReduced, At, DelayOf
    <3>6. QED
      BY <2>2, <3>3, <3>4, <3>5 DEF IInv
  <2>8. QED
    BY <2>1, <2>3, <2>4, <2>5, <2>6, <2>7 DEF Next, Done
<1>3. QED
  BY <1>1, <1>2, PTL DEF Spec

\* The loops find what they are to find in every record: the longest window, of these the
\* first, and one at the end of the record before all others.
THEOREM WindowIsFound == Spec => []FindsWindow
<1>1. IInv => FindsWindow
  BY DEF IInv
<1>2. QED
  BY <1>1, Invariant, PTL

\* Variables keep their types, the loops never look behind the record, a data delay that
\* is programmed works or is the standard one, and a gate is 3/4 clock early.
THEOREM WorkingDelayIsSet == Spec => []Safety
<1>1. IInv => Safety
  BY DEF IInv, Safety
<1>2. QED
  BY <1>1, Invariant, PTL
=============================================================================
