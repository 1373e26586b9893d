---------------------------- MODULE MmcPartProofs ----------------------------
(***************************************************************************)
(* Theorems about MmcPart: the driver's copy of the open partition, where  *)
(* writes and erases end up, and that the block layer is a flat device.    *)
(***************************************************************************)
EXTENDS MmcPart, TLAPS

-----------------------------------------------------------------------------
(***************************************************************************)
(* The inductive invariant.                                                *)
(***************************************************************************)

\* A card without partitions has the user area open, and card and driver agree on
\* whether it has them.
NoParts ==
  /\ card.enable = "MMCPART_NOAVAILABLE" <=> host.enable = "MMCPART_NOAVAILABLE"
  /\ ~HasParts => host.part_num = "PART_USER" /\ card.access = "PART_USER"

\* The boot partition that the driver has opened is the one that is booted from.
OpenIsBooted == doubt = "none" /\ card.access \in BootPart => card.enable = card.access

\* A block_write has written the blocks behind it, in the partition that is still open.
WriteInv ==
  job.op = "write" =>
    /\ job.base <= job.start /\ job.start + job.todo = job.base + job.cnt
    /\ \A b \in Block : job.base <= b /\ b < job.start => store[card.access][b] = ops
    /\ doubt = "none" /\ InBoot(job.base, job.cnt) /\ HasParts => card.access \in BootPart

\* The blocks of partition p from a on and before b are erased.
ErasedUpTo(p, a, b) == \A x \in Block : a <= x /\ x < b => store[p][x] = Erased

\* A flashex_erase that starts behind block 0 stays in the user area.
EraseUserInv ==
  job.op = "erase" /\ job.base # 0 =>
    /\ card.access = "PART_USER" /\ job.rest = 0
    /\ job.base <= job.start /\ job.start + job.todo = job.base + job.cnt
    /\ ErasedUpTo("PART_USER", job.base, job.start)

\* One from block 0 first erases the partition that is booted from and remembers in
\* job.rest what is left for the user area.
BootPhase ==
  /\ card.access = host.enable /\ job.start + job.todo + job.rest = job.cnt
  /\ job.rest > 0 => job.start + job.todo = BootBlks
  /\ ErasedUpTo(host.enable, 0, job.start)
UserPhase ==
  /\ job.rest = 0 /\ job.start + job.todo = job.cnt - BootBlks
  /\ ErasedUpTo(host.enable, 0, BootBlks)
  /\ doubt = "bypass" => /\ card.access = "PART_USER"
                         /\ ErasedUpTo("PART_USER", 0, job.start)
EraseBootInv ==
  job.op = "erase" /\ job.base = 0 =>
    host.enable \in BootPart /\ (BootPhase \/ UserPhase)

IInv == /\ TypeOK /\ PartNumIsOpen /\ NoParts /\ OpenIsBooted
        /\ WriteInv /\ EraseUserInv /\ EraseBootInv

-----------------------------------------------------------------------------
(***************************************************************************)
(* Lemmas about the operators.                                             *)
(***************************************************************************)
Card == [access : Part, enable : Enable]
Host == [part_num : Part, enable : Enable]
Outcome == [card : Card, host : Host, ok : BOOLEAN]

\* The boot bits after partition p was opened.
EnableAfter(h, p) == IF p \in BootPart THEN p ELSE h.enable

\* The outcomes of mmc_switch_partition: no command was sent, the partition is open and
\* the copy right, or a switch was given up.
Unswitched(r, c, h) == r.card = c /\ r.host = h
Opened(r, h, p) ==
  /\ r.ok /\ h.enable # "MMCPART_NOAVAILABLE"
  /\ r.card = [access |-> p, enable |-> EnableAfter(h, p)]
  /\ r.host = [part_num |-> p, enable |-> EnableAfter(h, p)]
GivenUp(r, h) ==
  /\ ~r.ok /\ SwitchFaults /\ r.host = h
  /\ h.enable # "MMCPART_NOAVAILABLE" /\ r.card.enable # "MMCPART_NOAVAILABLE"

\* mmc_switch_part leaves the copy alone; if it succeeds the partition is open, and
\* booted from if it is a boot partition.
LEMMA SwitchPart ==
  ASSUME NEW c \in Card, NEW h \in Host, NEW p \in Part, NEW r \in mmc_switch_part(c, h, p)
  PROVE  /\ r \in Outcome
         /\ r.ok => /\ r.card = [access |-> p, enable |-> EnableAfter(h, p)]
                    /\ r.host = [part_num |-> h.part_num, enable |-> EnableAfter(h, p)]
         /\ ~r.ok => /\ SwitchFaults /\ r.host = h
                     /\ r.card \in {c, [access |-> p, enable |-> EnableAfter(h, p)]}
<1> DEFINE done == [access |-> p, enable |-> EnableAfter(h, p)]
           host2 == IF p \in BootPart THEN [h EXCEPT !.enable = p] ELSE h
<1>1. done \in Card /\ host2 \in Host
  BY DEF Card, Host, Part, Enable, BootPart, EnableAfter
<1>2. host2 = [part_num |-> h.part_num, enable |-> EnableAfter(h, p)]
  BY DEF Host, EnableAfter
<1>3. \/ r = Kept(done, host2, TRUE)
      \/ SwitchFaults /\ (r = Kept(c, h, FALSE) \/ r = Kept(done, h, FALSE))
  BY DEF mmc_switch_part, EnableAfter
<1> HIDE DEF done, host2
<1>4. CASE r = Kept(done, host2, TRUE)
  <2>1. r.ok /\ r.card = done /\ r.host = host2 /\ r \in Outcome
    BY <1>1, <1>4 DEF Kept, Outcome
  <2>2. QED BY <1>2, <2>1 DEF done
<1>5. CASE SwitchFaults /\ (r = Kept(c, h, FALSE) \/ r = Kept(done, h, FALSE))
  <2>1. PICK x \in {c, done} : r = Kept(x, h, FALSE)
    BY <1>5
  <2>2. x \in Card
    BY <1>1
  <2>3. ~r.ok /\ r.card = x /\ r.host = h /\ r \in Outcome
    BY <2>1, <2>2 DEF Kept, Outcome
  <2>4. QED BY <1>5, <2>3 DEF done
<1>6. QED BY <1>3, <1>4, <1>5

\* mmc_switch_partition keeps the copy right unless it gives up.
LEMMA SwitchPartition ==
  ASSUME NEW c \in Card, NEW h \in Host, NEW p \in Part,
         NEW r \in mmc_switch_partition(c, h, p),
         (c.enable = "MMCPART_NOAVAILABLE") <=> (h.enable = "MMCPART_NOAVAILABLE")
  PROVE  /\ r \in Outcome
         /\ \/ /\ Unswitched(r, c, h)
               /\ (r.ok => p = h.part_num) /\ (~r.ok => h.enable = "MMCPART_NOAVAILABLE")
            \/ Opened(r, h, p) /\ p # h.part_num
            \/ GivenUp(r, h)
<1>1. CASE h.enable = "MMCPART_NOAVAILABLE"
  <2>1. r = Kept(c, h, FALSE)
    BY <1>1 DEF mmc_switch_partition
  <2>2. QED BY <1>1, <2>1 DEF Kept, Outcome, Unswitched
<1>2. CASE h.enable # "MMCPART_NOAVAILABLE" /\ p = h.part_num
  <2>1. r = Kept(c, h, TRUE)
    BY <1>2 DEF mmc_switch_partition
  <2>2. QED BY <1>2, <2>1 DEF Kept, Outcome, Unswitched
<1>3. CASE h.enable # "MMCPART_NOAVAILABLE" /\ p # h.part_num
  <2>1. PICK q \in mmc_switch_part(c, h, p) :
          r = IF q.ok THEN [q EXCEPT !.host.part_num = p] ELSE q
    BY <1>3 DEF mmc_switch_partition
  <2>2. q \in Outcome
    BY SwitchPart
  <2>3. CASE q.ok
    <3>1. /\ q.card = [access |-> p, enable |-> EnableAfter(h, p)]
          /\ q.host = [part_num |-> h.part_num, enable |-> EnableAfter(h, p)]
      BY <2>3, SwitchPart
    <3>2. r = [q EXCEPT !.host = [part_num |-> p, enable |-> EnableAfter(h, p)]]
      BY <2>1, <2>3, <3>1
    <3>3. r.host \in Host
      BY <2>2, <3>1, <3>2 DEF Outcome, Host
    <3>4. QED
      BY <1>3, <2>2, <2>3, <3>1, <3>2, <3>3 DEF Opened, Outcome
  <2>4. CASE ~q.ok
    <3>1. /\ SwitchFaults /\ q.host = h
          /\ q.card \in {c, [access |-> p, enable |-> EnableAfter(h, p)]}
      BY <2>4, SwitchPart
    <3>2. EnableAfter(h, p) # "MMCPART_NOAVAILABLE"
      BY <1>3 DEF EnableAfter, BootPart
    <3>3. q.card.enable # "MMCPART_NOAVAILABLE"
      BY <1>3, <3>1, <3>2
    <3>4. QED
      BY <1>3, <2>1, <2>2, <2>4, <3>1, <3>3 DEF GivenUp
  <2>5. QED BY <2>3, <2>4
<1>4. QED BY <1>1, <1>2, <1>3

\* What mmc_bwrite and mmc_bread find after they have chosen the partition.
LEMMA RouteOutcome ==
  ASSUME card \in Card, host \in Host, NEW a, NEW n, NEW r \in Route(a, n),
         (card.enable = "MMCPART_NOAVAILABLE") <=> (host.enable = "MMCPART_NOAVAILABLE")
  PROVE  /\ r \in Outcome
         /\ \/ /\ Unswitched(r, card, host)
               /\ r.ok => (InBoot(a, n) <=> host.part_num # "PART_USER")
               /\ ~r.ok => ~HasParts
            \/ \E p \in Part : /\ Opened(r, host, p)
                               /\ InBoot(a, n) <=> p # "PART_USER"
                               /\ p = "PART_BOOT_2" => SwitchFaults
            \/ GivenUp(r, host)
<1>1. CASE ~InBoot(a, n) /\ host.part_num = "PART_USER"
  <2>1. r = Kept(card, host, TRUE)
    BY <1>1 DEF Route
  <2>2. QED BY <1>1, <2>1 DEF Kept, Outcome, Unswitched
<1>2. CASE ~InBoot(a, n) /\ host.part_num # "PART_USER"
  <2>1. r \in mmc_switch_partition(card, host, "PART_USER") /\ "PART_USER" \in Part
    BY <1>2 DEF Route, Part
  <2>2. /\ r \in Outcome
        /\ \/ /\ Unswitched(r, card, host)
              /\ ~r.ok /\ ~HasParts
           \/ Opened(r, host, "PART_USER")
           \/ GivenUp(r, host)
    BY <1>2, <2>1, SwitchPartition DEF HasParts
  <2>3. QED BY <1>2, <2>1, <2>2
<1>3. CASE InBoot(a, n) /\ host.part_num # "PART_USER"
  <2>1. r = Kept(card, host, TRUE)
    BY <1>3 DEF Route
  <2>2. QED BY <1>3, <2>1 DEF Kept, Outcome, Unswitched
<1>4. CASE InBoot(a, n) /\ host.part_num = "PART_USER"
  <2>1. PICK q \in mmc_switch_partition(card, host, "PART_BOOT_1") :
          r \in IF q.ok THEN {q} ELSE mmc_switch_partition(q.card, q.host, "PART_BOOT_2")
    BY <1>4 DEF Route
  <2>2. /\ q \in Outcome
        /\ \/ Unswitched(q, card, host) /\ ~q.ok /\ ~HasParts
           \/ Opened(q, host, "PART_BOOT_1")
           \/ GivenUp(q, host)
    <3>1. "PART_BOOT_1" \in Part /\ "PART_BOOT_1" # host.part_num
      BY <1>4 DEF Part, BootPart
    <3>2. QED BY <3>1, SwitchPartition DEF HasParts
  <2>3. CASE q.ok
    <3>1. r = q /\ Opened(q, host, "PART_BOOT_1")
      BY <2>1, <2>2, <2>3 DEF GivenUp
    <3>2. QED BY <1>4, <2>2, <3>1 DEF Part, BootPart
  <2>4. CASE ~q.ok
    <3>1. /\ q.card \in Card /\ q.host = host
          /\ (q.card.enable = "MMCPART_NOAVAILABLE") <=> (host.enable = "MMCPART_NOAVAILABLE")
          /\ HasParts => SwitchFaults
          /\ ~HasParts => q.card = card
      BY <2>2, <2>4 DEF Outcome, Opened, GivenUp, Unswitched, HasParts
    <3>2. r \in mmc_switch_partition(q.card, host, "PART_BOOT_2")
      BY <2>1, <2>4, <3>1
    <3>3. "PART_BOOT_2" \in Part /\ "PART_BOOT_2" # host.part_num
      BY <1>4 DEF Part, BootPart
    <3>4. /\ r \in Outcome
          /\ \/ Unswitched(r, q.card, host) /\ ~r.ok /\ ~HasParts
             \/ Opened(r, host, "PART_BOOT_2")
             \/ GivenUp(r, host)
      BY <3>1, <3>2, <3>3, SwitchPartition DEF HasParts
    <3>5. CASE Unswitched(r, q.card, host) /\ ~r.ok /\ ~HasParts
      BY <3>1, <3>4, <3>5 DEF Unswitched
    <3>6. CASE Opened(r, host, "PART_BOOT_2")
      BY <1>4, <3>1, <3>3, <3>4, <3>6 DEF Opened, HasParts
    <3>7. QED BY <3>4, <3>5, <3>6
  <2>5. QED BY <2>3, <2>4
<1>5. QED BY <1>1, <1>2, <1>3, <1>4

-----------------------------------------------------------------------------
(***************************************************************************)
(* Switches keep what is known of the open partition.                      *)
(***************************************************************************)
OpenInv == /\ card \in Card /\ host \in Host /\ doubt \in {"none", "bypass", "failed"}
           /\ PartNumIsOpen /\ NoParts /\ OpenIsBooted

\* The switch of mmc_bwrite and mmc_bread.  Unless it is in doubt, blocks of the boot
\* partition find one open.
LEMMA RouteKeeps ==
  ASSUME OpenInv, NEW a, NEW n, NEW r \in Route(a, n), Switched(r, Settled(r))
  PROVE  /\ OpenInv'
         /\ doubt' = "none" /\ InBoot(a, n) /\ HasParts' => card'.access \in BootPart
<1> USE DEF OpenInv, Switched
<1>1. /\ r \in Outcome /\ card' = r.card /\ host' = r.host
      /\ \/ /\ Unswitched(r, card, host)
            /\ r.ok => (InBoot(a, n) <=> host.part_num # "PART_USER")
            /\ ~r.ok => ~HasParts
         \/ \E p \in Part : Opened(r, host, p) /\ (InBoot(a, n) <=> p # "PART_USER")
         \/ GivenUp(r, host)
  BY RouteOutcome DEF NoParts
<1>2. card' \in Card /\ host' \in Host
  BY <1>1 DEF Outcome
<1>3. CASE /\ Unswitched(r, card, host)
           /\ r.ok => (InBoot(a, n) <=> host.part_num # "PART_USER")
           /\ ~r.ok => ~HasParts
  <2>1. UNCHANGED <<card, host, doubt>>
    BY <1>1, <1>3 DEF Unswitched, Settled
  <2>2. OpenInv'
    BY <2>1 DEF PartNumIsOpen, NoParts, OpenIsBooted, HasParts
  <2>3. ASSUME doubt' = "none", InBoot(a, n), HasParts'
        PROVE  card'.access \in BootPart
    <3>1. host.part_num = card.access /\ host.part_num # "PART_USER"
      BY <1>3, <2>1, <2>3 DEF PartNumIsOpen, HasParts
    <3>2. QED BY <2>1, <3>1 DEF Card, Part
  <2>4. QED BY <2>2, <2>3
<1>4. ASSUME NEW p \in Part, Opened(r, host, p), InBoot(a, n) <=> p # "PART_USER"
      PROVE  /\ OpenInv'
             /\ doubt' = "none" /\ InBoot(a, n) /\ HasParts' => card'.access \in BootPart
  <2>1. /\ card' = [access |-> p, enable |-> EnableAfter(host, p)]
        /\ host' = [part_num |-> p, enable |-> EnableAfter(host, p)]
        /\ doubt' \in {doubt, "none"} /\ HasParts
    BY <1>1, <1>4 DEF Opened, Settled, HasParts
  <2>2. EnableAfter(host, p) # "MMCPART_NOAVAILABLE"
    BY <2>1 DEF EnableAfter, BootPart, HasParts
  <2>3. PartNumIsOpen' /\ NoParts' /\ OpenIsBooted'
    BY <2>1, <2>2 DEF PartNumIsOpen, NoParts, OpenIsBooted, HasParts, EnableAfter
  <2>4. QED
    BY <1>2, <1>4, <2>1, <2>3 DEF Part
<1>5. CASE GivenUp(r, host)
  <2>1. doubt' = "failed" /\ host' = host /\ HasParts
        /\ card'.enable # "MMCPART_NOAVAILABLE"
    BY <1>1, <1>5 DEF GivenUp, HasParts
  <2>2. QED
    BY <1>2, <2>1 DEF PartNumIsOpen, NoParts, OpenIsBooted, HasParts
<1>6. QED BY <1>1, <1>3, <1>4, <1>5

\* The switches of flashex_erase, to the partition that is booted from or to the user area.
LEMMA BypassKeeps ==
  ASSUME OpenInv, NEW p \in Part, p = "PART_USER" \/ p = host.enable,
         NEW r \in mmc_switch_part(card, host, p), Switched(r, "bypass")
  PROVE  /\ OpenInv' /\ host' = host
         /\ r.ok => card'.access = p /\ doubt' = "bypass"
         /\ ~r.ok /\ HasParts => doubt' = "failed"
<1> USE DEF OpenInv, Switched
<1>1. /\ r \in Outcome /\ card' = r.card /\ host' = r.host
      /\ r.ok => /\ r.card = [access |-> p, enable |-> EnableAfter(host, p)]
                 /\ r.host = [part_num |-> host.part_num, enable |-> EnableAfter(host, p)]
      /\ ~r.ok => /\ r.host = host
                  /\ r.card \in {card, [access |-> p, enable |-> EnableAfter(host, p)]}
  BY SwitchPart
<1>2. card' \in Card /\ host' \in Host
  BY <1>1 DEF Outcome
<1>3. EnableAfter(host, p) = host.enable
  BY DEF EnableAfter, BootPart
<1>4. host' = host
  BY <1>1, <1>3 DEF Host
<1>5. CASE r.ok
  <2>1. doubt' = "bypass" /\ card' = [access |-> p, enable |-> host.enable]
    BY <1>1, <1>3, <1>5
  <2>2. ~HasParts => p = "PART_USER"
    BY DEF HasParts, Part, BootPart
  <2>3. QED
    BY <1>2, <1>4, <1>5, <2>1, <2>2 DEF PartNumIsOpen, NoParts, OpenIsBooted, HasParts
<1>6. CASE ~r.ok /\ HasParts
  <2>1. doubt' = "failed" /\ card'.enable # "MMCPART_NOAVAILABLE"
    BY <1>1, <1>3, <1>6 DEF NoParts, HasParts
  <2>2. QED
    BY <1>2, <1>4, <1>6, <2>1 DEF PartNumIsOpen, NoParts, OpenIsBooted, HasParts
<1>7. CASE ~r.ok /\ ~HasParts
  <2>1. p = "PART_USER"
    BY <1>7 DEF HasParts, Part, BootPart
  <2>2. doubt' = doubt /\ card'.access = "PART_USER" /\ card'.enable = host.enable
    BY <1>1, <1>3, <1>7, <2>1 DEF NoParts, HasParts
  <2>3. QED
    BY <1>2, <1>4, <1>7, <2>2 DEF PartNumIsOpen, NoParts, OpenIsBooted, HasParts, BootPart
<1>8. QED BY <1>5, <1>6, <1>7

\* A reset: CMD0 opens the user area.
LEMMA RebootKeeps ==
  ASSUME OpenInv, Reboot
  PROVE  OpenInv'
<1>1. /\ card' = [access |-> "PART_USER", enable |-> card.enable]
      /\ host' = [part_num |-> "PART_USER", enable |-> card.enable] /\ doubt' = "none"
  BY DEF Reboot, OpenInv, Card
<1>2. card' \in Card /\ host' \in Host
  BY <1>1 DEF OpenInv, Card, Host, Part
<1>3. QED
  BY <1>1, <1>2 DEF OpenInv, PartNumIsOpen, NoParts, OpenIsBooted, HasParts, BootPart

-----------------------------------------------------------------------------
(***************************************************************************)
(* Each action keeps the invariant.                                        *)
(***************************************************************************)
LEMMA OpenOfIInv == IInv => OpenInv
BY DEF IInv, TypeOK, OpenInv, Card, Host

\* The part of TypeOK that OpenInv leaves.
RestTyped == /\ store \in [Part -> [Block -> {Erased} \cup 0..MaxOps]]
             /\ job \in Job /\ result.is \in {"none", "ok", "fail"} /\ ops \in 0..MaxOps

\* No call is under way at first.
LEMMA IdleIsTyped == Idle \in Job /\ Idle.op = "idle"
<1>1. <<>> \in Seq(Int)
  OBVIOUS
<1>2. QED BY <1>1 DEF Idle, Job

\* After a step that leaves no write and no flashex_erase under way, the invariant is what
\* OpenInv says of the open partition.
LEMMA WhenIdle ==
  ASSUME OpenInv', RestTyped', job'.op \in {"idle", "read", "block_erase"}
  PROVE  IInv'
<1>1. WriteInv' /\ EraseUserInv' /\ EraseBootInv'
  BY DEF WriteInv, EraseUserInv, EraseBootInv
<1>2. TypeOK'
  BY DEF OpenInv, RestTyped, TypeOK, Card, Host
<1>3. QED BY <1>1, <1>2 DEF IInv, OpenInv

\* mmc_bwrite and mmc_bread.
LEMMA StartKeeps ==
  ASSUME IInv, NEW s \in Spans, NEW op \in {"write", "read"}, Start(op, s)
  PROVE  IInv'
<1> USE DEF Returns
<1>1. PICK r \in Route(s.start, s.cnt) : Switched(r, Settled(r))
  BY DEF Start
<1>2. OpenInv' /\ (doubt' = "none" /\ InBoot(s.start, s.cnt) /\ HasParts'
                     => card'.access \in BootPart)
  BY <1>1, RouteKeeps, OpenOfIInv
<1>3. s.start \in Nat /\ s.cnt \in Nat
  BY SpanAssumption DEF Span
<1>4. store' = store /\ ops' \in 0..MaxOps /\ result'.is \in {"none", "fail"}
  BY OpsAssumption DEF Start, IInv, TypeOK
<1>5. CASE job' = [Idle EXCEPT !.op = op, !.start = s.start, !.todo = s.cnt,
                               !.base = s.start, !.cnt = s.cnt]
  <2>1. /\ job' \in Job /\ job'.op = op /\ job'.start = s.start /\ job'.base = s.start
        /\ job'.todo = s.cnt /\ job'.cnt = s.cnt
    BY <1>3, <1>5, IdleIsTyped DEF Job, Idle
  <2>2. TypeOK'
    BY <1>2, <1>4, <2>1 DEF IInv, TypeOK, OpenInv, Card, Host
  <2>3. WriteInv'
    BY <1>2, <1>3, <2>1 DEF WriteInv, InBoot, Block
  <2>4. EraseUserInv' /\ EraseBootInv'
    BY <2>1 DEF EraseUserInv, EraseBootInv
  <2>5. QED BY <1>2, <2>2, <2>3, <2>4 DEF IInv, OpenInv
<1>6. CASE job' = job
  <2>1. job'.op = "idle" /\ job' \in Job
    BY <1>6 DEF Start, IInv, TypeOK
  <2>2. RestTyped'
    BY <1>4, <2>1 DEF RestTyped, IInv, TypeOK
  <2>3. QED BY <1>2, <2>1, <2>2, WhenIdle
<1>7. QED BY <1>5, <1>6 DEF Start


\* block_erase and a refused mmc_bread change no partition.
LEMMA CallKeeps ==
  ASSUME IInv, NEW s \in Spans \cup RawSpans,
         mmc_breadRefused(s) \/ (s \in RawSpans /\ block_erase(s))
  PROVE  IInv'
<1>1. s.start \in Nat /\ s.cnt \in Nat
  BY SpanAssumption DEF Span
<1>2. /\ UNCHANGED <<card, host, store, doubt>> /\ ops' \in 0..MaxOps
      /\ result'.is \in {"none", "fail"}
  BY OpsAssumption DEF mmc_breadRefused, block_erase, Returns, IInv, TypeOK
<1>3. job' \in Job /\ job'.op \in {"idle", "block_erase"}
  <2>1. CASE mmc_breadRefused(s)
    BY <2>1 DEF mmc_breadRefused, IInv, TypeOK
  <2>2. CASE block_erase(s)
    <3>1. <<>> \in Seq(Int)
      OBVIOUS
    <3>2. QED BY <1>1, <2>2, <3>1 DEF block_erase, EraseJob, Job
  <2>3. QED BY <2>1, <2>2
<1>4. OpenInv'
  BY <1>2, OpenOfIInv DEF OpenInv, PartNumIsOpen, NoParts, OpenIsBooted, HasParts
<1>5. RestTyped'
  BY <1>2, <1>3 DEF RestTyped, IInv, TypeOK
<1>6. QED BY <1>3, <1>4, <1>5, WhenIdle

\* What Put does to the block b of partition p.
LEMMA PutBlocks ==
  ASSUME TypeOK, NEW n \in Nat, NEW v \in {Erased} \cup 0..MaxOps
  PROVE  /\ Put(n, v) \in [Part -> [Block -> {Erased} \cup 0..MaxOps]]
         /\ \A p \in Part, b \in Block :
              Put(n, v)[p][b] = IF p = card.access /\ job.start <= b /\ b < job.start + n
                                THEN v ELSE store[p][b]
BY DEF TypeOK, Put

\* A command moves at most what is left, and all of it if it is the last one.
LEMMA ChunkFits ==
  ASSUME TypeOK
  PROVE  /\ Chunk \in Nat /\ Chunk <= job.todo /\ Chunk <= BMax
         /\ Group \in Nat /\ Group <= job.todo
BY ChunkAssumption DEF TypeOK, Job, Chunk, Group

\* The loop's bookkeeping.
LEMMA DoneJob ==
  ASSUME TypeOK, NEW n \in Nat, n <= job.todo
  PROVE  /\ Done(n) \in Job
         /\ Done(n).op = job.op /\ Done(n).start = job.start + n
         /\ Done(n).todo = job.todo - n /\ Done(n).got = job.got
         /\ Done(n).base = job.base /\ Done(n).cnt = job.cnt /\ Done(n).rest = job.rest
<1>1. /\ job \in Job /\ job.start + n \in Nat /\ job.todo - n \in Nat
  BY DEF TypeOK, Job
<1>2. Done(n) \in Job
  BY <1>1 DEF Job, Done
<1>3. QED BY <1>1 DEF Job, Done

\* The bookkeeping of an erase.
LEMMA EraseJobTyped ==
  ASSUME NEW op \in {"erase", "block_erase"}, NEW a \in Nat, NEW n \in Nat,
         NEW k \in Nat, NEW l \in Nat
  PROVE  EraseJob(op, a, n, k, l) \in Job
<1>1. <<>> \in Seq(Int)
  OBVIOUS
<1>2. QED BY <1>1 DEF EraseJob, Job

\* Actions that end the call.
LEMMA EndKeeps ==
  ASSUME IInv, UNCHANGED <<card, host, ops, doubt>>, job' = Idle,
         store' \in [Part -> [Block -> {Erased} \cup 0..MaxOps]],
         result'.is \in {"none", "ok", "fail"}
  PROVE  IInv'
<1>1. OpenInv'
  BY OpenOfIInv DEF OpenInv, PartNumIsOpen, NoParts, OpenIsBooted, HasParts
<1>2. RestTyped' /\ job'.op = "idle"
  BY IdleIsTyped DEF RestTyped, IInv, TypeOK
<1>3. QED BY <1>1, <1>2, WhenIdle

\* A write command that moves all its blocks.
LEMMA WriteKeeps ==
  ASSUME IInv, mmc_write_blocks
  PROVE  IInv'
<1> USE DEF Returns
<1>1. TypeOK /\ Chunk \in Nat /\ Chunk <= job.todo
  BY ChunkFits DEF IInv
<1>2. ops \in 0..MaxOps
  BY <1>1 DEF TypeOK
<1>3. /\ store' \in [Part -> [Block -> {Erased} \cup 0..MaxOps]]
      /\ \A p \in Part, b \in Block :
           store'[p][b] = IF p = card.access /\ job.start <= b /\ b < job.start + Chunk
                          THEN ops ELSE store[p][b]
  BY <1>1, <1>2, PutBlocks DEF mmc_write_blocks
<1>4. CASE Chunk = job.todo
  BY <1>3, <1>4, EndKeeps DEF mmc_write_blocks
<1>5. CASE Chunk # job.todo
  <2>1. /\ job' \in Job /\ job'.op = "write" /\ job'.start = job.start + Chunk
        /\ job'.todo = job.todo - Chunk /\ job'.base = job.base /\ job'.cnt = job.cnt
    BY <1>1, <1>5, DoneJob DEF mmc_write_blocks
  <2>2. UNCHANGED <<card, host, ops, doubt>> /\ result'.is = "none"
    BY <1>5 DEF mmc_write_blocks
  <2>3. TypeOK'
    BY <1>1, <1>3, <2>1, <2>2 DEF TypeOK
  <2>4. PartNumIsOpen' /\ NoParts' /\ OpenIsBooted'
    BY <2>2 DEF IInv, PartNumIsOpen, NoParts, OpenIsBooted, HasParts
  <2>5. WriteInv'
    <3>1. job.op = "write" /\ job.start \in Nat /\ job.todo \in Nat /\ card.access \in Part
      BY <1>1 DEF mmc_write_blocks, TypeOK, Job
    <3>2. ASSUME NEW b \in Block, job.base <= b, b < job.start + Chunk
          PROVE  store'[card.access][b] = ops
      <4>1. b \in Int
        BY SizeAssumption DEF Block
      <4>2. job.start <= b \/ b < job.start
        BY <3>1, <4>1
      <4>3. CASE job.start <= b
        BY <1>3, <3>1, <3>2, <4>3
      <4>4. CASE b < job.start
        BY <1>1, <1>3, <3>1, <3>2, <4>1, <4>4 DEF IInv, WriteInv
      <4>5. QED BY <4>2, <4>3, <4>4
    <3>3. job.base \in Nat /\ job.cnt \in Nat
      BY <1>1 DEF TypeOK, Job
    <3>4. /\ job.base <= job.start + Chunk
          /\ (job.start + Chunk) + (job.todo - Chunk) = job.base + job.cnt
      BY <1>1, <3>1, <3>3 DEF IInv, WriteInv
    <3>5. doubt = "none" /\ InBoot(job.base, job.cnt) /\ HasParts => card.access \in BootPart
      BY <3>1 DEF IInv, WriteInv
    <3>6. QED BY <2>1, <2>2, <3>2, <3>4, <3>5 DEF WriteInv, InBoot, HasParts
  <2>6. EraseUserInv' /\ EraseBootInv'
    BY <2>1 DEF EraseUserInv, EraseBootInv
  <2>7. QED BY <2>3, <2>4, <2>5, <2>6 DEF IInv
<1>6. QED BY <1>4, <1>5

\* A command that fails, wherever it does, ends the call.
LEMMA FailKeeps ==
  ASSUME IInv, \/ \E k \in 0..BMax : WriteFails(k)
               \/ ReadFails
               \/ EraseFails
  PROVE  IInv'
<1> USE DEF Returns
<1>1. CASE \E k \in 0..BMax : WriteFails(k)
  <2>1. PICK k \in 0..BMax : WriteFails(k)
    BY <1>1
  <2>2. k \in Nat /\ ops \in 0..MaxOps /\ TypeOK
    BY ChunkAssumption DEF IInv, TypeOK
  <2>3. store' \in [Part -> [Block -> {Erased} \cup 0..MaxOps]]
    BY <2>1, <2>2, PutBlocks DEF WriteFails
  <2>4. QED BY <2>1, <2>3, EndKeeps DEF WriteFails
<1>2. CASE ReadFails \/ EraseFails
  <2>1. store' = store /\ result'.is \in {"ok", "fail"}
    BY <1>2 DEF ReadFails, EraseFails
  <2>2. QED BY <1>2, <2>1, EndKeeps DEF ReadFails, EraseFails, IInv, TypeOK
<1>3. QED BY <1>1, <1>2

\* mmc_bread has checked that its range ends with the user area, and a command is
\* carried out by the partition that is open.
LEMMA GotTyped ==
  ASSUME TypeOK, NEW n \in Nat, OnCard(n)
  PROVE  Got(n) \in Seq(Int)
<1> DEFINE blocks == [i \in 1..n |-> store[card.access][job.start + i - 1]]
<1>1. card.access \in Part /\ PartSize(card.access) <= Lba
  BY SizeAssumption DEF TypeOK, PartSize
<1>2. ASSUME NEW i \in 1..n
      PROVE  store[card.access][job.start + i - 1] \in Int
  <2>1. job.start + i - 1 \in Block
    BY <1>1, SizeAssumption DEF TypeOK, Job, OnCard, Block, PartSize
  <2>2. store[card.access][job.start + i - 1] \in {Erased} \cup 0..MaxOps
    BY <1>1, <2>1 DEF TypeOK
  <2>3. QED BY <2>2, OpsAssumption DEF Erased
<1>3. blocks \in Seq(Int)
  BY <1>2
<1>4. job.got \in Seq(Int)
  BY DEF TypeOK, Job
<1>5. QED BY <1>3, <1>4 DEF Got

\* A read command that succeeds.
LEMMA ReadKeeps ==
  ASSUME IInv, mmc_read_blocks
  PROVE  IInv'
<1> USE DEF Returns
<1>1. TypeOK /\ Chunk \in Nat /\ Chunk <= job.todo
  BY ChunkFits DEF IInv
<1>2. store' \in [Part -> [Block -> {Erased} \cup 0..MaxOps]]
  BY <1>1 DEF mmc_read_blocks, TypeOK
<1>3. CASE Chunk = job.todo
  <2>1. result'.is = "ok" /\ job' = Idle
    BY <1>3 DEF mmc_read_blocks
  <2>2. QED BY <1>2, <2>1, EndKeeps DEF mmc_read_blocks
<1>4. CASE Chunk # job.todo
  <2>1. Got(Chunk) \in Seq(Int)
    BY <1>1, GotTyped DEF mmc_read_blocks
  <2>2. Done(Chunk) \in Job /\ Done(Chunk).op = "read"
    BY <1>1, DoneJob DEF mmc_read_blocks
  <2>3. job' \in Job /\ job'.op = "read"
    BY <1>4, <2>1, <2>2 DEF mmc_read_blocks, Job
  <2>4. OpenInv'
    BY OpenOfIInv DEF mmc_read_blocks, OpenInv, PartNumIsOpen, NoParts, OpenIsBooted, HasParts
  <2>5. RestTyped'
    BY <1>1, <1>4, <2>3 DEF mmc_read_blocks, RestTyped, TypeOK
  <2>6. QED BY <2>3, <2>4, <2>5, WhenIdle
<1>5. QED BY <1>3, <1>4

\* flashex_erase up to its first erase command.
LEMMA EraseStartKeeps ==
  ASSUME IInv, NEW s \in EraseSpans, flashex_erase(s)
  PROVE  IInv'
<1> USE DEF Returns
<1>1. s.start \in Nat /\ s.cnt \in Nat \ {0}
  BY SpanAssumption DEF Span
<1>2. store' = store /\ ops' \in 0..MaxOps /\ result'.is \in {"none", "fail"}
      /\ TypeOK /\ job.op = "idle"
  BY OpsAssumption DEF flashex_erase, IInv, TypeOK
<1>3. CASE UNCHANGED <<card, host, job, doubt>>
  <2>1. OpenInv'
    BY <1>3, OpenOfIInv DEF OpenInv, PartNumIsOpen, NoParts, OpenIsBooted, HasParts
  <2>2. RestTyped'
    BY <1>2, <1>3 DEF RestTyped, TypeOK
  <2>3. QED BY <1>2, <1>3, <2>1, <2>2, WhenIdle
<1>4. ASSUME s.start = 0 => host.enable \in BootPart,
             NEW p \in Part, p = IF s.start = 0 THEN host.enable ELSE "PART_USER",
             NEW r \in mmc_switch_part(card, host, p), Switched(r, "bypass"),
             IF r.ok THEN job' = EraseJob("erase", s.start, EraseCnt(s),
                                          EraseCnt(s) - EraseRest(s), EraseRest(s))
                     ELSE job' = job
      PROVE  IInv'
  <2>1. /\ OpenInv' /\ host' = host
        /\ r.ok => card'.access = p /\ doubt' = "bypass"
    BY <1>4, BypassKeeps, OpenOfIInv
  <2>2. CASE ~r.ok
    <3>1. RestTyped' /\ job'.op = "idle"
      BY <1>2, <1>4, <2>2 DEF RestTyped, TypeOK
    <3>2. QED BY <2>1, <3>1, WhenIdle
  <2>3. CASE r.ok
    <3>1. /\ EraseCnt(s) \in Nat /\ EraseRest(s) \in Nat
          /\ EraseCnt(s) - EraseRest(s) \in Nat
          /\ s.start # 0 => EraseRest(s) = 0
          /\ EraseRest(s) > 0 => EraseCnt(s) - EraseRest(s) = BootBlks
      BY <1>1, SizeAssumption DEF EraseCnt, EraseRest
    <3>2. /\ EraseJob("erase", s.start, EraseCnt(s), EraseCnt(s) - EraseRest(s),
                       EraseRest(s)) = job'
          /\ "erase" \in {"erase", "block_erase"}
      BY <1>4, <2>3
    <3>3. /\ job' \in Job /\ job'.op = "erase" /\ job'.start = s.start /\ job'.base = s.start
          /\ job'.cnt = EraseCnt(s) /\ job'.todo = EraseCnt(s) - EraseRest(s)
          /\ job'.rest = EraseRest(s)
      <4> DEFINE n == EraseCnt(s)
                 k == EraseCnt(s) - EraseRest(s)
                 l == EraseRest(s)
      <4>1. s.start \in Nat /\ n \in Nat /\ k \in Nat /\ l \in Nat
        BY <1>1, <3>1
      <4>2. EraseJob("erase", s.start, n, k, l) = job'
        BY <3>2
      <4> HIDE DEF n, k, l
      <4>3. /\ job' \in Job /\ job'.op = "erase" /\ job'.start = s.start
            /\ job'.base = s.start /\ job'.cnt = n /\ job'.todo = k /\ job'.rest = l
        <5>1. EraseJob("erase", s.start, n, k, l) \in Job
          BY <4>1, <3>2, EraseJobTyped
        <5>2. QED
          BY <4>2, <5>1 DEF EraseJob
      <4>4. QED BY <4>3 DEF n, k, l
    <3>4. TypeOK'
      BY <1>2, <2>1, <3>3 DEF TypeOK, OpenInv, Card, Host
    <3>5. WriteInv'
      BY <3>3 DEF WriteInv
    <3>6. EraseUserInv'
      BY <1>1, <1>4, <2>1, <2>3, <3>1, <3>3, SizeAssumption
      DEF EraseUserInv, ErasedUpTo, Block
    <3>7. EraseBootInv'
      <4>1. ASSUME s.start = 0
            PROVE  BootPhase'
        BY <1>1, <1>4, <2>1, <2>3, <3>1, <3>3, <4>1, SizeAssumption
        DEF BootPhase, ErasedUpTo, Block
      <4>2. QED BY <1>4, <2>1, <3>3, <4>1 DEF EraseBootInv
    <3>8. QED BY <2>1, <3>4, <3>5, <3>6, <3>7 DEF IInv, OpenInv
  <2>4. QED BY <2>2, <2>3
<1>5. "PART_USER" \in Part /\ BootPart \subseteq Part
  BY DEF Part
<1>6. QED BY <1>3, <1>4, <1>5 DEF flashex_erase

\* An erase command carried out.
LEMMA EraseKeeps ==
  ASSUME IInv, mmc_erase_t
  PROVE  IInv'
<1> USE DEF Returns
<1>1. /\ TypeOK /\ OpenInv /\ Group \in Nat /\ Group <= job.todo
      /\ job.op \in {"erase", "block_erase"} /\ job \in Job
      /\ job.start \in Nat /\ job.todo \in Nat /\ job.base \in Nat /\ job.cnt \in Nat
      /\ job.rest \in Nat /\ card.access \in Part
  BY ChunkFits, OpenOfIInv DEF IInv, TypeOK, Job, mmc_erase_t
<1>2. /\ store' \in [Part -> [Block -> {Erased} \cup 0..MaxOps]]
      /\ \A p \in Part, b \in Block :
           store'[p][b] = IF p = card.access /\ job.start <= b /\ b < job.start + Group
                          THEN Erased ELSE store[p][b]
  BY <1>1, PutBlocks DEF mmc_erase_t
<1>3. ops' = ops /\ result'.is \in {"none", "ok", "fail"}
  BY <1>1 DEF mmc_erase_t, TypeOK
\* What was erased stays so, and the command adds its blocks in the partition that is open.
<1>4. \A p \in Part, x \in Block : store[p][x] = Erased => store'[p][x] = Erased
  BY <1>2
<1>5. ASSUME NEW a \in Nat, ErasedUpTo(card.access, a, job.start)
      PROVE  \A x \in Block : a <= x /\ x < job.start + Group
                                => store'[card.access][x] = Erased
  <2>1. ASSUME NEW x \in Block, a <= x, x < job.start + Group
        PROVE  store'[card.access][x] = Erased
    <3>1. x \in Int
      BY SizeAssumption DEF Block
    <3>2. CASE x < job.start
      BY <1>1, <1>2, <1>5, <2>1, <3>2 DEF ErasedUpTo
    <3>3. CASE job.start <= x
      BY <1>1, <1>2, <2>1, <3>3
    <3>4. QED BY <1>1, <3>1, <3>2, <3>3
  <2>2. QED BY <2>1
<1>6. CASE Group < job.todo
  <2>1. /\ job' \in Job /\ job'.op = job.op /\ job'.start = job.start + Group
        /\ job'.todo = job.todo - Group /\ job'.base = job.base /\ job'.cnt = job.cnt
        /\ job'.rest = job.rest /\ UNCHANGED <<card, host, doubt>>
    BY <1>1, <1>6, DoneJob DEF mmc_erase_t
  <2>2. OpenInv'
    BY <1>1, <2>1 DEF OpenInv, PartNumIsOpen, NoParts, OpenIsBooted, HasParts
  <2>3. RestTyped'
    BY <1>1, <1>2, <1>3, <2>1 DEF RestTyped, TypeOK
  <2>4. CASE job.op = "block_erase"
    BY <2>1, <2>2, <2>3, <2>4, WhenIdle
  <2>5. CASE job.op = "erase"
    <3>1. TypeOK' /\ WriteInv'
      BY <2>1, <2>2, <2>3, <2>5 DEF OpenInv, RestTyped, TypeOK, Card, Host, WriteInv
    <3>2. EraseUserInv'
      <4>1. CASE job.base # 0
        <5>1. /\ card.access = "PART_USER" /\ job.rest = 0
              /\ job.base <= job.start /\ job.start + job.todo = job.base + job.cnt
              /\ ErasedUpTo("PART_USER", job.base, job.start)
          BY <2>5, <4>1 DEF IInv, EraseUserInv
        <5>2. \A x \in Block : job.base <= x /\ x < job.start + Group
                                 => store'["PART_USER"][x] = Erased
          BY <1>1, <1>5, <5>1
        <5>3. job.base <= job.start + Group
              /\ job.start + Group + (job.todo - Group) = job.base + job.cnt
          BY <1>1, <5>1
        <5>4. QED BY <2>1, <5>1, <5>2, <5>3 DEF EraseUserInv, ErasedUpTo
      <4>2. QED BY <2>1, <4>1 DEF EraseUserInv
    <3>3. EraseBootInv'
      <4>1. SUFFICES ASSUME job.base = 0
                     PROVE  host.enable \in BootPart /\ (BootPhase' \/ UserPhase')
        BY <2>1 DEF EraseBootInv
      <4>2. host.enable \in BootPart /\ (BootPhase \/ UserPhase) /\ host.enable \in Part
        BY <2>5, <4>1 DEF IInv, EraseBootInv, Part
      <4>3. CASE BootPhase
        <5>1. card.access = host.enable /\ ErasedUpTo(card.access, 0, job.start)
          BY <4>3 DEF BootPhase
        <5>2. \A x \in Block : 0 <= x /\ x < job.start + Group
                                 => store'[host.enable][x] = Erased
          BY <1>5, <5>1
        <5>3. QED
          BY <1>1, <2>1, <4>2, <4>3, <5>2 DEF BootPhase, ErasedUpTo
      <4>4. CASE UserPhase
        <5>1. ErasedUpTo(host.enable, 0, BootBlks)'
          BY <1>4, <2>1, <4>2, <4>4 DEF UserPhase, ErasedUpTo
        <5>2. ASSUME doubt = "bypass"
              PROVE  /\ card.access = "PART_USER"
                     /\ \A x \in Block : 0 <= x /\ x < job.start + Group
                                           => store'["PART_USER"][x] = Erased
          <6>1. card.access = "PART_USER" /\ ErasedUpTo(card.access, 0, job.start)
            BY <4>4, <5>2 DEF UserPhase
          <6>2. QED BY <1>5, <6>1
        <5>3. QED
          BY <1>1, <2>1, <4>2, <4>4, <5>1, <5>2 DEF UserPhase, ErasedUpTo
      <4>5. QED BY <4>2, <4>3, <4>4
    <3>4. QED BY <2>2, <3>1, <3>2, <3>3 DEF IInv, OpenInv
  <2>6. QED BY <1>1, <2>4, <2>5
<1>7. CASE ~(Group < job.todo) /\ job.rest > 0
  <2>1. job' = [job EXCEPT !.start = job.base, !.todo = job.rest, !.rest = 0]
    BY <1>7 DEF mmc_erase_t
  <2>2. /\ job' \in Job /\ job'.op = job.op /\ job'.start = job.base
        /\ job'.todo = job.rest /\ job'.base = job.base /\ job'.cnt = job.cnt
        /\ job'.rest = 0
    BY <1>1, <2>1 DEF Job
  <2>3. PICK r \in mmc_switch_part(card, host, "PART_USER") : Switched(r, "bypass")
    BY <1>7 DEF mmc_erase_t
  <2>4. /\ OpenInv' /\ host' = host
        /\ r.ok => card'.access = "PART_USER" /\ doubt' = "bypass"
        /\ ~r.ok /\ HasParts => doubt' = "failed"
    BY <1>1, <2>3, BypassKeeps DEF Part
  <2>5. RestTyped'
    BY <1>1, <1>2, <1>3, <2>2 DEF RestTyped, TypeOK
  <2>6. CASE job.op = "block_erase"
    BY <2>2, <2>4, <2>5, <2>6, WhenIdle
  <2>7. CASE job.op = "erase"
    <3>1. TypeOK' /\ WriteInv'
      BY <2>2, <2>4, <2>5, <2>7 DEF OpenInv, RestTyped, TypeOK, Card, Host, WriteInv
    <3>2. job.base = 0
      BY <1>7, <2>7 DEF IInv, EraseUserInv
    <3>3. host.enable \in BootPart /\ BootPhase /\ host.enable \in Part /\ HasParts
      BY <1>1, <1>7, <2>7, <3>2
      DEF IInv, EraseBootInv, UserPhase, Part, BootPart, HasParts
    <3>4. Group = job.todo /\ job.start + Group = BootBlks
      BY <1>1, <1>7, <3>3 DEF BootPhase
    <3>5. ErasedUpTo(host.enable, 0, BootBlks)'
      <4>1. card.access = host.enable /\ ErasedUpTo(card.access, 0, job.start)
        BY <3>3 DEF BootPhase
      <4>2. \A x \in Block : 0 <= x /\ x < job.start + Group
                               => store'[host.enable][x] = Erased
        BY <1>5, <4>1
      <4>3. QED BY <2>4, <3>4, <4>2 DEF ErasedUpTo
    <3>6. job.rest = job.cnt - BootBlks
      BY <1>1, <1>7, <3>3, SizeAssumption DEF BootPhase
    <3>7. doubt' = "bypass" => card'.access = "PART_USER"
      BY <2>4, <3>3
    <3>8. ErasedUpTo("PART_USER", 0, 0)'
      BY SizeAssumption DEF ErasedUpTo, Block
    <3>9. UserPhase'
      BY <1>1, <2>2, <2>4, <3>2, <3>5, <3>6, <3>7, <3>8, SizeAssumption DEF UserPhase
    <3>10. EraseUserInv' /\ EraseBootInv'
      BY <2>2, <2>4, <3>2, <3>3, <3>9 DEF EraseUserInv, EraseBootInv
    <3>11. QED BY <2>4, <3>1, <3>10 DEF IInv, OpenInv
  <2>8. QED BY <1>1, <2>6, <2>7
<1>8. CASE ~(Group < job.todo) /\ ~(job.rest > 0)
  <2>1. job' = Idle /\ UNCHANGED <<card, host, doubt>>
    BY <1>8 DEF mmc_erase_t
  <2>2. QED BY <1>2, <1>3, <2>1, EndKeeps
<1>9. QED BY <1>6, <1>7, <1>8

-----------------------------------------------------------------------------
(***************************************************************************)
(* The invariant, and what follows from it.                                *)
(***************************************************************************)

\* mmc_init has opened the user area and read the boot bits.
LEMMA InitIInv == Init => IInv
<1> SUFFICES ASSUME Init PROVE IInv
  OBVIOUS
<1>1. PICK e \in Enable : card = [access |-> "PART_USER", enable |-> e]
  BY DEF Init
<1>2. host = [part_num |-> "PART_USER", enable |-> e]
  BY <1>1 DEF Init
<1>3. card \in [access : Part, enable : Enable] /\ host \in [part_num : Part, enable : Enable]
  BY <1>1, <1>2 DEF Part
<1>4. /\ store \in [Part -> [Block -> {Erased} \cup 0..MaxOps]]
      /\ ops \in 0..MaxOps /\ doubt = "none" /\ result.is = "none"
  BY OpsAssumption DEF Init
<1>5. job \in Job /\ job.op = "idle"
  BY IdleIsTyped DEF Init
<1>6. TypeOK
  BY <1>3, <1>4, <1>5 DEF TypeOK
<1>7. PartNumIsOpen /\ NoParts /\ OpenIsBooted
  BY <1>1, <1>2 DEF PartNumIsOpen, NoParts, OpenIsBooted, HasParts, BootPart
<1>8. WriteInv /\ EraseUserInv /\ EraseBootInv
  BY <1>5 DEF WriteInv, EraseUserInv, EraseBootInv
<1>9. QED BY <1>6, <1>7, <1>8 DEF IInv

\* The invariant is inductive.
LEMMA NextIInv == IInv /\ [Next]_vars => IInv'
<1> SUFFICES ASSUME IInv, [Next]_vars PROVE IInv'
  OBVIOUS
<1>1. ASSUME NEW s \in Spans, mmc_bwrite(s) \/ mmc_bread(s) PROVE IInv'
  <2>1. PICK op \in {"write", "read"} : Start(op, s)
    BY <1>1 DEF mmc_bwrite, mmc_bread
  <2>2. QED BY <2>1, StartKeeps
<1>2. ASSUME NEW s \in Spans, mmc_breadRefused(s) PROVE IInv'
  BY <1>2, CallKeeps
<1>3. ASSUME NEW s \in EraseSpans, flashex_erase(s) PROVE IInv'
  BY <1>3, EraseStartKeeps
<1>4. ASSUME NEW s \in RawSpans, block_erase(s) PROVE IInv'
  BY <1>4, CallKeeps
<1>5. CASE mmc_write_blocks
  BY <1>5, WriteKeeps
<1>6. CASE (\E k \in 0..BMax : WriteFails(k)) \/ ReadFails \/ EraseFails
  BY <1>6, FailKeeps
<1>7. CASE mmc_read_blocks
  BY <1>7, ReadKeeps
<1>8. CASE mmc_erase_t
  BY <1>8, EraseKeeps
<1>9. CASE Reboot
  <2>1. OpenInv'
    BY <1>9, RebootKeeps, OpenOfIInv
  <2>2. RestTyped' /\ job'.op = "idle"
    BY <1>9, IdleIsTyped DEF Reboot, Returns, RestTyped, IInv, TypeOK
  <2>3. QED BY <2>1, <2>2, WhenIdle
<1>10. CASE UNCHANGED vars
  BY <1>10 DEF vars, IInv, TypeOK, PartNumIsOpen, NoParts, OpenIsBooted, HasParts, WriteInv,
               EraseUserInv, EraseBootInv, BootPhase, UserPhase, ErasedUpTo
<1>11. QED
  BY <1>1, <1>2, <1>3, <1>4, <1>5, <1>6, <1>7, <1>8, <1>9, <1>10 DEF Next, Transfer

\* In every state the copy, the boot bits and the blocks moved so far are as the call under
\* way relies on.
THEOREM Invariant == Spec => []IInv
<1>1. QED BY InitIInv, NextIInv, PTL DEF Spec

\* Every variable of the block layer stays in its range, for every size of the card and
\* every list of calls.
THEOREM TypeCorrect == Spec => []TypeOK
<1>1. IInv => TypeOK
  BY DEF IInv
<1>2. QED BY <1>1, Invariant, PTL

\* mmc->part_num is the partition that the card has open, unless a switch was given up or
\* flashex_erase has gone round the copy.
THEOREM CopyIsRight == Spec => []PartNumIsOpen
<1>1. IInv => PartNumIsOpen
  BY DEF IInv
<1>2. QED BY <1>1, Invariant, PTL

\* The last command of a block_write that succeeds.
LEMMA WriteEnds ==
  ASSUME Next, job.op = "write", result'.is = "ok"
  PROVE  mmc_write_blocks /\ Chunk = job.todo
BY DEF Next, Transfer, mmc_bwrite, mmc_bread, Start, mmc_breadRefused, flashex_erase, block_erase,
       mmc_write_blocks, WriteFails, mmc_read_blocks, ReadFails, mmc_erase_t, EraseFails, Reboot,
       Returns

\* A boot image that was written lies in the partition that is open, and that is the one
\* the card boots from, whatever was written, erased or reset before, unless a switch was
\* given up or went round the copy since the copy was last set.
THEOREM WrittenIsBooted == Spec => BootsWhatWasWritten
<1> DEFINE A == /\ job.op = "write" /\ result'.is = "ok" /\ InBoot(job.base, job.cnt)
                /\ HasParts
                => /\ \A b \in job.base..(job.base + job.cnt - 1) :
                        store'[card.access][b] = ops
                   /\ doubt = "none" => card.access = card.enable /\ card.enable \in BootPart
<1>1. IInv /\ [Next]_vars => [A]_vars
  <2> SUFFICES ASSUME IInv, Next, job.op = "write", result'.is = "ok",
                      InBoot(job.base, job.cnt), HasParts
               PROVE  /\ \A b \in job.base..(job.base + job.cnt - 1) :
                           store'[card.access][b] = ops
                      /\ doubt = "none" =>
                           card.access = card.enable /\ card.enable \in BootPart
    OBVIOUS
  <2>1. mmc_write_blocks /\ Chunk = job.todo
    BY WriteEnds
  <2>2. card.access \in Part
    BY DEF IInv, TypeOK
  <2>6. doubt = "none" => card.access = card.enable /\ card.enable \in BootPart
    BY DEF IInv, WriteInv, OpenIsBooted
  <2>3. /\ TypeOK /\ ops \in 0..MaxOps /\ job.todo \in Nat /\ job.start \in Nat
        /\ job.base \in Nat /\ job.cnt \in Nat
    BY DEF IInv, TypeOK, Job
  <2>4. \A p \in Part, b \in Block :
          store'[p][b] = IF p = card.access /\ job.start <= b /\ b < job.start + job.todo
                         THEN ops ELSE store[p][b]
    BY <2>1, <2>3, PutBlocks DEF mmc_write_blocks
  <2>5. ASSUME NEW b \in job.base..(job.base + job.cnt - 1)
        PROVE  store'[card.access][b] = ops
    <3>1. b \in Block /\ b \in Int /\ job.base <= b /\ b < job.start + job.todo
      BY <2>3, <2>5, SizeAssumption DEF IInv, WriteInv, InBoot, Block
    <3>2. CASE b < job.start
      BY <2>2, <2>3, <2>4, <3>1, <3>2 DEF IInv, WriteInv
    <3>3. CASE job.start <= b
      BY <2>2, <2>4, <3>1, <3>3
    <3>4. QED BY <2>3, <3>1, <3>2, <3>3
  <2>7. QED BY <2>5, <2>6
<1>2. QED BY <1>1, Invariant, PTL DEF Spec, BootsWhatWasWritten

\* The last command of a flashex_erase that succeeds.
LEMMA EraseEnds ==
  ASSUME Next, job.op = "erase", result'.is = "ok", result.is = "none"
  PROVE  mmc_erase_t /\ ~(Group < job.todo) /\ ~(job.rest > 0)
BY DEF Next, Transfer, mmc_bwrite, mmc_bread, Start, mmc_breadRefused, flashex_erase, block_erase,
       mmc_write_blocks, WriteFails, mmc_read_blocks, ReadFails, mmc_erase_t, EraseFails, Reboot,
       Returns

\* What a flashex_erase has erased when it succeeds.
LEMMA ErasedAtEnd ==
  ASSUME IInv, Next, job.op = "erase", result'.is = "ok", result.is = "none",
         doubt = "bypass"
  PROVE  LET last == job.base + job.cnt - 1 IN
         IF job.base # 0
         THEN \A b \in job.base..last : store'["PART_USER"][b] = Erased
         ELSE /\ \A b \in Block : b < BootBlks /\ b <= last => store'[host.enable][b] = Erased
              /\ \A b \in Block : b <= last - BootBlks => store'["PART_USER"][b] = Erased
<1>1. /\ TypeOK /\ Group = job.todo /\ job.rest = 0 /\ mmc_erase_t
      /\ job.start \in Nat /\ job.todo \in Nat /\ job.base \in Nat /\ job.cnt \in Nat
      /\ card.access \in Part /\ "PART_USER" \in Part
  <2>1. TypeOK /\ Group \in Nat /\ Group <= job.todo
    BY ChunkFits DEF IInv
  <2>2. QED BY <2>1, EraseEnds DEF TypeOK, Job, Part
<1>2. \A p \in Part, b \in Block :
        store'[p][b] = IF p = card.access /\ job.start <= b /\ b < job.start + job.todo
                       THEN Erased ELSE store[p][b]
  BY <1>1, PutBlocks DEF mmc_erase_t
<1>3. \A b \in Block : b \in Int
  BY SizeAssumption DEF Block
<1>4. CASE job.base # 0
  <2>1. /\ card.access = "PART_USER" /\ job.start + job.todo = job.base + job.cnt
        /\ ErasedUpTo("PART_USER", job.base, job.start)
    BY <1>4 DEF IInv, EraseUserInv
  <2>2. ASSUME NEW b \in job.base..(job.base + job.cnt - 1)
        PROVE  store'["PART_USER"][b] = Erased
    <3>1. job.start + job.todo <= Lba
      BY <1>1, <2>1 DEF mmc_erase_t, OnCard, PartSize
    <3>2. b \in Block /\ job.base <= b /\ b < job.start + job.todo
      BY <1>1, <2>1, <2>2, <3>1, SizeAssumption DEF Block
    <3>3. CASE b < job.start
      BY <1>1, <1>2, <2>1, <3>2, <3>3 DEF ErasedUpTo
    <3>4. CASE job.start <= b
      BY <1>1, <1>2, <2>1, <3>2, <3>4
    <3>5. QED BY <1>1, <2>2, <3>3, <3>4
  <2>3. QED BY <1>4, <2>2
<1>5. CASE job.base = 0
  <2>1. host.enable \in BootPart /\ (BootPhase \/ UserPhase) /\ host.enable \in Part
    BY <1>5 DEF IInv, EraseBootInv, Part
  <2>2. CASE BootPhase
    <3>1. /\ card.access = host.enable /\ job.start + job.todo = job.cnt
          /\ ErasedUpTo(host.enable, 0, job.start) /\ job.cnt <= BootBlks
      BY <1>1, <2>1, <2>2, SizeAssumption
      DEF BootPhase, mmc_erase_t, OnCard, PartSize, BootPart
    <3>2. ASSUME NEW b \in Block, b <= job.cnt - 1
          PROVE  store'[host.enable][b] = Erased
      <4>1. CASE b < job.start
        BY <1>2, <1>3, <2>1, <3>1, <4>1, SizeAssumption DEF ErasedUpTo, Block
      <4>2. CASE job.start <= b
        BY <1>1, <1>2, <1>3, <2>1, <3>1, <3>2, <4>2
      <4>3. QED BY <1>1, <1>3, <4>1, <4>2
    <3>3. \A b \in Block : ~(b <= job.cnt - 1 - BootBlks)
      BY <1>1, <3>1, SizeAssumption DEF Block
    <3>4. QED BY <1>1, <1>5, <3>2, <3>3
  <2>3. CASE UserPhase
    <3>1. /\ job.start + job.todo = job.cnt - BootBlks /\ card.access = "PART_USER"
          /\ ErasedUpTo(host.enable, 0, BootBlks) /\ ErasedUpTo("PART_USER", 0, job.start)
      BY <2>3 DEF UserPhase
    <3>2. ASSUME NEW b \in Block, b < BootBlks
          PROVE  store'[host.enable][b] = Erased
      BY <1>2, <2>1, <3>1, <3>2, SizeAssumption DEF ErasedUpTo, Block
    <3>3. ASSUME NEW b \in Block, b <= job.cnt - 1 - BootBlks
          PROVE  store'["PART_USER"][b] = Erased
      <4>1. 0 <= b /\ b < job.start + job.todo
        BY <1>1, <1>3, <3>1, <3>3, SizeAssumption DEF Block
      <4>2. CASE b < job.start
        BY <1>1, <1>2, <3>1, <4>1, <4>2 DEF ErasedUpTo
      <4>3. CASE job.start <= b
        BY <1>1, <1>2, <3>1, <4>1, <4>3
      <4>4. QED BY <1>1, <1>3, <4>2, <4>3
    <3>4. QED BY <1>1, <1>5, <3>2, <3>3
  <2>4. QED BY <2>1, <2>2, <2>3
<1>6. QED BY <1>4, <1>5

\* Nothing but erase commands, failures and resets happens to a flashex_erase.
LEMMA EraseSteps ==
  ASSUME Next, job.op = "erase"
  PROVE  mmc_erase_t \/ store' = store
BY DEF Next, Transfer, mmc_bwrite, mmc_bread, Start, mmc_breadRefused, flashex_erase, block_erase,
       mmc_write_blocks, WriteFails, mmc_read_blocks, ReadFails, mmc_erase_t, EraseFails, Reboot

\* A flashex_erase that succeeds has erased its range, in the user area or from block 0 in
\* the partition that is booted from and then in the user area; one that starts elsewhere
\* leaves the boot partitions alone.
THEOREM EraseIsExact == Spec => EraseHitsItsRange
<1> DEFINE Hits == LET last == job.base + job.cnt - 1 IN
                   IF job.base # 0
                   THEN \A b \in job.base..last : store'["PART_USER"][b] = Erased
                   ELSE /\ \A b \in Block : b < BootBlks /\ b <= last =>
                                              store'[host.enable][b] = Erased
                        /\ \A b \in Block : b <= last - BootBlks =>
                                              store'["PART_USER"][b] = Erased
           Spared == job.base # 0 => \A p \in BootPart : store'[p] = store[p]
           A == job.op = "erase" =>
                  /\ result'.is = "ok" /\ result.is = "none" /\ doubt = "bypass" => Hits
                  /\ Spared
<1>1. ASSUME IInv, Next, job.op = "erase"
      PROVE  /\ result'.is = "ok" /\ result.is = "none" /\ doubt = "bypass" => Hits
             /\ Spared
  <2>1. result'.is = "ok" /\ result.is = "none" /\ doubt = "bypass" => Hits
    BY <1>1, ErasedAtEnd
  <2>2. ASSUME job.base # 0, NEW p \in BootPart, mmc_erase_t
        PROVE  store'[p] = store[p]
    <3>1. card.access = "PART_USER" /\ p \in Part /\ p # card.access
      BY <1>1, <2>2 DEF IInv, EraseUserInv, Part, BootPart
    <3>2. store \in [Part -> [Block -> {Erased} \cup 0..MaxOps]]
      BY <1>1 DEF IInv, TypeOK
    <3>3. QED BY <2>2, <3>1, <3>2 DEF mmc_erase_t, Put
  <2>3. Spared
    BY <1>1, <2>2, EraseSteps
  <2>4. QED BY <2>1, <2>3
<1>2. IInv /\ [Next]_vars => [A]_vars
  <2> HIDE DEF Hits, Spared
  <2>1. QED BY <1>1
<1>3. QED BY <1>2, Invariant, PTL DEF Spec, EraseHitsItsRange

-----------------------------------------------------------------------------
(***************************************************************************)
(* The block layer implements the flat device.                             *)
(***************************************************************************)

\* How the device is used when it is one: switches succeed, nothing is erased past
\* block_write and block_read, and no call runs across the end of the boot partition.
DirectUse ==
  /\ ~SwitchFaults /\ EraseSpans = {} /\ RawSpans = {}
  /\ \A s \in Spans : InBoot(s.start, s.cnt) \/ BootBlks <= s.start

\* The partition that holds block b of the flat device.
Side(b) == IF b < BootBlks /\ HasParts THEN "PART_BOOT_1" ELSE "PART_USER"

\* The open partition holds all the blocks that the call has still to move.
FlatInv ==
  /\ doubt = "none" /\ card.access # "PART_BOOT_2"
  /\ job.op \in {"idle", "write", "read"}
  /\ job.op # "idle" =>
       /\ result = [is |-> "none", data |-> <<>>]
       /\ \/ /\ card.access = "PART_BOOT_1" /\ HasParts
             /\ job.start + job.todo <= BootBlks
          \/ /\ card.access = "PART_USER" /\ (HasParts => BootBlks <= job.start)

\* What mmc_bwrite and mmc_bread find under DirectUse: one of the two partitions is open,
\* and the card still has partitions or still has none.
LEMMA DirectRoute ==
  ASSUME DirectUse, IInv, FlatInv, NEW s \in Spans, NEW r \in Route(s.start, s.cnt),
         Switched(r, Settled(r))
  PROVE  /\ doubt' = "none" /\ HasParts' = HasParts
         /\ \/ /\ card'.access = "PART_BOOT_1" /\ HasParts /\ InBoot(s.start, s.cnt)
            \/ /\ card'.access = "PART_USER" /\ (HasParts => BootBlks <= s.start)
<1> USE DEF Switched
<1>1. /\ card \in Card /\ host \in Host /\ PartNumIsOpen /\ NoParts /\ doubt = "none"
      /\ InBoot(s.start, s.cnt) \/ BootBlks <= s.start
  BY OpenOfIInv DEF OpenInv, FlatInv, DirectUse
<1>2. /\ card' = r.card /\ host' = r.host
      /\ \/ /\ Unswitched(r, card, host)
            /\ r.ok => (InBoot(s.start, s.cnt) <=> host.part_num # "PART_USER")
            /\ ~r.ok => ~HasParts
         \/ \E p \in Part : /\ Opened(r, host, p)
                            /\ InBoot(s.start, s.cnt) <=> p # "PART_USER"
                            /\ p # "PART_BOOT_2"
  BY <1>1, RouteOutcome DEF NoParts, DirectUse, GivenUp
<1>3. CASE /\ Unswitched(r, card, host)
           /\ r.ok => (InBoot(s.start, s.cnt) <=> host.part_num # "PART_USER")
           /\ ~r.ok => ~HasParts
  <2>1. UNCHANGED <<card, host, doubt>>
    BY <1>2, <1>3 DEF Unswitched, Settled
  <2>2. card.access = host.part_num /\ card.access \in {"PART_USER", "PART_BOOT_1"}
    BY <1>1 DEF PartNumIsOpen, FlatInv, Card, Part, BootPart
  <2>3. ~HasParts => card.access = "PART_USER"
    BY <1>1 DEF NoParts
  <2>4. QED
    BY <1>1, <1>3, <2>1, <2>2, <2>3 DEF HasParts
<1>4. ASSUME NEW p \in Part, Opened(r, host, p), InBoot(s.start, s.cnt) <=> p # "PART_USER",
             p # "PART_BOOT_2"
      PROVE  /\ doubt' = "none" /\ HasParts' = HasParts
             /\ \/ /\ card'.access = "PART_BOOT_1" /\ HasParts /\ InBoot(s.start, s.cnt)
                \/ /\ card'.access = "PART_USER" /\ (HasParts => BootBlks <= s.start)
  <2>1. card'.access = p /\ host'.enable = EnableAfter(host, p) /\ HasParts
        /\ doubt' = "none"
    BY <1>1, <1>2, <1>4 DEF Opened, HasParts, Settled
  <2>2. p \in {"PART_USER", "PART_BOOT_1"}
    BY <1>4 DEF Part, BootPart
  <2>3. HasParts'
    BY <2>1 DEF HasParts, EnableAfter, BootPart
  <2>4. QED BY <1>1, <1>4, <2>1, <2>2, <2>3
<1>5. QED BY <1>2, <1>3, <1>4

\* What a step under DirectUse is, other than a reset.
LEMMA DirectSteps ==
  ASSUME DirectUse, FlatInv, Next
  PROVE  \/ \E s \in Spans : \/ \E op \in {"write", "read"} : Start(op, s)
                             \/ mmc_breadRefused(s)
         \/ mmc_write_blocks
         \/ \E k \in 0..BMax : WriteFails(k)
         \/ mmc_read_blocks
         \/ ReadFails
         \/ Reboot
<1>1. EraseSpans = {} /\ RawSpans = {} /\ job.op \notin {"erase", "block_erase"}
  BY DEF DirectUse, FlatInv
<1>2. QED
  BY <1>1 DEF Next, Transfer, mmc_bwrite, mmc_bread, mmc_erase_t, EraseFails

\* With direct use the invariant says where each request stands.
LEMMA FlatInvHolds ==
  ASSUME DirectUse
  PROVE  Spec => [](IInv /\ FlatInv)
<1> USE DEF Returns
<1>1. Init => FlatInv
  BY DEF Init, FlatInv, Idle
<1>2. ASSUME IInv, FlatInv, [Next]_vars
      PROVE  FlatInv'
  <2>1. ASSUME NEW s \in Spans, NEW op \in {"write", "read"}, Start(op, s) PROVE FlatInv'
    <3>1. PICK r \in Route(s.start, s.cnt) : Switched(r, Settled(r))
      BY <2>1 DEF Start
    <3>2. /\ doubt' = "none" /\ HasParts' = HasParts
          /\ \/ /\ card'.access = "PART_BOOT_1" /\ HasParts /\ InBoot(s.start, s.cnt)
             \/ /\ card'.access = "PART_USER" /\ (HasParts => BootBlks <= s.start)
      BY <1>2, <3>1, DirectRoute
    <3>3. CASE /\ job' = [Idle EXCEPT !.op = op, !.start = s.start, !.todo = s.cnt,
                                      !.base = s.start, !.cnt = s.cnt]
               /\ result' = [is |-> "none", data |-> <<>>]
      <4>1. job'.op = op /\ job'.start = s.start /\ job'.todo = s.cnt
        BY <3>3 DEF Idle
      <4>2. QED BY <3>2, <3>3, <4>1 DEF FlatInv, InBoot
    <3>4. CASE job' = job /\ job.op = "idle"
      BY <3>2, <3>4 DEF FlatInv
    <3>5. QED BY <2>1, <3>3, <3>4 DEF Start
  <2>2. CASE mmc_write_blocks \/ mmc_read_blocks
    <3>1. TypeOK /\ Chunk \in Nat /\ Chunk <= job.todo /\ job.start \in Nat /\ job.todo \in Nat
      BY <1>2, ChunkFits DEF IInv, TypeOK, Job
    <3>2. CASE Chunk = job.todo
      BY <1>2, <2>2, <3>2 DEF mmc_write_blocks, mmc_read_blocks, FlatInv, Idle
    <3>3. CASE Chunk # job.todo
      <4>1. /\ Done(Chunk) \in Job /\ Done(Chunk).op = job.op
            /\ Done(Chunk).start = job.start + Chunk /\ Done(Chunk).todo = job.todo - Chunk
        BY <3>1, DoneJob
      <4>2. job'.op = job.op /\ job'.start = job.start + Chunk
            /\ job'.todo = job.todo - Chunk
        BY <2>2, <3>3, <4>1 DEF mmc_write_blocks, mmc_read_blocks, Job
      <4>3. /\ UNCHANGED <<card, host, doubt>> /\ result' = [is |-> "none", data |-> <<>>]
            /\ job.op # "idle"
        BY <2>2, <3>3 DEF mmc_write_blocks, mmc_read_blocks
      <4>4. QED BY <1>2, <3>1, <4>2, <4>3, SizeAssumption DEF FlatInv, HasParts
    <3>4. QED BY <3>2, <3>3
  <2>3. CASE (\E k \in 0..BMax : WriteFails(k)) \/ ReadFails
    BY <1>2, <2>3 DEF WriteFails, ReadFails, FlatInv, Idle
  <2>4. ASSUME NEW s \in Spans, mmc_breadRefused(s) PROVE FlatInv'
    BY <1>2, <2>4 DEF mmc_breadRefused, FlatInv
  <2>5. CASE Reboot
    <3>1. card'.access = "PART_USER"
      BY <1>2, <2>5 DEF Reboot, IInv, TypeOK
    <3>2. QED BY <2>5, <3>1 DEF Reboot, FlatInv, Idle
  <2>6. CASE UNCHANGED vars
    BY <1>2, <2>6 DEF vars, FlatInv, HasParts
  <2>7. QED BY <1>2, <2>1, <2>2, <2>3, <2>4, <2>5, <2>6, DirectSteps
<1>3. QED BY <1>1, <1>2, InitIInv, NextIInv, PTL DEF Spec

\* The flat device as the partitions hold it, and the call as its request.
Disk == [b \in Block |-> store[Side(b)][b]]
Request == [op |-> job.op, start |-> job.start, todo |-> job.todo, got |-> job.got]

\* The same flat device as Flat, by these names.
FD == INSTANCE FlatDisk WITH disk <- Disk, req <- Request, out <- result

\* The request that a call under way stands for.
LEMMA Fields ==
  /\ Request.op = job.op /\ Request.start = job.start
  /\ Request.todo = job.todo /\ Request.got = job.got
  /\ Request = [op |-> job.op, start |-> job.start, todo |-> job.todo, got |-> job.got]
BY DEF Request

\* How a command changes that request.
LEMMA RequestUpdate ==
  ASSUME NEW a, NEW n, NEW g
  PROVE  [Request EXCEPT !.start = a, !.todo = n, !.got = g]
           = [op |-> job.op, start |-> a, todo |-> n, got |-> g]
<1> DEFINE Requests == [op : {job.op}, start : {job.start, a}, todo : {job.todo, n},
                        got : {job.got, g}]
           u == [Request EXCEPT !.start = a, !.todo = n, !.got = g]
           r == [op |-> job.op, start |-> a, todo |-> n, got |-> g]
<1>1. Request \in Requests
  BY DEF Request
<1>2. u \in Requests /\ r \in Requests
  BY <1>1
<1>3. u.op = r.op /\ u.start = r.start /\ u.todo = r.todo /\ u.got = r.got
  BY <1>1, Fields
<1> HIDE DEF u, r
<1>4. u = r
  BY <1>2, <1>3
<1>5. QED BY <1>4 DEF u, r

\* The flat device, block by block.
LEMMA DiskBlocks ==
  /\ \A b \in Block : Disk[b] = store[Side(b)][b]
  /\ Disk = [b \in Block |-> Disk[b]]
BY DEF Disk

\* The blocks that the call has still to move are on the partition that is open.
LEMMA MovesOpenSide ==
  ASSUME IInv, FlatInv, job.op # "idle", NEW b \in Block, job.start <= b,
         b < job.start + job.todo
  PROVE  Side(b) = card.access
<1>1. b \in Int /\ job.start \in Nat /\ job.todo \in Nat /\ BootBlks \in Nat
  BY SizeAssumption DEF IInv, TypeOK, Job, Block
<1>2. CASE card.access = "PART_BOOT_1"
  BY <1>1, <1>2 DEF FlatInv, Side
<1>3. CASE card.access = "PART_USER"
  BY <1>1, <1>3 DEF FlatInv, Side
<1>4. QED BY <1>2, <1>3 DEF FlatInv

\* A write command writes the same blocks of the flat device.
LEMMA PutOnDisk ==
  ASSUME IInv, FlatInv, job.op # "idle", NEW k \in Nat, k <= job.todo, store' = Put(k, ops),
         HasParts' = HasParts
  PROVE  Disk' = [b \in Block |-> IF job.start <= b /\ b < job.start + k THEN ops ELSE Disk[b]]
<1>1. TypeOK /\ ops \in {Erased} \cup 0..MaxOps /\ job.start \in Nat /\ job.todo \in Nat
  BY DEF IInv, TypeOK, Job
<1>2. \A p \in Part, b \in Block :
        store'[p][b] = IF p = card.access /\ job.start <= b /\ b < job.start + k
                       THEN ops ELSE store[p][b]
  BY <1>1, PutBlocks
<1>3. ASSUME NEW b \in Block
      PROVE  store'[Side(b)'][b] = IF job.start <= b /\ b < job.start + k THEN ops ELSE Disk[b]
  <2>1. Side(b)' = Side(b) /\ Side(b) \in Part /\ Disk[b] = store[Side(b)][b] /\ b \in Int
    BY DiskBlocks, SizeAssumption DEF Side, Part, BootPart, Block
  <2>2. store'[Side(b)][b] = IF Side(b) = card.access /\ job.start <= b /\ b < job.start + k
                             THEN ops ELSE store[Side(b)][b]
    BY <1>2, <2>1
  <2>3. CASE job.start <= b /\ b < job.start + k
    <3>1. b < job.start + job.todo
      BY <1>1, <2>1, <2>3
    <3>2. Side(b) = card.access
      BY <2>3, <3>1, MovesOpenSide
    <3>3. QED BY <2>1, <2>2, <2>3, <3>2
  <2>4. CASE ~(job.start <= b /\ b < job.start + k)
    BY <2>1, <2>2, <2>4
  <2>5. QED BY <2>3, <2>4
<1>4. Disk' = [b \in Block |-> store'[Side(b)'][b]]
  BY DEF Disk, Side, HasParts
<1>5. QED BY <1>3, <1>4

\* A read command fetches the same blocks from it.
LEMMA GotFromDisk ==
  ASSUME IInv, FlatInv, job.op # "idle", NEW k \in Nat, k <= job.todo, OnCard(k)
  PROVE  Got(k) = job.got \o [i \in 1..k |-> Disk[job.start + i - 1]]
<1>1. ASSUME NEW i \in 1..k
      PROVE  store[card.access][job.start + i - 1] = Disk[job.start + i - 1]
  <2>1. job.start \in Nat /\ job.todo \in Nat /\ PartSize(card.access) <= Lba
    BY SizeAssumption DEF IInv, TypeOK, Job, PartSize
  <2>2. /\ job.start + i - 1 \in Block /\ job.start <= job.start + i - 1
        /\ job.start + i - 1 < job.start + job.todo
    BY <2>1, SizeAssumption DEF OnCard, Block, PartSize
  <2>3. QED BY <2>2, DiskBlocks, MovesOpenSide
<1>2. [i \in 1..k |-> store[card.access][job.start + i - 1]]
        = [i \in 1..k |-> Disk[job.start + i - 1]]
  BY <1>1
<1>3. QED BY <1>2 DEF Got

\* A step that moves nothing leaves the flat device as it is.
LEMMA DiskStays ==
  ASSUME store' = store, HasParts' = HasParts
  PROVE  Disk' = Disk
BY DEF Disk, Side

\* The initial states are initial for FlatDisk.
LEMMA MapInit == Init => FD!FlatInit
<1> SUFFICES ASSUME Init PROVE FD!FlatInit
  OBVIOUS
<1>1. Disk = [b \in Block |-> 0]
  BY DEF Init, Disk, Side, Part, BootPart
<1>2. Request = [op |-> "idle", start |-> 0, todo |-> 0, got |-> <<>>]
  BY DEF Init, Idle, Request
<1>3. QED
  BY <1>1, <1>2 DEF Init, FD!FlatInit, FD!NoReq, FD!Silent, FD!Block, Block

\* A call that starts is a request that begins, or one that is refused.
LEMMA MapStart ==
  ASSUME DirectUse, IInv, FlatInv, NEW s \in Spans, NEW op \in {"write", "read"}, Start(op, s)
  PROVE  FD!Begin \/ FD!Refuse
<1> USE DEF Returns
<1>1. PICK r \in Route(s.start, s.cnt) : Switched(r, Settled(r))
  BY DEF Start
<1>2. Disk' = Disk
  BY <1>1, DirectRoute, DiskStays DEF Start
<1>3. s.start \in Nat /\ s.cnt \in Nat \ {0}
  BY SpanAssumption DEF Span
<1>4. CASE /\ job' = [Idle EXCEPT !.op = op, !.start = s.start, !.todo = s.cnt,
                                  !.base = s.start, !.cnt = s.cnt]
           /\ result' = [is |-> "none", data |-> <<>>]
  <2>1. Request' = [op |-> op, start |-> s.start, todo |-> s.cnt, got |-> <<>>]
    BY <1>4 DEF Request, Idle
  <2>2. Request' \in [op : {"write", "read"}, start : Nat, todo : Nat \ {0}, got : {<<>>}]
    BY <1>3, <2>1
  <2>3. FD!Begin
    BY <1>2, <1>4, <2>2, Fields DEF Start, FD!Begin, FD!Silent
  <2>4. QED BY <2>3
<1>5. CASE job' = job /\ result' = [is |-> "fail", data |-> <<>>]
  <2>1. Request' = Request
    BY <1>5 DEF Request
  <2>2. FD!Refuse
    BY <1>2, <1>5, <2>1, Fields DEF Start, FD!Refuse
  <2>3. QED BY <2>2
<1>6. QED BY <1>4, <1>5 DEF Start

\* A write command that succeeds advances its request, or finishes it.
LEMMA MapWrite ==
  ASSUME IInv, FlatInv, mmc_write_blocks
  PROVE  (\E k \in 0..Lba : FD!Advance(k)) \/ FD!Finish
<1> USE DEF Returns
<1>1. /\ TypeOK /\ Chunk \in Nat /\ Chunk <= job.todo /\ job.start \in Nat /\ job.todo \in Nat
      /\ job.op = "write" /\ job.start + Chunk <= Lba /\ store' = Put(Chunk, ops)
      /\ HasParts' = HasParts
  BY ChunkFits DEF IInv, TypeOK, Job, mmc_write_blocks, HasParts
<1>2. Disk' = [b \in Block |-> IF job.start <= b /\ b < job.start + Chunk THEN ops ELSE Disk[b]]
  BY <1>1, PutOnDisk
<1>3. Chunk \in 0..Lba
  BY <1>1, SizeAssumption
<1>4. FD!Move(Chunk)
  BY <1>1, <1>2, Fields DEF FD!Move, FD!Stored, FD!Block, Block
<1>5. CASE Chunk = job.todo
  <2>1. Request' = [op |-> "idle", start |-> 0, todo |-> 0, got |-> <<>>]
    BY <1>5 DEF mmc_write_blocks, Idle, Request
  <2>2. FD!Finish
    BY <1>1, <1>4, <1>5, <2>1, Fields DEF mmc_write_blocks, FD!Finish, FD!NoReq
  <2>3. QED BY <2>2
<1>6. CASE Chunk # job.todo
  <2>1. Done(Chunk).op = job.op /\ Done(Chunk).start = job.start + Chunk
        /\ Done(Chunk).todo = job.todo - Chunk /\ Done(Chunk).got = job.got
    BY <1>1, DoneJob
  <2>2. Request' = [op |-> job.op, start |-> job.start + Chunk, todo |-> job.todo - Chunk,
                    got |-> job.got]
    BY <1>6, <2>1 DEF mmc_write_blocks, Request
  <2>3. result' = result /\ ops' = ops
    BY <1>1, <1>6 DEF mmc_write_blocks, FlatInv
  <2>4. Request' = [Request EXCEPT !.start = Request.start + Chunk,
                                  !.todo = Request.todo - Chunk,
                                  !.got = IF Request.op = "read" THEN FD!Fetched(Chunk)
                                          ELSE Request.got]
    <3> DEFINE a == Request.start + Chunk
               n == Request.todo - Chunk
               g == IF Request.op = "read" THEN FD!Fetched(Chunk) ELSE Request.got
    <3>1. a = job.start + Chunk /\ n = job.todo - Chunk /\ g = job.got
      BY <1>1, Fields
    <3> HIDE DEF a, n, g
    <3>2. [Request EXCEPT !.start = a, !.todo = n, !.got = g]
            = [op |-> job.op, start |-> a, todo |-> n, got |-> g]
      BY RequestUpdate
    <3>3. Request' = [Request EXCEPT !.start = a, !.todo = n, !.got = g]
      BY <2>2, <3>1, <3>2
    <3>4. QED BY <3>3 DEF a, n, g
  <2>5. Request.op = job.op /\ Request.todo = job.todo
    BY Fields
  <2>6. FD!Advance(Chunk)
    BY <1>1, <1>4, <1>6, <2>3, <2>4, <2>5 DEF FD!Advance
  <2>7. QED BY <1>3, <2>6
<1>7. QED BY <1>5, <1>6

\* A read command likewise.
LEMMA MapRead ==
  ASSUME IInv, FlatInv, mmc_read_blocks
  PROVE  (\E k \in 0..Lba : FD!Advance(k)) \/ FD!Finish
<1> USE DEF Returns
<1>1. /\ TypeOK /\ Chunk \in Nat /\ Chunk <= job.todo /\ job.start \in Nat /\ job.todo \in Nat
      /\ job.op = "read" /\ OnCard(Chunk) /\ store' = store /\ HasParts' = HasParts
  BY ChunkFits DEF IInv, TypeOK, Job, mmc_read_blocks, HasParts
<1>2. job.start + Chunk <= Lba /\ Chunk \in 0..Lba
  BY <1>1, SizeAssumption DEF OnCard, PartSize
<1>3. Disk' = Disk
  BY <1>1, DiskStays
<1>4. Got(Chunk) = job.got \o [i \in 1..Chunk |-> Disk[job.start + i - 1]]
  BY <1>1, GotFromDisk
<1>5. Got(Chunk) = FD!Fetched(Chunk)
  BY <1>4, Fields DEF FD!Fetched
<1>6. FD!Move(Chunk)
  BY <1>1, <1>2, <1>3, Fields DEF FD!Move
<1>7. CASE Chunk = job.todo
  <2>1. Request' = [op |-> "idle", start |-> 0, todo |-> 0, got |-> <<>>]
    BY <1>7 DEF mmc_read_blocks, Idle, Request
  <2>2. result' = [is |-> "ok", data |-> FD!Fetched(job.todo)]
    BY <1>5, <1>7 DEF mmc_read_blocks
  <2>3. FD!Finish
    BY <1>1, <1>6, <1>7, <2>1, <2>2, Fields DEF mmc_read_blocks, FD!Finish, FD!NoReq
  <2>4. QED BY <2>3
<1>8. CASE Chunk # job.todo
  <2>1. /\ Done(Chunk) \in Job /\ Done(Chunk).op = job.op
        /\ Done(Chunk).start = job.start + Chunk /\ Done(Chunk).todo = job.todo - Chunk
    BY <1>1, DoneJob
  <2>2. Request' = [op |-> job.op, start |-> job.start + Chunk, todo |-> job.todo - Chunk,
                    got |-> Got(Chunk)]
    BY <1>8, <2>1 DEF mmc_read_blocks, Request, Job
  <2>3. result' = result /\ ops' = ops
    BY <1>1, <1>8 DEF mmc_read_blocks, FlatInv
  <2>4. Request' = [Request EXCEPT !.start = Request.start + Chunk,
                                  !.todo = Request.todo - Chunk,
                                  !.got = IF Request.op = "read" THEN FD!Fetched(Chunk)
                                          ELSE Request.got]
    <3> DEFINE a == Request.start + Chunk
               n == Request.todo - Chunk
               g == IF Request.op = "read" THEN FD!Fetched(Chunk) ELSE Request.got
    <3>1. a = job.start + Chunk /\ n = job.todo - Chunk /\ g = Got(Chunk)
      BY <1>1, <1>5, Fields
    <3> HIDE DEF a, n, g
    <3>2. [Request EXCEPT !.start = a, !.todo = n, !.got = g]
            = [op |-> job.op, start |-> a, todo |-> n, got |-> g]
      BY RequestUpdate
    <3>3. Request' = [Request EXCEPT !.start = a, !.todo = n, !.got = g]
      BY <2>2, <3>1, <3>2
    <3>4. QED BY <3>3 DEF a, n, g
  <2>5. Request.op = job.op /\ Request.todo = job.todo
    BY Fields
  <2>6. FD!Advance(Chunk)
    BY <1>1, <1>6, <1>8, <2>3, <2>4, <2>5 DEF FD!Advance
  <2>7. QED BY <1>2, <2>6
<1>9. QED BY <1>7, <1>8

\* A command that fails ends its request after the blocks the card has taken.
LEMMA MapFail ==
  ASSUME IInv, FlatInv, (\E k \in 0..BMax : WriteFails(k)) \/ ReadFails
  PROVE  \E k \in 0..Lba : FD!Fail(k)
<1> USE DEF Returns
<1>1. TypeOK /\ Chunk \in Nat /\ Chunk <= job.todo /\ job.start \in Nat /\ job.todo \in Nat
  BY ChunkFits DEF IInv, TypeOK, Job
<1>2. ASSUME NEW k \in 0..BMax, WriteFails(k)
      PROVE  \E n \in 0..Lba : FD!Fail(n)
  <2>1. k \in Nat /\ k <= job.todo /\ job.op = "write" /\ store' = Put(k, ops)
        /\ HasParts' = HasParts
    BY <1>1, <1>2, ChunkAssumption DEF WriteFails, HasParts
  <2>2. k > 0 => job.start + k <= Lba
    BY <1>1, <1>2, SizeAssumption DEF WriteFails, OnCard, PartSize
  <2>3. k \in 0..Lba
    BY <1>1, <2>1, <2>2, SizeAssumption
  <2>4. Disk' = [b \in Block |-> IF job.start <= b /\ b < job.start + k THEN ops ELSE Disk[b]]
    BY <2>1, PutOnDisk
  <2>5. FD!Move(k)
    BY <2>1, <2>2, <2>4, Fields DEF FD!Move, FD!Stored, FD!Block, Block
  <2>6. Request' = [op |-> "idle", start |-> 0, todo |-> 0, got |-> <<>>]
    BY <1>2 DEF WriteFails, Idle, Request
  <2>7. FD!Fail(k)
    BY <1>2, <2>1, <2>5, <2>6, Fields DEF WriteFails, FD!Fail, FD!NoReq
  <2>8. QED BY <2>3, <2>7
<1>3. CASE ReadFails
  <2>1. Disk' = Disk
    BY <1>3, DiskStays DEF ReadFails, HasParts
  <2>2. FD!Move(0)
    BY <1>1, <1>3, <2>1, Fields DEF ReadFails, FD!Move
  <2>3. Request' = [op |-> "idle", start |-> 0, todo |-> 0, got |-> <<>>]
    BY <1>3 DEF ReadFails, Idle, Request
  <2>4. FD!Fail(0)
    BY <1>3, <2>2, <2>3, Fields DEF ReadFails, FD!Fail, FD!NoReq
  <2>5. QED BY <2>4, SizeAssumption
<1>4. QED BY <1>2, <1>3

\* A reset cuts the request off.
LEMMA MapReboot ==
  ASSUME IInv, Reboot
  PROVE  FD!CutOff
<1>1. Disk' = Disk
  BY DiskStays DEF Reboot, HasParts, IInv, NoParts
<1>2. Request' = [op |-> "idle", start |-> 0, todo |-> 0, got |-> <<>>]
  BY DEF Reboot, Idle, Request
<1>3. QED
  BY <1>1, <1>2 DEF Reboot, Returns, FD!CutOff, FD!NoReq, FD!Silent

\* For callers that only read and write, and while switches succeed, the block layer is one
\* flat array of blocks: whatever the size of the card and of its boot partitions, the
\* length of a command, the calls, the failures and the resets.
THEOREM IsFlatDisk == ASSUME DirectUse PROVE Spec => ImplementsFlatDisk
<1>1. ASSUME IInv, FlatInv, [Next]_vars
      PROVE  [FD!FlatNext]_(FD!flatVars)
  <2>1. ASSUME NEW s \in Spans, mmc_breadRefused(s)
        PROVE  FD!Refuse
    <3>1. Disk' = Disk
      BY <2>1, DiskStays DEF mmc_breadRefused, HasParts
    <3>2. Request' = Request
      BY <2>1 DEF mmc_breadRefused, Request
    <3>3. QED
      BY <2>1, <3>1, <3>2, Fields DEF mmc_breadRefused, Returns, FD!Refuse
  <2>2. CASE UNCHANGED vars
    BY <2>2, DiskStays DEF vars, FD!flatVars, HasParts, Request
  <2>3. Next => FD!FlatNext
    <3>1. ASSUME NEW s \in Spans, NEW op \in {"write", "read"}, Start(op, s)
          PROVE  FD!FlatNext
      BY <1>1, <3>1, MapStart DEF FD!FlatNext
    <3>2. CASE mmc_write_blocks
      BY <1>1, <3>2, MapWrite DEF FD!FlatNext
    <3>3. CASE mmc_read_blocks
      BY <1>1, <3>3, MapRead DEF FD!FlatNext
    <3>4. CASE (\E k \in 0..BMax : WriteFails(k)) \/ ReadFails
      BY <1>1, <3>4, MapFail DEF FD!FlatNext
    <3>5. CASE Reboot
      BY <1>1, <3>5, MapReboot DEF FD!FlatNext
    <3>6. QED
      BY <1>1, <2>1, <3>1, <3>2, <3>3, <3>4, <3>5, DirectSteps DEF FD!FlatNext
  <2>4. QED BY <1>1, <2>2, <2>3
<1>2. FD!FlatInit => Flat!FlatInit
  BY DEF FD!FlatInit, Flat!FlatInit, FD!NoReq, Flat!NoReq, FD!Silent, Flat!Silent, FD!Block,
         Flat!Block, Disk, Side, Request
<1>3. [FD!FlatNext]_(FD!flatVars) => [Flat!FlatNext]_(Flat!flatVars)
  BY DEF FD!FlatNext, FD!Begin, FD!Advance, FD!Fail, FD!Finish, FD!Refuse, FD!CutOff, FD!Move,
         FD!Stored, FD!Fetched, FD!NoReq, FD!Silent, FD!Block, FD!flatVars,
         Flat!FlatNext, Flat!Begin, Flat!Advance, Flat!Fail, Flat!Finish, Flat!Refuse,
         Flat!CutOff, Flat!Move, Flat!Stored, Flat!Fetched, Flat!NoReq, Flat!Silent, Flat!Block,
         Flat!flatVars, Disk, Side, Request
<1>4. QED
  BY <1>1, <1>2, <1>3, MapInit, FlatInvHolds, PTL
  DEF Spec, ImplementsFlatDisk, Flat!FlatSpec

=============================================================================
