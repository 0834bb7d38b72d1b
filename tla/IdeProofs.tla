----------------------------- MODULE IdeProofs -----------------------------
(***************************************************************************)
(* The IDE driver delivers what was asked, for any number of polls, any    *)
(* disk and any drive that finishes one job before it gets the next.       *)
(***************************************************************************)
EXTENDS Ide, TLAPS

(* The drive's registers agree with its job.                               *)
DriveInv ==
  /\ job.lba + job.n <= SECTORS /\ job.at <= job.n
  /\ drq = 1 => job.phase = "work" /\ bsy = 0 /\ job.at < job.n
  /\ latch # Nothing => job.phase = "work" /\ job.op = "write" /\ bsy = 1 /\ job.at > 0
  /\ job.phase = "work" /\ job.op # "write" => job.at < job.n
  /\ job.phase = "work" /\ job.op = "write" /\ job.at = job.n => latch # Nothing
  /\ job.phase = "sent" => job.at = 0 /\ job.n > 0
  /\ bus # "drive" => job.phase = "none" /\ pc \in {"boot", "idle", "ready"}

(* Past its command, a call and the job it started are at the same sector. *)
LinkInv ==
  /\ pc = "boot" => i = 0 /\ call.n = 0 /\ call.op = "read" /\ \A j \in Indices : buffer[j] = Nothing
  /\ pc = "ready" => i = 0 /\ call.n > 0 /\ stale = 0
  /\ pc = "drq" => i < call.n
  /\ pc = "final" => i = call.n /\ call.op = "write"
  /\ pc \in {"drq", "final"} /\ stale = 0 =>
       /\ job.phase # "none" => job.op = call.op /\ job.lba = call.lba /\ job.n = call.n /\ job.at = i
       /\ job.phase = "none" /\ i < call.n => err = 1

(* Nothing the drive still does can change what a read has delivered.      *)
ReadInv ==
  /\ ReadDelivers
  /\ pc # "boot" /\ call.op # "write" /\ stale = 0 /\ i > 0 =>
       latch = Nothing /\ (job.phase # "none" => job.op # "write")

(* Sectors before the last one sent are on the disk, the last one is there *)
(* or on its way, or the drive has reported an error.                      *)
WriteInv ==
  /\ pc \in {"drq", "final"} /\ call.op = "write" /\ stale = 0 /\ i > 0 =>
       /\ \A j \in 0 .. call.n - 1 : j < i - 1 => disk[call.lba + j] = SECTORS + j
       /\ \/ disk[call.lba + i - 1] = SECTORS + i - 1 /\ latch = Nothing
          \/ latch = SECTORS + i - 1 /\ job.phase = "work" /\ bsy = 1
          \/ job.phase = "none" /\ err = 1
  /\ WriteReported
  /\ pc = "idle" /\ call.op = "write" /\ stale = 0 /\ ret = 0 => job.phase = "none"

IInv == TypeOK /\ DriveInv /\ LinkInv /\ ReadInv /\ WriteInv
-----------------------------------------------------------------------------

USE IdeAssumption

(* The facts about types the steps below use.                              *)
LEMMA Types ==
  ASSUME TypeOK
  PROVE  /\ i \in Nat /\ i <= MAX_COUNT /\ timeout \in Int
         /\ call.n \in Nat /\ call.n <= MAX_COUNT /\ call.lba \in Nat /\ call.lba + call.n <= SECTORS
         /\ call.op \in {"read", "write", "identify"}
         /\ job.n \in Nat /\ job.n <= MAX_COUNT /\ job.lba \in Nat /\ job.at \in Nat
         /\ job.op \in {"read", "write", "identify"} /\ job.phase \in {"none", "sent", "work"}
  BY DEF TypeOK, Calls, Jobs, Sectors

LEMMA InitIInv == Init => IInv
<1> SUFFICES ASSUME Init PROVE IInv
  OBVIOUS
<1>1. TypeOK
  BY DEF Init, TypeOK, Sectors, Indices, Content, Nothing, IDENTITY, Calls, Jobs, NoJob
<1>2. DriveInv /\ LinkInv
  BY DEF Init, DriveInv, LinkInv, NoJob, Nothing
<1>3. ReadInv /\ WriteInv
  BY DEF Init, ReadInv, ReadDelivers, WriteInv, WriteReported, NoJob
<1> QED
  BY <1>1, <1>2, <1>3 DEF IInv

LEMMA Step_ide_init == ASSUME IInv, ide_init PROVE IInv'
<1> USE DEF IInv, ide_init, Return, Poll, InitResult, drive
<1>1. TypeOK'
  <2>1. pc' \in {"boot", "idle"} /\ ret' \in {-1, 0}
    BY DEF TypeOK
  <2>2. timeout' \in -1 .. TIMEOUT
    BY DEF TypeOK
  <2> QED
    BY <2>1, <2>2 DEF TypeOK
<1>2. DriveInv'
  BY DEF DriveInv, TypeOK
<1>3. LinkInv'
  BY DEF LinkInv
<1>4. ReadInv'
  BY Types DEF LinkInv, ReadInv, ReadDelivers, Asked, Indices
<1>5. WriteInv'
  BY DEF LinkInv, WriteInv, WriteReported
<1> QED
  BY <1>1, <1>2, <1>3, <1>4, <1>5

LEMMA Step_TimedOut == ASSUME IInv, TimedOut PROVE IInv'
<1> USE DEF IInv, TimedOut, Return, drive
<1>1. TypeOK'
  BY DEF TypeOK, Sectors, Indices, Content, Nothing, IDENTITY, Calls, Jobs, NoJob
<1>2. DriveInv'
  BY DEF DriveInv, LinkInv, TypeOK, Sectors, Indices, Content, Nothing, IDENTITY, Calls, Jobs, NoJob
<1>3. LinkInv'
  BY DEF DriveInv, LinkInv, TypeOK, Sectors, Indices, Content, Nothing, IDENTITY, Calls, Jobs, NoJob
<1>4. ReadInv'
  BY DEF DriveInv, LinkInv, ReadInv, ReadDelivers, Asked, TypeOK, Sectors, Indices, Content, Nothing, IDENTITY, Calls, Jobs, NoJob
<1>5. WriteInv'
  BY DEF DriveInv, LinkInv, WriteInv, WriteReported, TypeOK, Sectors, Indices, Content, Nothing, IDENTITY, Calls, Jobs, NoJob
<1> QED
  BY <1>1, <1>2, <1>3, <1>4, <1>5

LEMMA Step_WaitFinal == ASSUME IInv, WaitFinal PROVE IInv'
<1> USE DEF IInv, WaitFinal, Poll, Return, Ready, BSY, RDY, drive
<1>1. TypeOK'
  BY DEF TypeOK
<1>2. DriveInv' /\ LinkInv'
  BY DEF DriveInv, LinkInv, TypeOK
<1>3. ReadInv'
  BY DEF DriveInv, LinkInv, ReadInv, ReadDelivers, Asked, TypeOK
<1>4. WriteInv'
  <2>1. CASE pc' = "final"
    BY <2>1 DEF WriteInv, WriteReported
  <2>2. CASE Ready /\ pc' = "idle" /\ ret' = 0
    <3>1. SUFFICES ASSUME stale = 0 PROVE WriteInv'
      BY <2>2 DEF WriteInv, WriteReported
    <3>2. bus = "drive" /\ bsy = 0 /\ call.op = "write" /\ i = call.n
      BY <2>2, <3>1 DEF DriveInv, LinkInv, TypeOK
    <3>3. CASE i = 0
      BY <2>2, <3>2, <3>3, Types DEF WriteInv, WriteReported, DriveInv, LinkInv
    <3>4. CASE i > 0
      <4>1. job.phase = "none"
        BY <3>1, <3>2, <3>4, Types DEF DriveInv, LinkInv, WriteInv
      <4>2. /\ \A j \in 0 .. call.n - 1 : j < i - 1 => disk[call.lba + j] = SECTORS + j
            /\ disk[call.lba + i - 1] = SECTORS + i - 1 \/ err = 1
        BY <3>1, <3>2, <3>4, <4>1 DEF WriteInv
      <4>3. \A j \in 0 .. call.n - 1 :
              disk[call.lba + j] = SECTORS + j \/ (j = call.n - 1 /\ err = 1)
        <5> TAKE j \in 0 .. call.n - 1
        <5>1. CASE j < i - 1
          BY <4>2, <5>1
        <5>2. CASE j = i - 1
          <6>1. call.lba + j = call.lba + i - 1 /\ SECTORS + j = SECTORS + i - 1
            BY <5>2, Types
          <6> QED
            BY <4>2, <5>2, <6>1, <3>2
        <5> QED
          BY <5>1, <5>2, <3>2, Types
      <4> QED
        BY <2>2, <4>1, <4>3 DEF WriteInv, WriteReported
    <3> QED
      BY <3>3, <3>4, Types
  <2> QED
    BY <2>1, <2>2
<1> QED
  BY <1>1, <1>2, <1>3, <1>4

LEMMA Step_SpinUp == ASSUME IInv, bus = "drive", SpinUp PROVE IInv'
<1> USE DEF IInv, SpinUp, driver
<1>1. TypeOK'
  BY DEF TypeOK, Sectors, Indices, Content, Nothing, IDENTITY, Calls, Jobs, NoJob
<1>2. DriveInv'
  BY DEF DriveInv, LinkInv, TypeOK, Sectors, Indices, Content, Nothing, IDENTITY, Calls, Jobs, NoJob
<1>3. LinkInv'
  BY DEF DriveInv, LinkInv, TypeOK, Sectors, Indices, Content, Nothing, IDENTITY, Calls, Jobs, NoJob
<1>4. ReadInv'
  BY DEF DriveInv, LinkInv, ReadInv, ReadDelivers, Asked, TypeOK, Sectors, Indices, Content, Nothing, IDENTITY, Calls, Jobs, NoJob
<1>5. WriteInv'
  BY DEF DriveInv, LinkInv, WriteInv, WriteReported, TypeOK, Sectors, Indices, Content, Nothing, IDENTITY, Calls, Jobs, NoJob
<1> QED
  BY <1>1, <1>2, <1>3, <1>4, <1>5

LEMMA Step_Accept == ASSUME IInv, bus = "drive", Accept PROVE IInv'
<1> USE DEF IInv, Accept, driver
<1>1. TypeOK'
  BY DEF TypeOK, Sectors, Indices, Content, Nothing, IDENTITY, Calls, Jobs, NoJob
<1>2. DriveInv'
  BY DEF DriveInv, LinkInv, TypeOK, Sectors, Indices, Content, Nothing, IDENTITY, Calls, Jobs, NoJob
<1>3. LinkInv'
  BY DEF DriveInv, LinkInv, TypeOK, Sectors, Indices, Content, Nothing, IDENTITY, Calls, Jobs, NoJob
<1>4. ReadInv'
  BY DEF DriveInv, LinkInv, ReadInv, ReadDelivers, Asked, TypeOK, Sectors, Indices, Content, Nothing, IDENTITY, Calls, Jobs, NoJob
<1>5. WriteInv'
  BY DEF DriveInv, LinkInv, WriteInv, WriteReported, TypeOK, Sectors, Indices, Content, Nothing, IDENTITY, Calls, Jobs, NoJob
<1> QED
  BY <1>1, <1>2, <1>3, <1>4, <1>5

LEMMA Step_Fault == ASSUME IInv, bus = "drive", Fault PROVE IInv'
<1> USE DEF IInv, Fault, driver
<1>1. TypeOK'
  BY DEF TypeOK, Sectors, Indices, Content, Nothing, IDENTITY, Calls, Jobs, NoJob
<1>2. DriveInv'
  BY DEF DriveInv, LinkInv, TypeOK, Sectors, Indices, Content, Nothing, IDENTITY, Calls, Jobs, NoJob
<1>3. LinkInv'
  BY DEF DriveInv, LinkInv, TypeOK, Sectors, Indices, Content, Nothing, IDENTITY, Calls, Jobs, NoJob
<1>4. ReadInv'
  BY DEF DriveInv, LinkInv, ReadInv, ReadDelivers, Asked, TypeOK, Sectors, Indices, Content, Nothing, IDENTITY, Calls, Jobs, NoJob
<1>5. WriteInv'
  BY DEF DriveInv, LinkInv, WriteInv, WriteReported, TypeOK, Sectors, Indices, Content, Nothing, IDENTITY, Calls, Jobs, NoJob
<1> QED
  BY <1>1, <1>2, <1>3, <1>4, <1>5

LEMMA Step_Work == ASSUME IInv, bus = "drive", Work PROVE IInv'
<1> USE DEF IInv, Work, driver
<1>0. latch # Nothing => job.at > 0 /\ job.lba + job.at - 1 \in Sectors
  BY Types DEF DriveInv, Sectors
<1>1. TypeOK'
  <2>1. disk' \in [Sectors -> Content]
    BY <1>0 DEF TypeOK
  <2>2. job' \in Jobs
    BY DEF TypeOK, NoJob, Jobs, Sectors
  <2>3. latch' \in Content
    BY DEF Content
  <2> QED
    BY <2>1, <2>2, <2>3 DEF TypeOK
<1>2. DriveInv'
  BY DEF DriveInv, LinkInv, TypeOK, Sectors, Nothing, Calls, Jobs, NoJob
<1>3. LinkInv'
  BY DEF DriveInv, LinkInv, TypeOK, Sectors, Calls, Jobs, NoJob
<1>4. ReadInv'
  BY DEF DriveInv, LinkInv, ReadInv, ReadDelivers, Asked, TypeOK, Sectors, Indices, Nothing, Calls, Jobs, NoJob
<1>5. WriteInv'
  <2>1. CASE pc \in {"drq", "final"} /\ call.op = "write" /\ stale = 0 /\ i > 0
    <3>1. job.op = "write" /\ job.lba = call.lba /\ job.n = call.n /\ job.at = i
      BY <2>1 DEF LinkInv
    <3>2. latch # Nothing => latch = SECTORS + i - 1
      BY <2>1 DEF WriteInv
    <3>3. latch = Nothing => disk[call.lba + i - 1] = SECTORS + i - 1
      BY <2>1, Types DEF WriteInv, Nothing
    <3>4. disk'[call.lba + i - 1] = SECTORS + i - 1
      <4>1. CASE latch = Nothing
        BY <3>3, <4>1
      <4>2. CASE latch # Nothing
        BY <1>0, <3>1, <3>2, <4>2 DEF TypeOK
      <4> QED
        BY <4>1, <4>2
    <3>5. \A j \in 0 .. call.n - 1 : j < i - 1 => disk'[call.lba + j] = SECTORS + j
      <4> SUFFICES ASSUME NEW j \in 0 .. call.n - 1, j < i - 1
                   PROVE  disk'[call.lba + j] = SECTORS + j
        OBVIOUS
      <4>1. disk[call.lba + j] = SECTORS + j
        BY <2>1 DEF WriteInv
      <4>2. call.lba + j # job.lba + job.at - 1 /\ call.lba + j \in Sectors
        BY <3>1, Types DEF Sectors
      <4> QED
        BY <4>1, <4>2 DEF TypeOK
    <3> QED
      BY <2>1, <3>4, <3>5 DEF WriteInv, WriteReported
  <2>2. CASE ~(pc \in {"drq", "final"} /\ call.op = "write" /\ stale = 0 /\ i > 0)
    <3>1. ~(pc = "idle" /\ call.op = "write" /\ stale = 0 /\ ret = 0)
      BY DEF WriteInv
    <3> QED
      BY <2>2, <3>1 DEF WriteInv, WriteReported
  <2> QED
    BY <2>1, <2>2
<1> QED
  BY <1>1, <1>2, <1>3, <1>4, <1>5

LEMMA Step_Call == ASSUME IInv, NEW c \in Calls, Call(c) PROVE IInv'
<1> USE DEF IInv, Call, Return, Await, drive
<1>1. TypeOK'
  <2>1. buffer' \in [Indices -> Content]
    BY DEF Content
  <2>2. timeout' \in -1 .. TIMEOUT /\ i' \in 0 .. MAX_COUNT
    BY DEF TypeOK
  <2> QED
    BY <2>1, <2>2 DEF TypeOK
<1>2. DriveInv'
  BY DEF DriveInv, TypeOK
<1>3. LinkInv'
  BY DEF LinkInv, Calls
<1>4. ReadInv'
  <2>1. \A j \in Indices : ~(j < 0)
    BY DEF Indices
  <2>2. c.n = 0 => ret' = -1
    OBVIOUS
  <2>3. pc' = "idle" => ret' = -1
    BY DEF Calls
  <2> QED
    BY <2>1, <2>3 DEF ReadInv, ReadDelivers
<1>5. WriteInv'
  BY DEF WriteInv, WriteReported, Calls
<1> QED
  BY <1>1, <1>2, <1>3, <1>4, <1>5

LEMMA Step_WaitReady == ASSUME IInv, WaitReady PROVE IInv'
<1>1. CASE pc' = "ready"
  <2>1. UNCHANGED <<bus, drive, pc, call, i, buffer, ret, stale>> /\ timeout' \in -1 .. TIMEOUT
    BY <1>1 DEF IInv, TypeOK, WaitReady, Poll, Await
  <2>2. TypeOK'
    BY <2>1 DEF IInv, TypeOK, drive
  <2>3. DriveInv' /\ LinkInv'
    BY <2>1 DEF IInv, DriveInv, LinkInv, drive
  <2>4. ReadInv' /\ WriteInv'
    BY <2>1 DEF IInv, ReadInv, ReadDelivers, Asked, WriteInv, WriteReported, drive
  <2> QED
    BY <2>2, <2>3, <2>4 DEF IInv
<1>2. CASE Ready /\ Issue /\ Await("drq")
  <2> USE <1>2 DEF IInv
  <2>1. /\ pc = "ready" /\ pc' = "drq" /\ timeout' = TIMEOUT
        /\ UNCHANGED <<bus, bsy, err, disk, call, i, buffer, ret>>
        /\ stale' = IF job.phase = "none" THEN 0 ELSE 1
        /\ \/ job' = NewJob /\ drq' = 0 /\ latch' = Nothing
           \/ job.phase # "none" /\ UNCHANGED <<job, drq, latch>>
    BY DEF WaitReady, Issue, Await
  <2>2. bus = "drive" /\ bsy = 0 /\ i = 0 /\ call.n > 0
    BY <2>1 DEF Ready, BSY, RDY, LinkInv, TypeOK
  <2>3. NewJob \in Jobs
    BY DEF NewJob, Jobs, TypeOK, Calls
  <2>4. TypeOK'
    BY <2>1, <2>3 DEF TypeOK, Content
  <2>5. NewJob.lba + NewJob.n <= SECTORS /\ NewJob.at = 0 /\ NewJob.phase = "sent" /\ NewJob.n > 0
        /\ NewJob.n = call.n /\ NewJob.lba = call.lba /\ NewJob.op = call.op
    BY <2>2, Types DEF NewJob
  <2>6. DriveInv'
    <3>1. CASE job' = NewJob /\ drq' = 0 /\ latch' = Nothing
      BY <2>1, <2>2, <2>5, <3>1, Types DEF DriveInv
    <3>2. CASE UNCHANGED <<job, drq, latch>>
      BY <2>1, <2>2, <3>2 DEF DriveInv
    <3> QED
      BY <2>1, <3>1, <3>2
  <2>7. stale' = 0 => job' = NewJob
    BY <2>1
  <2>8. LinkInv'
    BY <2>1, <2>2, <2>5, <2>7 DEF LinkInv
  <2>9. ReadInv'
    <3>1. \A j \in Indices : ~(j < 0)
      BY DEF Indices
    <3>2. stale = 0
      BY <2>1 DEF LinkInv
    <3> QED
      BY <2>1, <2>2, <3>1, <3>2 DEF ReadInv, ReadDelivers
  <2>10. WriteInv'
    BY <2>1, <2>2 DEF WriteInv, WriteReported
  <2> QED
    BY <2>4, <2>6, <2>8, <2>9, <2>10
<1> QED
  BY <1>1, <1>2 DEF WaitReady

LEMMA Step_WaitDrq == ASSUME IInv, WaitDrq PROVE IInv'
<1> USE DEF IInv
<1>0. pc = "drq" /\ i < call.n /\ UNCHANGED <<bus, call, stale>> /\ bus = "drive"
  BY DEF WaitDrq, LinkInv, DriveInv
<1>1. CASE UNCHANGED <<i, buffer, drive>> /\ Poll /\ (UNCHANGED <<pc, ret>> \/ Return(-1))
  <2>1. timeout' \in -1 .. TIMEOUT
    BY <1>1 DEF Poll, TypeOK
  <2>2. TypeOK'
    BY <1>0, <1>1, <2>1 DEF TypeOK, drive, Return
  <2>3. DriveInv' /\ LinkInv'
    BY <1>0, <1>1 DEF DriveInv, LinkInv, drive, Return
  <2>4. ReadInv'
    BY <1>0, <1>1, SMTT(30) DEF ReadInv, ReadDelivers, Asked, drive, Return
  <2>5. WriteInv'
    BY <1>0, <1>1 DEF WriteInv, WriteReported, drive, Return
  <2> QED
    BY <2>2, <2>3, <2>4, <2>5
<1>2. CASE DRQ /\ Transfer /\ i' = i + 1 /\ AfterSector
  <2> DEFINE in == call.op # "write"
             matches == (job.op # "write") = in
             last == job.at + 1 = job.n
  <2>1. job.phase = "work" /\ bsy = 0 /\ job.at < job.n /\ latch = Nothing
    BY <1>0, <1>2 DEF DRQ, DriveInv
  <2>2. /\ pc' = "drq" => i' < call.n
        /\ pc' = "final" => i' = call.n /\ call.op = "write"
        /\ pc' \in {"drq", "final", "idle"}
        /\ pc' = "idle" => i' = call.n /\ call.op # "write" /\ ret' = 0
        /\ ret' \in {-1, 0} /\ timeout' \in -1 .. TIMEOUT
    BY <1>2 DEF AfterSector, Await, Return, TypeOK
  <2>3. /\ UNCHANGED <<err, disk>>
        /\ in => buffer' = [buffer EXCEPT ![i] = IF matches THEN Asked(job, job.at) ELSE Nothing]
        /\ ~in => UNCHANGED buffer
        /\ ~matches => UNCHANGED <<bsy, drq, job, latch>>
        /\ matches =>
             /\ drq' = 0
             /\ latch' = IF in THEN latch ELSE SECTORS + i
             /\ bsy' = IF in /\ last THEN 0 ELSE 1
             /\ job' = IF in /\ last THEN NoJob ELSE [job EXCEPT !.at = @ + 1]
    BY <1>2, <2>1 DEF Transfer
  <2>4. i \in Indices /\ i' \in 0 .. MAX_COUNT /\ i \in Nat
    BY <1>0, <1>2, Types DEF Indices
  <2>5. stale = 0 => matches /\ job.op = call.op /\ job.lba = call.lba /\ job.n = call.n /\ job.at = i
    BY <1>0, <2>1 DEF LinkInv
  <2>6. Asked(job, job.at) \in Content /\ SECTORS + i \in Content
    <3>1. job.lba + job.at \in Sectors
      BY <2>1, Types DEF DriveInv, Sectors
    <3>2. IDENTITY \in Content /\ SECTORS + i \in Content
      BY <1>0, Types DEF Content, IDENTITY
    <3> QED
      BY <3>1, <3>2 DEF Asked, TypeOK
  <2>7. job' \in Jobs
    <3>1. [job EXCEPT !.at = @ + 1] \in Jobs
      BY <2>1, Types DEF TypeOK, Jobs
    <3>2. NoJob \in Jobs
      BY DEF NoJob, Jobs, Sectors
    <3> QED
      BY <2>3, <3>1, <3>2 DEF TypeOK
  <2>8. buffer' \in [Indices -> Content] /\ latch' \in Content
    <3>1. Nothing \in Content
      BY DEF Content
    <3> QED
      BY <2>3, <2>4, <2>6, <3>1 DEF TypeOK
  <2>9. TypeOK'
    BY <1>0, <2>2, <2>3, <2>4, <2>7, <2>8 DEF TypeOK
  <2>10. ~(in /\ last) /\ matches =>
           /\ job'.op = job.op /\ job'.lba = job.lba /\ job'.n = job.n
           /\ job'.phase = "work" /\ job'.at = job.at + 1
    BY <2>1, <2>3 DEF TypeOK, Jobs
  <2>11. in /\ last /\ matches => job'.phase = "none" /\ job'.lba = 0 /\ job'.n = 0 /\ job'.at = 0
    BY <2>3 DEF NoJob
  <2>12. SECTORS + i # Nothing
    BY <2>4 DEF Nothing
  <2>13. DriveInv'
    <3>1. CASE ~matches
      BY <1>0, <2>2, <2>3, <3>1 DEF DriveInv
    <3>2. CASE matches /\ in /\ last
      BY <1>0, <2>1, <2>3, <2>11, <3>2 DEF DriveInv
    <3>3. CASE matches /\ in /\ ~last
      BY <1>0, <2>1, <2>3, <2>10, <3>3, Types DEF DriveInv
    <3>4. CASE matches /\ ~in
      BY <1>0, <2>1, <2>3, <2>10, <2>12, <3>4, Types DEF DriveInv
    <3> QED
      BY <3>1, <3>2, <3>3, <3>4
  <2>14. LinkInv'
    <3>1. stale' = 0 /\ pc' \in {"drq", "final"} => ~(in /\ last)
      BY <1>0, <1>2, <2>2, <2>5
    <3>2. stale' = 0 /\ pc' \in {"drq", "final"} =>
            /\ job'.phase = "work"
            /\ job'.op = call'.op /\ job'.lba = call'.lba /\ job'.n = call'.n /\ job'.at = i'
      BY <1>0, <1>2, <2>5, <2>10, <3>1
    <3> QED
      BY <1>0, <2>2, <3>2 DEF LinkInv
  <2>15. ReadInv'
    <3>1. CASE in /\ stale = 0
      <4>1. buffer' = [buffer EXCEPT ![i] = Asked(call, i)]
        BY <2>3, <2>5, <3>1 DEF Asked
      <4>2. \A j \in Indices : buffer[j] = IF j < i THEN Asked(call, j) ELSE Nothing
        BY <1>0, <3>1 DEF ReadInv, ReadDelivers
      <4>3. \A j \in Indices : buffer'[j] = IF j < i + 1 THEN Asked(call, j) ELSE Nothing
        BY <2>4, <4>1, <4>2 DEF TypeOK, Indices
      <4>4. \A j \in Indices : buffer'[j] = IF j < i' THEN Asked(call, j)' ELSE Nothing
        BY <1>0, <1>2, <2>3, <4>3 DEF Asked
      <4>5. latch' = Nothing /\ (job'.phase # "none" => job'.op # "write")
        BY <2>1, <2>3, <2>5, <2>10, <2>11, <3>1
      <4> QED
        BY <1>0, <2>2, <4>4, <4>5 DEF ReadInv, ReadDelivers
    <3>2. CASE ~in \/ stale # 0
      BY <1>0, <3>2 DEF ReadInv, ReadDelivers
    <3> QED
      BY <3>1, <3>2 DEF TypeOK
  <2>16. WriteInv'
    <3>1. CASE ~in /\ stale = 0
      <4>1. /\ latch' = SECTORS + i /\ job'.phase = "work" /\ bsy' = 1
        BY <2>3, <2>5, <2>10, <3>1
      <4>2. \A j \in 0 .. call.n - 1 : j < i => disk[call.lba + j] = SECTORS + j
        <5> SUFFICES ASSUME NEW j \in 0 .. call.n - 1, j < i PROVE disk[call.lba + j] = SECTORS + j
          OBVIOUS
        <5>1. i > 0
          BY <2>4
        <5>2. CASE j < i - 1
          BY <1>0, <3>1, <5>1, <5>2 DEF WriteInv
        <5>3. CASE j = i - 1
          <6>1. disk[call.lba + i - 1] = SECTORS + i - 1
            BY <1>0, <2>1, <3>1, <5>1, <2>4 DEF WriteInv, Nothing
          <6>2. call.lba + j = call.lba + i - 1 /\ SECTORS + j = SECTORS + i - 1
            BY <5>3, <2>4, Types
          <6> QED
            BY <6>1, <6>2
        <5> QED
          BY <5>2, <5>3, <2>4, Types
      <4>3. SECTORS + i = SECTORS + i' - 1 /\ i' - 1 = i
        BY <1>2, <2>4
      <4> QED
        BY <1>0, <2>2, <2>3, <3>1, <4>1, <4>2, <4>3 DEF WriteInv, WriteReported
    <3>2. CASE in \/ stale # 0
      BY <1>0, <2>2, <3>2 DEF WriteInv, WriteReported
    <3> QED
      BY <3>1, <3>2
  <2> QED
    BY <2>9, <2>13, <2>14, <2>15, <2>16
<1> QED
  BY <1>1, <1>2 DEF WaitDrq

(* IInv is an inductive invariant of the driver and the drive.             *)
THEOREM IdeInductive == Spec => []IInv
<1>1. Init => IInv
  BY InitIInv
<1>2. IInv /\ [Next]_vars => IInv'
  <2> SUFFICES ASSUME IInv, [Next]_vars PROVE IInv'
    OBVIOUS
  <2>1. CASE UNCHANGED vars
    <3>1. TypeOK' /\ DriveInv'
      BY <2>1 DEF vars, IInv, TypeOK, DriveInv
    <3>2. LinkInv'
      BY <2>1 DEF vars, IInv, LinkInv
    <3>3. ReadInv'
      BY <2>1 DEF vars, IInv, ReadInv, ReadDelivers, Asked
    <3>4. WriteInv'
      BY <2>1 DEF vars, IInv, WriteInv, WriteReported
    <3> QED BY <3>1, <3>2, <3>3, <3>4 DEF IInv
  <2>2. CASE Driver
    BY <2>2, Step_ide_init, Step_TimedOut, Step_WaitReady, Step_WaitDrq, Step_WaitFinal DEF Driver
  <2>3. CASE \E c \in Calls : Call(c)
    BY <2>3, Step_Call
  <2>4. CASE Drive
    BY <2>4, Step_SpinUp, Step_Accept, Step_Work, Step_Fault DEF Drive
  <2> QED
    BY <2>1, <2>2, <2>3, <2>4 DEF Next
<1> QED
  BY <1>1, <1>2, PTL DEF Spec

(* The driver's state stays well typed.                                    *)
THEOREM IdeTypeCorrect == Spec => []TypeOK
  BY IdeInductive, PTL DEF IInv

(* ide_read_sectors and ide_identify deliver what was asked, for any       *)
(* number of polls and any drive that had finished its earlier jobs.       *)
THEOREM IdeReadDelivers == Spec => []ReadDelivers
<1>1. IInv => ReadDelivers
  BY DEF IInv, ReadInv
<1> QED
  BY <1>1, IdeInductive, PTL

(* ide_write_sectors reports success only for sectors that are on the disk *)
(* (or a last one the drive has flagged).                                  *)
THEOREM IdeWriteReported == Spec => []WriteReported
<1>1. IInv => WriteReported
  BY DEF IInv, WriteInv
<1> QED
  BY <1>1, IdeInductive, PTL

(* ide_init reports no controller that was busy at every poll.             *)
THEOREM IdeInitSound == Spec => InitSound
<1>1. [Next]_vars => [pc = "boot" /\ pc' = "idle" /\ ret' = 0 => ~BSY]_vars
  BY DEF Next, Driver, Drive, ide_init, InitResult, Return, Poll, TimedOut, WaitReady, WaitDrq, WaitFinal,
         Call, SpinUp, Accept, Work, Fault, driver, BSY, vars
<1> QED
  BY <1>1, PTL DEF Spec, InitSound

=============================================================================
