-------------------------------- MODULE Ide --------------------------------
(***************************************************************************)
(* The polling IDE driver (ide.c) against a drive that works at its own    *)
(* pace: it may answer a poll too late, fail any sector, never answer, or  *)
(* not be there.  Each read of the status register is a step, so the drive *)
(* may change between any two polls, and goes on working when the driver   *)
(* has given up.                                                           *)
(*                                                                         *)
(* A sector's content is a number: sector s holds s at first, and the j-th *)
(* sector of a buffer to be written holds SECTORS + j.                     *)
(***************************************************************************)
EXTENDS Integers

CONSTANTS
  TIMEOUT,       \* 100000 polls
  SECTORS,       \* size of the disk
  MAX_COUNT      \* bound: sectors per call (sector_count is a uint8_t)

ASSUME IdeAssumption ==
  /\ TIMEOUT \in Nat \ {0}
  /\ SECTORS \in Nat \ {0} /\ MAX_COUNT \in Nat \ {0} /\ MAX_COUNT <= SECTORS

VARIABLES
  bus,             \* "drive", or no drive: all lines read "ones" or "zeros"
  bsy, drq, err,   \* the drive's status bits
  job,             \* the command it works on, and how many sectors it has moved
  latch,           \* the sector received from the host and not yet on the disk
  disk,
  pc,              \* "boot", "idle", or the wait the driver is in
  timeout,         \* the local variable of that wait
  call,            \* the call's arguments
  i, buffer, ret,
  stale            \* ghost: 1 if the drive had not finished an earlier job
                   \* when this call wrote its command

drive  == <<bsy, drq, err, job, latch, disk>>
driver == <<pc, timeout, call, i, buffer, ret, stale>>
vars   == <<bus, bsy, drq, err, job, latch, disk,
            pc, timeout, call, i, buffer, ret, stale>>

Sectors  == 0 .. SECTORS - 1
Indices  == 0 .. MAX_COUNT - 1
IDENTITY == 2 * SECTORS        \* what IDENTIFY DEVICE answers
Nothing  == -1                 \* never written; also what a wrong transfer reads
Content  == {Nothing} \cup 0 .. IDENTITY

Calls == {c \in [op : {"read", "write", "identify"}, lba : Sectors, n : 0 .. MAX_COUNT] :
            c.lba + c.n <= SECTORS /\ (c.op = "identify" => c.lba = 0 /\ c.n = 1)}
Jobs  == [phase : {"none", "sent", "work"}, op : {"read", "write", "identify"},
          lba : Sectors, n : 0 .. MAX_COUNT, at : 0 .. MAX_COUNT]
NoJob == [phase |-> "none", op |-> "read", lba |-> 0, n |-> 0, at |-> 0]

TypeOK ==
  /\ bus \in {"drive", "ones", "zeros"}
  /\ bsy \in {0, 1} /\ drq \in {0, 1} /\ err \in {0, 1}
  /\ job \in Jobs /\ latch \in Content
  /\ disk \in [Sectors -> Content]
  /\ pc \in {"boot", "idle", "ready", "drq", "final"}
  /\ timeout \in -1 .. TIMEOUT
  /\ call \in Calls /\ i \in 0 .. MAX_COUNT
  /\ buffer \in [Indices -> Content]
  /\ ret \in {-1, 0} /\ stale \in {0, 1}

(* ide_init has disabled interrupts; a drive may still be spinning up.     *)
Init ==
  /\ bus \in {"drive", "ones", "zeros"} /\ bsy \in {0, 1}
  /\ drq = 0 /\ err = 0 /\ job = NoJob /\ latch = Nothing
  /\ disk = [s \in Sectors |-> s]
  /\ pc = "boot" /\ timeout = TIMEOUT
  /\ call = [op |-> "read", lba |-> 0, n |-> 0]
  /\ i = 0 /\ buffer = [j \in Indices |-> Nothing] /\ ret = -1 /\ stale = 0

(* inb of the status register.                                             *)
BSY == bus = "ones" \/ (bus = "drive" /\ bsy = 1)
DRQ == bus = "ones" \/ (bus = "drive" /\ drq = 1)
ERR == bus = "ones" \/ (bus = "drive" /\ err = 1)
RDY == bus # "zeros"
-----------------------------------------------------------------------------
(* The driver's waits.  while (timeout--) polls TIMEOUT times and leaves   *)
(* -1 in timeout, or leaves what was left when a poll ended it.            *)
Return(r) == pc' = "idle" /\ ret' = r
Poll_NotCounted == timeout > 0 /\ UNCHANGED timeout
Poll == timeout > 0 /\ timeout' = timeout - 1
Await(where) == pc' = where /\ timeout' = TIMEOUT

TimedOut ==
  /\ pc \in {"ready", "drq", "final"} /\ timeout = 0
  /\ timeout' = -1 /\ Return(-1)
  /\ UNCHANGED <<bus, drive, call, i, buffer, stale>>

(* ide_init: 0xFF is no drive; otherwise poll until not busy.  A drive     *)
(* that is ready at the very last poll leaves timeout = 0, a failure too.  *)
InitResult_LostCase(t) == IF t = 0 THEN -1 ELSE 0
InitResult(t) == IF t <= 0 THEN -1 ELSE 0
ide_init ==
  /\ pc = "boot"
  /\ \/ bus = "ones" /\ Return(-1) /\ UNCHANGED timeout
     \/ bus # "ones" /\ Poll /\ BSY /\ UNCHANGED <<pc, ret>>
     \/ bus # "ones" /\ Poll /\ ~BSY /\ Return(InitResult(timeout'))
     \/ bus # "ones" /\ timeout = 0 /\ timeout' = -1 /\ Return(InitResult(-1))
  /\ UNCHANGED <<bus, drive, call, i, buffer, stale>>

(* ide_read_sectors, ide_write_sectors and ide_identify up to their first  *)
(* wait.                                                                   *)
Call(c) ==
  /\ pc = "idle"
  /\ call' = c /\ i' = 0 /\ buffer' = [j \in Indices |-> Nothing] /\ stale' = 0
  /\ \/ c.n = 0 /\ Return(-1) /\ UNCHANGED timeout
     \/ c.n > 0 /\ Await("ready") /\ UNCHANGED ret
  /\ UNCHANGED <<bus, drive>>

(* The command register is written: a drive that still has a job ignores   *)
(* the command or drops the job.  The status bits are those of before      *)
(* until the drive looks at the command.                                   *)
NewJob == [phase |-> "sent", op |-> call.op, lba |-> call.lba, n |-> call.n, at |-> 0]
Issue ==
  /\ stale' = IF job.phase = "none" THEN 0 ELSE 1
  /\ \/ job' = NewJob /\ drq' = 0 /\ latch' = Nothing
     \/ job.phase # "none" /\ UNCHANGED <<job, drq, latch>>
  /\ UNCHANGED <<bsy, err, disk>>

(* ide_wait_ready, and on success the registers and the command.  (After   *)
(* the command ide_identify returns -1 if it reads a status of 0, which is *)
(* what a drive that is not there shows once it is selected.  Every call   *)
(* here selects the one drive there is, which keeps RDY set; without it    *)
(* the call would end with the same -1 after ide_wait_drq's polls.)        *)
Ready_EvenIfBusy == RDY
Ready == ~BSY /\ RDY
WaitReady ==
  /\ pc = "ready"
  /\ \/ Poll /\ ~Ready /\ UNCHANGED <<pc, drive, stale>>
     \/ timeout > 0 /\ Ready /\ Issue /\ Await("drq")
  /\ UNCHANGED <<bus, call, i, buffer, ret>>

(* The 256 words of a sector.  Words moved against the direction of the    *)
(* drive's job mean nothing to either side.                                *)
Asked(c, j) == IF c.op = "identify" THEN IDENTITY ELSE disk[c.lba + j]
Transfer ==
  LET in == call.op # "write"
      matches == job.phase = "work" /\ (job.op # "write") = in
      last == job.at + 1 = job.n
  IN  /\ IF in
         THEN buffer' = [buffer EXCEPT ![i] = IF matches THEN Asked(job, job.at) ELSE Nothing]
         ELSE UNCHANGED buffer
      /\ IF ~matches THEN UNCHANGED <<bsy, drq, job, latch>>
         ELSE /\ drq' = 0
              /\ latch' = IF in THEN latch ELSE SECTORS + i
              /\ bsy' = IF in /\ last THEN 0 ELSE 1
              /\ job' = IF in /\ last THEN NoJob ELSE [job EXCEPT !.at = @ + 1]
      /\ UNCHANGED <<err, disk>>

(* ide_wait_drq, which looks at DRQ before ERR, then the transfer; after   *)
(* the last sector a write waits once more and a read is done.             *)
AfterSector_NoFinalWait ==
  \/ i + 1 < call.n /\ Await("drq") /\ UNCHANGED ret
  \/ i + 1 = call.n /\ Return(0) /\ UNCHANGED timeout
AfterSector ==
  \/ i + 1 < call.n /\ Await("drq") /\ UNCHANGED ret
  \/ i + 1 = call.n /\ call.op = "write" /\ Await("final") /\ UNCHANGED ret
  \/ i + 1 = call.n /\ call.op # "write" /\ Return(0) /\ UNCHANGED timeout
WaitDrq ==
  /\ pc = "drq"
  /\ \/ Poll /\ ~DRQ /\ ~ERR /\ UNCHANGED <<pc, ret, i, buffer, drive>>
     \/ Poll /\ ~DRQ /\ ERR /\ Return(-1) /\ UNCHANGED <<i, buffer, drive>>
     \/ timeout > 0 /\ DRQ /\ Transfer /\ i' = i + 1 /\ AfterSector
  /\ UNCHANGED <<bus, call, stale>>

(* The last wait of ide_write_sectors: ide_wait_ready again.               *)
WaitFinal ==
  /\ pc = "final"
  /\ \/ Poll /\ ~Ready /\ UNCHANGED <<pc, ret>>
     \/ Poll /\ Ready /\ Return(0)
  /\ UNCHANGED <<bus, drive, call, i, buffer, stale>>

Driver == ide_init \/ TimedOut \/ WaitReady \/ WaitDrq \/ WaitFinal
-----------------------------------------------------------------------------
(* The drive.                                                              *)

SpinUp ==
  /\ job.phase = "none" /\ bsy = 1 /\ bsy' = 0
  /\ UNCHANGED <<bus, drq, err, job, latch, disk, driver>>

Accept ==
  /\ job.phase = "sent"
  /\ job' = [job EXCEPT !.phase = "work"] /\ bsy' = 1 /\ err' = 0
  /\ UNCHANGED <<bus, drq, latch, disk, driver>>

(* The sector received goes to the disk; then the next is asked for or     *)
(* offered, or the command is over.                                        *)
Work ==
  /\ job.phase = "work" /\ bsy = 1 /\ bsy' = 0
  /\ disk' = IF latch = Nothing THEN disk
             ELSE [disk EXCEPT ![job.lba + job.at - 1] = latch]
  /\ latch' = Nothing
  /\ \/ job.at < job.n /\ drq' = 1 /\ UNCHANGED job
     \/ job.at = job.n /\ job' = NoJob /\ UNCHANGED drq
  /\ UNCHANGED <<bus, err, driver>>

Fault ==
  /\ job.phase = "work" /\ bsy = 1
  /\ bsy' = 0 /\ err' = 1 /\ job' = NoJob /\ latch' = Nothing
  /\ UNCHANGED <<bus, drq, disk, driver>>

Drive == bus = "drive" /\ (SpinUp \/ Accept \/ Work \/ Fault)

Next == Driver \/ (\E c \in Calls : Call(c)) \/ Drive

Spec == Init /\ [][Next]_vars

(* The CPU executes the driver; the drive owes nothing.                    *)
FairSpec == Spec /\ WF_vars(Driver)
-----------------------------------------------------------------------------
(* What ide_read_sectors and ide_identify have put into the buffer are the *)
(* first sectors asked for, in order, and nothing beyond them; success     *)
(* means all of them, so a drive that is missing, slow or failing is never *)
(* taken for data.  It rests on the drive having finished earlier jobs     *)
(* when the command was written, which the driver does not look at.        *)
ReadDelivers ==
  call.op # "write" /\ stale = 0 /\ pc # "boot" =>
    /\ \A j \in Indices : buffer[j] = IF j < i THEN Asked(call, j) ELSE Nothing
    /\ pc = "idle" /\ ret = 0 => i = call.n

(* Success of ide_write_sectors means that every sector is on the disk,    *)
(* except that the last may be lost when the drive reported an error       *)
(* for it: the final wait looks for BSY and RDY only.                      *)
WriteReported ==
  call.op = "write" /\ stale = 0 /\ pc = "idle" /\ ret = 0 =>
    \A j \in 0 .. call.n - 1 :
      disk[call.lba + j] = SECTORS + j \/ (j = call.n - 1 /\ err = 1)

(* ide_init never reports a controller that was busy at every poll, or an  *)
(* empty bus that floats high, as present.                                 *)
InitSound == [][pc = "boot" /\ pc' = "idle" /\ ret' = 0 => ~BSY]_vars

(* Every call returns, whatever the drive does or fails to do.             *)
CallReturns == pc # "idle" ~> pc = "idle"

(* ide.h: "Read sectors from disk", also when an earlier call has given    *)
(* up on the drive and the drive has answered since.                       *)
ReadIsAsked ==
  call.op = "read" /\ pc = "idle" /\ ret = 0 =>
    \A j \in 0 .. call.n - 1 : buffer[j] = disk[call.lba + j]

(* ide.c, ide_write_sectors: "Wait for completion", of the last sector too.*)
WriteComplete ==
  call.op = "write" /\ stale = 0 /\ pc = "idle" /\ ret = 0 =>
    \A j \in 0 .. call.n - 1 : disk[call.lba + j] = SECTORS + j
=============================================================================
