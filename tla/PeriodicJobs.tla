----------------------------- MODULE PeriodicJobs -----------------------------
(***************************************************************************)
(* What the scheduler's loop does beside delivering reminders: the         *)
(* scheduled digest (digest.py) and the daily snapshot of the statistics   *)
(* (analytics.py).  Each has a time stamp in sync_flags, which outlives a  *)
(* restart; a turn of the loop asks whether the job is due, stamps, and    *)
(* does the job.  Every server process has such a loop.                    *)
(*                                                                         *)
(* What a digest shows is not modelled: building it only reads.            *)
(***************************************************************************)
EXTENDS Naturals, Sequences, FiniteSets

CONSTANTS Schedulers,       \* server processes
          DigestInterval, Day, MaxClock, MaxJobFaults

ASSUME PeriodsArePositive == DigestInterval \in Nat \ {0} /\ Day \in Nat \ {0}
ASSUME SchedulersFinite == IsFiniteSet(Schedulers)

VARIABLES
    jobsNow,
    digestMark, snapshotMark,   \* stamps in sync_flags; 0: never
    daySnapshots,       \* rows of analytics_snapshots: times, in order
    turn,            \* [Schedulers -> where its loop is]
    jobFaults,
    claims,          \* history: times at which a digest was claimed
    sent,            \* history: number of digests sent
    overlapped       \* history: two loops were between a question and its stamp together

jobVars == <<jobsNow, digestMark, snapshotMark, daySnapshots, turn, jobFaults, claims, sent, overlapped>>

JobsInit ==
    /\ jobsNow = 1
    /\ digestMark = 0 /\ snapshotMark = 0 /\ daySnapshots = <<>>
    /\ turn = [p \in Schedulers |-> "sleep"] /\ jobFaults = 0
    /\ claims = <<>> /\ sent = 0 /\ overlapped = FALSE

\* Between the look at a stamp (or at the snapshots of today) and the write that follows it.
Undecided(p) == turn[p] \in {"mark", "snapshot due", "capture"}
Steps(p, to) ==
    /\ turn' = [turn EXCEPT ![p] = to]
    /\ overlapped' = (overlapped \/ \E q \in Schedulers \ {p} : Undecided(p)' /\ Undecided(q)')
UnchangedDigest == UNCHANGED <<digestMark, claims, sent>>
UnchangedSnapshots == UNCHANGED <<snapshotMark, daySnapshots>>
UnchangedTime == UNCHANGED <<jobsNow, jobFaults>>

-----------------------------------------------------------------------------
JobsClock ==
    /\ jobsNow < MaxClock /\ jobsNow' = jobsNow + 1
    /\ UnchangedDigest /\ UnchangedSnapshots /\ UNCHANGED <<turn, jobFaults, overlapped>>

\* A server is killed; the stamps stay.
SchedulerKilled(p) ==
    /\ turn[p] # "sleep" /\ jobFaults < MaxJobFaults /\ jobFaults' = jobFaults + 1
    /\ turn' = [turn EXCEPT ![p] = "sleep"]
    /\ UnchangedDigest /\ UnchangedSnapshots /\ UNCHANGED <<jobsNow, overlapped>>

-----------------------------------------------------------------------------
(* maybe_send_scheduled_digest.                                            *)
IsDue(mark, interval) == mark = 0 \/ jobsNow - mark >= interval

\* The digest is sent before it is stamped.
AfterSendFirst(at) == CASE at = "due" -> "send" [] at = "send" -> "mark" [] at = "mark" -> "snapshot"
\* "The watermark is claimed *before* building/sending".
After(at) == CASE at = "due" -> "mark" [] at = "mark" -> "send" [] at = "send" -> "snapshot"

Ask(p) ==
    /\ turn[p] = "sleep"
    /\ Steps(p, IF IsDue(digestMark, DigestInterval) THEN After("due") ELSE "snapshot")
    /\ UnchangedDigest /\ UnchangedSnapshots /\ UnchangedTime

\* _mark_digest_sent stamps the time it has itself.
Claim(p) ==
    /\ turn[p] = "mark" /\ Steps(p, After("mark"))
    /\ digestMark' = jobsNow /\ claims' = Append(claims, jobsNow)
    /\ UNCHANGED sent /\ UnchangedSnapshots /\ UnchangedTime

Send(p) ==
    /\ turn[p] = "send" /\ Steps(p, After("send"))
    /\ sent' = sent + 1
    /\ UNCHANGED <<digestMark, claims>> /\ UnchangedSnapshots /\ UnchangedTime

\* Building or sending fails: logged, and the loop goes on.
SendFails(p) ==
    /\ turn[p] = "send" /\ jobFaults < MaxJobFaults /\ jobFaults' = jobFaults + 1
    /\ Steps(p, After("send"))
    /\ UnchangedDigest /\ UnchangedSnapshots /\ UNCHANGED jobsNow

-----------------------------------------------------------------------------
(* maybe_capture_analytics_snapshot.                                       *)
AskSnapshot(p) ==
    /\ turn[p] = "snapshot"
    /\ Steps(p, IF IsDue(snapshotMark, Day) THEN "snapshot due" ELSE "sleep")
    /\ UnchangedDigest /\ UnchangedSnapshots /\ UnchangedTime

\* There is a snapshot of today (the stamp was lost, or a call captured one outside the loop).
Today == \E i \in DOMAIN daySnapshots : daySnapshots[i] \div Day = jobsNow \div Day
MarkSnapshot(p) ==
    /\ turn[p] = "snapshot due"
    /\ snapshotMark' = jobsNow
    /\ Steps(p, IF Today THEN "sleep" ELSE "capture")
    /\ UNCHANGED daySnapshots /\ UnchangedDigest /\ UnchangedTime

CaptureSnapshot(p) ==
    /\ turn[p] = "capture"
    /\ daySnapshots' = Append(daySnapshots, jobsNow)
    /\ Steps(p, "sleep")
    /\ UNCHANGED snapshotMark /\ UnchangedDigest /\ UnchangedTime

JobsNext == \/ JobsClock
            \/ \E p \in Schedulers : \/ SchedulerKilled(p) \/ Ask(p) \/ Claim(p) \/ Send(p)
                                     \/ SendFails(p) \/ AskSnapshot(p) \/ MarkSnapshot(p) \/ CaptureSnapshot(p)

JobsSpec == JobsInit /\ [][JobsNext]_jobVars

-----------------------------------------------------------------------------
\* Two servers may both find a job due, and do it twice, but no more often than there are servers:
\* of the digests claimed within an interval and of the snapshots of a day each is another's.
NoMoreThanServers ==
    LET servers == Cardinality(Schedulers) IN
    /\ \A i \in 1..Len(claims) : i + servers <= Len(claims) => claims[i + servers] - claims[i] >= DigestInterval
    /\ \A day \in {daySnapshots[i] \div Day : i \in DOMAIN daySnapshots} :
          Cardinality({i \in DOMAIN daySnapshots : daySnapshots[i] \div Day = day}) <= servers

\* As long as no two loops are between a question and its stamp together, digests are claimed an
\* interval apart, and a day has one snapshot.
JobsSpaced ==
    ~overlapped => /\ \A i \in 1..Len(claims) - 1 : claims[i + 1] - claims[i] >= DigestInterval
                   /\ \A i, j \in DOMAIN daySnapshots : daySnapshots[i] \div Day = daySnapshots[j] \div Day => i = j

\* "so a server restart mid-interval does not immediately re-fire a digest that was already
\* sent": through kills at any step, failing channels and several servers, a digest goes out once
\* for each claim at most, and neither digests nor snapshots come more often than they should.
DigestsRight == sent <= Len(claims) /\ NoMoreThanServers /\ JobsSpaced
=============================================================================
