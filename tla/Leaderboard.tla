----------------------------- MODULE Leaderboard -----------------------------
(***************************************************************************)
(* The leaderboard worker.                                                 *)
(*                                                                         *)
(* board: the engine writes a participant's score and publishes it; the    *)
(* worker batches what it fetches, commits its offsets, and projects each  *)
(* batch onto a Redis board whose rosters PostgreSQL decides.  A restart   *)
(* loses the batch in memory and rebuilds the board from PostgreSQL.       *)
(*                                                                         *)
(* tops: the cached top of the board, and the snapshots written from it.   *)
(*                                                                         *)
(* details: a shownRow of the enhanced leaderboard joins the score of the       *)
(* sorted set with a breakdown written, cached and read separately.        *)
(*                                                                         *)
(* global: the ranking over all contests, merged from their tops.          *)
(*                                                                         *)
(* finals: what a finalization tells and adds once its ranks are written.  *)
(*                                                                         *)
(* notices: in-app notifications of a contest event.                       *)
(***************************************************************************)
EXTENDS Integers, Sequences, FiniteSets, FiniteSetsExt, SequencesExt

CONSTANTS Players,       \* the participants of the contest
          MaxScore,      \* bound on a score
          MaxDeltas,     \* bound on the scores published
          PnLBatchSize,  \* deltas that fill a batch
          MaxBoards,     \* bound on the versions of a board
          BoardSize,     \* participants on the cached board
          RankedContests,\* the contests of the global ranking
          FinalWorkers   \* the consumers of contest state events

(***************************************************************************)
(* board                                                                   *)
(***************************************************************************)

VARIABLES
  rosters,    \* per player: the row of contest_participants
  deltas,     \* the topic pnl.v1, one partition
  fetched,    \* records fetched by the consumer
  offset,     \* the committed offset
  pnlBatch,   \* records fetched but not yet processed
  board,      \* per player: the score in Redis, or Absent
  undone      \* players whose last processed delta met an error

boardVars == <<rosters, deltas, fetched, offset, pnlBatch, board, undone>>

Absent == -1

BoardInit ==
  /\ rosters = [p \in Players |-> [active |-> TRUE, started |-> FALSE, score |-> 0]]
  /\ deltas = <<>> /\ fetched = 0 /\ offset = 0 /\ pnlBatch = <<>>
  /\ board = [p \in Players |-> Absent]
  /\ undone = {}

\* The engine: the row first, then the event.
PublishPnLDelta(p, s) ==
  /\ Len(deltas) < MaxDeltas /\ rosters[p].active
  /\ rosters' = [rosters EXCEPT ![p].score = s]
  /\ deltas' = Append(deltas, [player |-> p, score |-> s, seq |-> Len(deltas) + 1])
  /\ UNCHANGED <<fetched, offset, pnlBatch, board, undone>>

\* Super Admin removal sets lifecycle_status; Redis is not told.
RemoveParticipant(p) ==
  /\ rosters[p].active
  /\ rosters' = [rosters EXCEPT ![p].active = FALSE]
  /\ UNCHANGED <<deltas, fetched, offset, pnlBatch, board, undone>>

\* A delta is taken if its player is eligible when it is looked at: a score
\* other than zero in it, or before it, has started the player's ranking for
\* good.  errs are the deltas whose eligibility could not be read.
Eligibly(b, errs, p) ==
  {i \in DOMAIN b \ errs :
     /\ b[i].player = p /\ rosters[p].active
     /\ \/ rosters[p].started
        \/ \E j \in DOMAIN b \ errs : j <= i /\ b[j].player = p /\ b[j].score # 0}

\* Of a player's deltas in a batch the one with the highest sequence number.
LatestOf(b, mine) == b[CHOOSE i \in mine : \A j \in mine : b[j].seq <= b[i].seq]

RankingStarted(b, errs, p) ==
  rosters[p].started \/ \E i \in DOMAIN b \ errs : b[i].player = p /\ b[i].score # 0

\* The deltas are grouped by player; one who is not eligible is taken off the
\* board, the others are written, unless Redis refuses (fails).
ProcessPnLDeltaBatch(b, errs, fails) ==
  LET read    == {b[i].player : i \in DOMAIN b \ errs}
      touched == {b[i].player : i \in DOMAIN b} IN
  /\ rosters' = [p \in Players |-> [rosters[p] EXCEPT !.started = RankingStarted(b, errs, p)]]
  /\ board' = [p \in Players |->
       CASE p \notin read \ fails -> board[p]
         [] Eligibly(b, errs, p) # {} -> LatestOf(b, Eligibly(b, errs, p)).score
         [] OTHER -> Absent]
  /\ undone' = (undone \ touched) \cup (fails \cap touched) \cup {b[i].player : i \in errs}
  /\ pnlBatch' = <<>>

\* One record; a full batch is processed at once.
PollFetches ==
  /\ fetched < Len(deltas)
  /\ fetched' = fetched + 1
  /\ LET b == Append(pnlBatch, deltas[fetched + 1]) IN
       \/ Len(b) < PnLBatchSize /\ pnlBatch' = b /\ UNCHANGED <<rosters, board, undone>>
       \/ Len(b) >= PnLBatchSize /\ \E errs \in SUBSET DOMAIN b, fails \in SUBSET Players : ProcessPnLDeltaBatch(b, errs, fails)
  /\ UNCHANGED <<deltas, offset>>

\* PnLBatchTimeout has elapsed.
FlushDeltas ==
  /\ pnlBatch # <<>>
  /\ \E errs \in SUBSET DOMAIN pnlBatch, fails \in SUBSET Players :
       ProcessPnLDeltaBatch(pnlBatch, errs, fails)
  /\ UNCHANGED <<deltas, fetched, offset>>

\* Everything fetched is committed, what is still in the batch included.
CommitUncommittedOffsets ==
  /\ offset < fetched
  /\ offset' = fetched
  /\ UNCHANGED <<rosters, deltas, fetched, pnlBatch, board, undone>>

\* The partition comes back from its committed offset; the batch is kept.
Rebalance ==
  /\ offset < fetched
  /\ fetched' = offset
  /\ UNCHANGED <<rosters, deltas, offset, pnlBatch, board, undone>>

\* A crash, or a stop: the last flush of a stop runs under a cancelled
\* context, so it reads no eligibility and writes nothing.  The board is
\* then rebuilt from PostgreSQL.
RestartWorker ==
  /\ fetched > 0
  /\ fetched' = offset /\ pnlBatch' = <<>>
  /\ board' = [p \in Players |->
       IF rosters[p].active /\ rosters[p].started THEN rosters[p].score ELSE Absent]
  /\ undone' = {p \in Players :
       \/ p \in undone /\ ~rosters[p].started
       \/ \E i \in DOMAIN pnlBatch : pnlBatch[i].player = p /\ ~rosters[p].started}
  /\ UNCHANGED <<rosters, deltas, offset>>

BoardNext ==
  \/ PollFetches \/ FlushDeltas \/ CommitUncommittedOffsets \/ Rebalance \/ RestartWorker
  \/ \E p \in Players : RemoveParticipant(p) \/ \E s \in 0 .. MaxScore : PublishPnLDelta(p, s)

\* Once everything published has been applied, an eligible player stands on
\* the Redis board with the score PostgreSQL holds, whatever order rebalances
\* redelivered the deltas in; and only players who started ranking stand there.
\* Exempt are players whose last delta met an error (processPnLDeltaBatch logs
\* it and moves on) until a later delta or a restart.
BoardCaughtUp ==
  /\ \A p \in Players : board[p] # Absent => rosters[p].started
  /\ fetched = Len(deltas) /\ pnlBatch = <<>> =>
       \A p \in Players \ undone :
         rosters[p].active /\ rosters[p].started => board[p] = rosters[p].score

(***************************************************************************)
(* tops                                                                    *)
(***************************************************************************)

VARIABLES
  boardVersion, \* how often the board changed
  topCache,     \* the cached top, or NoTop
  topRead,      \* what a handler read and has not cached yet, or NoTop
  overtaken,    \* the board changed between a read of it and the use of that read
  dirty,        \* the contest is in dirtyContests
  changed,      \* the latest version that was a significant change
  snapWriter,   \* the snapshot writer: its step and what GetTop gave it
  lastSnapshot      \* the last snapshot inserted, or NoTop

topsVars == <<boardVersion, topCache, topRead, overtaken, dirty, changed, snapWriter, lastSnapshot>>

NoTop == [version |-> 0, n |-> 0]
Top(n) == [version |-> boardVersion, n |-> n]
SnapIdle == [at |-> "idle", top |-> NoTop]

TopsInit ==
  /\ boardVersion = 1 /\ topCache = NoTop /\ topRead = NoTop
  /\ overtaken = FALSE /\ dirty = FALSE /\ changed = 0
  /\ snapWriter = SnapIdle /\ lastSnapshot = NoTop

\* A variant of Invalidated: a write leaves the cached top alone.
InvalidatedNot(top) == top

\* invalidateCache.
Invalidated(top) == NoTop

\* The board changes, the cache is invalidated, and a significant change
\* marks the contest.
BatchUpdateScores(significant) ==
  /\ boardVersion < MaxBoards
  /\ boardVersion' = boardVersion + 1
  /\ topCache' = Invalidated(topCache)
  /\ dirty' = (dirty \/ significant)
  /\ changed' = IF significant THEN boardVersion + 1 ELSE changed
  /\ overtaken' = (overtaken \/ topRead # NoTop \/ snapWriter # SnapIdle)
  /\ UNCHANGED <<topRead, snapWriter, lastSnapshot>>

\* GetTop: a cached top answers whatever its length; else the board is read
\* now and cached later, undoing any invalidation in between.
ReadTop(n) ==
  /\ topCache = NoTop /\ topRead = NoTop
  /\ topRead' = Top(n)
  /\ UNCHANGED <<boardVersion, topCache, overtaken, dirty, changed, snapWriter, lastSnapshot>>

CacheLeaderboard ==
  /\ topRead # NoTop
  /\ topCache' = topRead /\ topRead' = NoTop
  /\ UNCHANGED <<boardVersion, overtaken, dirty, changed, snapWriter, lastSnapshot>>

CleanupExpiredCache ==
  /\ topCache # NoTop
  /\ topCache' = NoTop
  /\ UNCHANGED <<boardVersion, topRead, overtaken, dirty, changed, snapWriter, lastSnapshot>>

\* writeSnapshots, for a dirty contest or, in a full round, any contest: the
\* writer's own GetTop.
WriteSnapshots ==
  /\ snapWriter = SnapIdle
  /\ snapWriter' = IF topCache # NoTop THEN [at |-> "insert", top |-> topCache]
                                       ELSE [at |-> "cache", top |-> Top(BoardSize)]
  /\ UNCHANGED <<boardVersion, topCache, topRead, overtaken, dirty, changed, lastSnapshot>>

WriterCaches ==
  /\ snapWriter.at = "cache"
  /\ snapWriter' = [snapWriter EXCEPT !.at = "insert"]
  /\ topCache' = snapWriter.top
  /\ UNCHANGED <<boardVersion, topRead, overtaken, dirty, changed, lastSnapshot>>

\* What GetTop returned is the snapshot; the mark goes only when it is in.
WriteContestSnapshot(ok) ==
  /\ snapWriter.at = "insert"
  /\ lastSnapshot' = IF ok THEN snapWriter.top ELSE lastSnapshot
  /\ snapWriter' = IF ok THEN [snapWriter EXCEPT !.at = "clear"] ELSE SnapIdle
  /\ UNCHANGED <<boardVersion, topCache, topRead, overtaken, dirty, changed>>

ClearDirty ==
  /\ snapWriter.at = "clear"
  /\ dirty' = FALSE /\ snapWriter' = SnapIdle
  /\ UNCHANGED <<boardVersion, topCache, topRead, overtaken, changed, lastSnapshot>>

TopsNext ==
  \/ CacheLeaderboard \/ CleanupExpiredCache \/ WriteSnapshots \/ WriterCaches \/ ClearDirty
  \/ \E n \in 1 .. BoardSize : ReadTop(n)
  \/ \E b \in BOOLEAN : BatchUpdateScores(b) \/ WriteContestSnapshot(b)

\* A cached top is the board's top, and a significant change is in the last
\* snapshot or the contest is still marked for the next one.  Both can fail
\* only after a score was written between a read of the board and the use of
\* what was read (GetTop caches without looking whether it was invalidated
\* meanwhile; writeSnapshots clears a mark that may be newer than its read).
TopsFollowBoard ==
  overtaken \/ /\ topCache # NoTop => topCache.version = boardVersion
               /\ changed > lastSnapshot.version => dirty

(***************************************************************************)
(* details                                                                 *)
(***************************************************************************)

VARIABLES
  zscore,      \* version of a player's score in the sorted set
  breakdown,   \* version of the breakdown in the Redis hash, 0 if none
  bdCache,     \* version in scoreBreakdownCache, 0 if none
  bdWrite,     \* a batch has written the score, not yet the breakdown
  bdLost,      \* the last breakdown was not written
  rowRead,     \* the score a view has read from the sorted set, 0 if none
  rowOverlap,  \* a batch was under way during the view
  shownRow          \* the row served last

detailVars == <<zscore, breakdown, bdCache, bdWrite, bdLost, rowRead, rowOverlap, shownRow>>

DetailsInit ==
  /\ zscore = 1 /\ breakdown = 1 /\ bdCache = 1 /\ bdWrite = FALSE /\ bdLost = FALSE
  /\ rowRead = 0 /\ rowOverlap = FALSE /\ shownRow = [score |-> 0, breakdown |-> 0, overlap |-> FALSE, lost |-> FALSE]

WriteScore ==
  /\ ~bdWrite /\ zscore < MaxBoards
  /\ zscore' = zscore + 1 /\ bdWrite' = TRUE
  /\ rowOverlap' = (rowRead # 0)
  /\ UNCHANGED <<breakdown, bdCache, bdLost, rowRead, shownRow>>

\* The hash, then the cache in memory; an error leaves both as they were.
BatchUpdateScoresWithBreakdown(ok) ==
  /\ bdWrite /\ bdWrite' = FALSE
  /\ \/ ok /\ breakdown' = zscore /\ bdCache' = zscore
     \/ ~ok /\ UNCHANGED <<breakdown, bdCache>>
  /\ bdLost' = ~ok
  /\ UNCHANGED <<zscore, rowRead, rowOverlap, shownRow>>

\* The entry outlives its TTL or is evicted.
CleanupScoreBreakdownCache ==
  /\ bdCache # 0 /\ bdCache' = 0
  /\ UNCHANGED <<zscore, breakdown, bdWrite, bdLost, rowRead, rowOverlap, shownRow>>

\* Startup deletes the hash with the board; the cache starts empty.
RebuildDetails ==
  /\ breakdown' = 0 /\ bdCache' = 0 /\ bdWrite' = FALSE /\ bdLost' = FALSE
  /\ rowRead' = 0 /\ rowOverlap' = FALSE
  /\ UNCHANGED <<zscore, shownRow>>

\* GetEnhancedLeaderboard and GetUserLeaderboardPosition: the sorted set first.
ReadRow ==
  /\ rowRead = 0
  /\ rowRead' = zscore /\ rowOverlap' = bdWrite
  /\ UNCHANGED <<zscore, breakdown, bdCache, bdWrite, bdLost, shownRow>>

\* Then the breakdown: from memory, else from the hash; none shows as zero.
GetBreakdownsCached ==
  /\ rowRead # 0 /\ rowRead' = 0 /\ rowOverlap' = FALSE
  /\ shownRow' = [score |-> rowRead, breakdown |-> IF bdCache # 0 THEN bdCache ELSE breakdown,
             overlap |-> rowOverlap, lost |-> bdLost]
  /\ UNCHANGED <<zscore, breakdown, bdCache, bdWrite, bdLost>>

DetailsNext ==
  \/ WriteScore \/ CleanupScoreBreakdownCache \/ RebuildDetails \/ ReadRow \/ GetBreakdownsCached
  \/ \E ok \in BOOLEAN : BatchUpdateScoresWithBreakdown(ok)

\* A row shows the breakdown of its own score, or none after a restart, unless
\* a batch was written while it was put together or the breakdown was lost.
RowsAgree == shownRow.overlap \/ shownRow.lost \/ shownRow.breakdown \in {0, shownRow.score}

(***************************************************************************)
(* global                                                                  *)
(***************************************************************************)

VARIABLES
  ranked,     \* per contest and player: the score, or Absent
  capped,     \* per contest: the length of a cached top, 0 if none
  merged,     \* globalRankingCache: its scores, all there were, and whether a short top was used
  answer      \* the last answer: its limit and what it was taken from

globalVars == <<ranked, capped, merged, answer>>

NoMerge == [scores |-> <<>>, all |-> <<>>, short |-> FALSE]

GlobalInit ==
  /\ ranked = [c \in RankedContests |-> [p \in Players |-> Absent]]
  /\ capped = [c \in RankedContests |-> 0]
  /\ merged = NoMerge
  /\ answer = [limit |-> 0, merged |-> NoMerge]

Descending(s) == SortSeq(s, LAMBDA x, y : x > y)
Scores(b) ==
  LET here == {p \in Players : b[p] # Absent} IN
  Descending([i \in 1 .. Cardinality(here) |-> b[SetToSeq(here)[i]]])
Trim(s, n) == SubSeq(s, 1, Min({n, Len(s)}))

\* GetTop: a cached top answers for every length.
TopOf(c, n) == Trim(Scores(ranked[c]), IF capped[c] = 0 THEN n ELSE Min({n, capped[c]}))

\* Each contest gives at least as many entries as are asked for.
EntriesPerContest(limit) == Max({limit, 1})

\* A score changes; a significant change invalidates the contest's top.
RankScore(c, p, s) ==
  /\ ranked[c][p] # s
  /\ ranked' = [ranked EXCEPT ![c][p] = s]
  /\ capped' = [capped EXCEPT ![c] = 0]
  /\ UNCHANGED <<merged, answer>>

CacheShortTop(c) ==
  /\ capped[c] = 0 /\ Len(Scores(ranked[c])) > 1
  /\ capped' = [capped EXCEPT ![c] = 1]
  /\ UNCHANGED <<ranked, merged, answer>>

\* The scores of the contests, n of each, best first.
Merge(n) ==
  Descending(FlattenSeq([i \in 1 .. Cardinality(RankedContests) |-> TopOf(SetToSeq(RankedContests)[i], n)]))
AllScores ==
  Descending(FlattenSeq([i \in 1 .. Cardinality(RankedContests) |->
    Scores(ranked[SetToSeq(RankedContests)[i]])]))

\* A cached ranking that is long enough answers; else the contests' tops are
\* merged, sorted and trimmed, and the result is cached.
GetCrossShardRanking(limit) ==
  LET fresh == [scores |-> Trim(Merge(EntriesPerContest(limit)), limit), all |-> AllScores,
                short |-> \E c \in RankedContests : capped[c] # 0]
      now   == IF Len(merged.scores) >= limit THEN merged ELSE fresh
  IN
  /\ merged' = now
  /\ answer' = [limit |-> limit, merged |-> now]
  /\ UNCHANGED <<ranked, capped>>

InvalidateGlobalCache ==
  /\ merged # NoMerge /\ merged' = NoMerge
  /\ UNCHANGED <<ranked, capped, answer>>

GlobalNext ==
  \/ InvalidateGlobalCache
  \/ \E c \in RankedContests : CacheShortTop(c) \/ \E p \in Players, s \in 0 .. 1 : RankScore(c, p, s)
  \/ \E limit \in 1 .. 2 : GetCrossShardRanking(limit)

\* The global ranking gives the best scores of all contests at the time it was
\* merged, the best of them for a smaller limit, unless a contest's cached top
\* was too short to answer.
GlobalTopRight ==
  answer.merged.short \/ Trim(answer.merged.scores, answer.limit) = Trim(answer.merged.all, answer.limit)

(***************************************************************************)
(* finals                                                                  *)
(***************************************************************************)

VARIABLES
  finSteps,   \* per consumer: its step in finalizeContest
  finMarked,  \* is_completed of contest_finalization
  finDone,    \* the event's offset is committed
  markLost,   \* a completion mark was not written
  shared,     \* two consumers held the event at once
  endMails,   \* rounds of contest-ended mails
  points      \* times the contest's points were added to leaderboard:global

finalVars == <<finSteps, finMarked, finDone, markLost, shared, endMails, points>>

MaxDeliveries == 3

FinalsInit ==
  /\ finSteps = [w \in FinalWorkers |-> "idle"]
  /\ finMarked = FALSE /\ finDone = FALSE /\ markLost = FALSE /\ shared = FALSE
  /\ endMails = 0 /\ points = 0

FinStep(w, from, to) == finSteps[w] = from /\ finSteps' = [finSteps EXCEPT ![w] = to]

\* A delivery of the event; a completed finalization is not repeated.  After a
\* rebalance the event may still be in the hands of its former consumer.
DeliverFinal(w) ==
  /\ ~finDone /\ endMails < MaxDeliveries
  /\ FinStep(w, "idle", IF finMarked THEN "commit" ELSE "ranks")
  /\ shared' = (shared \/ \E v \in FinalWorkers : finSteps[v] \notin {"idle", "commit"})
  /\ UNCHANGED <<finMarked, finDone, markLost, endMails, points>>

\* The ranks are in; a failure to write the mark is only logged.
MarkFinalizationCompleted(w, ok) ==
  /\ FinStep(w, "ranks", "mails")
  /\ finMarked' = (finMarked \/ ok) /\ markLost' = (markLost \/ ~ok)
  /\ UNCHANGED <<finDone, shared, endMails, points>>

SendContestEndedEmails(w) ==
  /\ FinStep(w, "mails", "points")
  /\ endMails' = endMails + 1
  /\ UNCHANGED <<finMarked, finDone, markLost, shared, points>>

\* ZINCRBY, which a repetition would repeat.
UpdateGlobalLeaderboard(w) ==
  /\ FinStep(w, "points", "commit")
  /\ points' = points + 1
  /\ UNCHANGED <<finMarked, finDone, markLost, shared, endMails>>

CommitFinal(w) ==
  /\ FinStep(w, "commit", "idle")
  /\ finDone' = TRUE
  /\ UNCHANGED <<finMarked, markLost, shared, endMails, points>>

CrashFinal(w) ==
  /\ finSteps[w] # "idle"
  /\ finSteps' = [finSteps EXCEPT ![w] = "idle"]
  /\ UNCHANGED <<finMarked, finDone, markLost, shared, endMails, points>>

FinalsNext ==
  \E w \in FinalWorkers :
    \/ DeliverFinal(w) \/ SendContestEndedEmails(w) \/ UpdateGlobalLeaderboard(w)
    \/ CommitFinal(w) \/ CrashFinal(w)
    \/ \E ok \in BOOLEAN : MarkFinalizationCompleted(w, ok)

\* Mails go out and points are added at most once for a contest, whatever
\* crashes and redeliveries happen, unless the completion mark could not be
\* written or two consumers held the event at once.
FinalsOnce == points > 1 \/ endMails > 1 => markLost \/ shared

(***************************************************************************)
(* notices                                                                 *)
(***************************************************************************)

VARIABLES
  wants,      \* players whose preferences allow the notification
  noticed,       \* per player: in-app rows of this event
  mailed,     \* per player: contest_started mails of this event
  noticeAt,   \* the consumer's step
  noticeDone, \* the event's offset is committed
  noticeSkips,\* a step of a delivery failed and was logged
  deliveries  \* how often the event was delivered

noticeVars == <<wants, noticed, mailed, noticeAt, noticeDone, noticeSkips, deliveries>>

NoticesInit ==
  /\ wants \in SUBSET Players
  /\ noticed = [p \in Players |-> 0] /\ mailed = [p \in Players |-> 0]
  /\ noticeAt = "idle" /\ noticeDone = FALSE /\ noticeSkips = FALSE /\ deliveries = 0

DeliverNotice ==
  /\ noticeAt = "idle" /\ ~noticeDone /\ deliveries < 2
  /\ noticeAt' = "insert" /\ deliveries' = deliveries + 1
  /\ UNCHANGED <<wants, noticed, mailed, noticeDone, noticeSkips>>

\* Preferences that cannot be read silence everyone.
IsEnabledBatchFails ==
  /\ noticeAt = "insert" /\ noticeAt' = "commit" /\ noticeSkips' = TRUE
  /\ UNCHANGED <<wants, noticed, mailed, noticeDone, deliveries>>

\* The rows of everyone whose preferences allow it, in chunks; a chunk that
\* fails ends the delivery once the others are in, without the mails.
CreateNotificationBatch(failed) ==
  /\ noticeAt = "insert" /\ failed \subseteq wants
  /\ noticed' = [p \in Players |-> noticed[p] + (IF p \in wants \ failed THEN 1 ELSE 0)]
  /\ noticeAt' = IF wants = {} \/ failed # {} THEN "commit" ELSE "mail"
  /\ noticeSkips' = (noticeSkips \/ failed # {})
  /\ UNCHANGED <<wants, mailed, noticeDone, deliveries>>

\* A batch of mails, some of which fail.
SendContestStartedEmails(failed) ==
  /\ noticeAt = "mail" /\ failed \subseteq wants
  /\ mailed' = [p \in Players |-> mailed[p] + (IF p \in wants \ failed THEN 1 ELSE 0)]
  /\ noticeSkips' = (noticeSkips \/ failed # {})
  /\ noticeAt' = "commit"
  /\ UNCHANGED <<wants, noticed, noticeDone, deliveries>>

CommitNotices ==
  /\ noticeAt = "commit" /\ noticeAt' = "idle" /\ noticeDone' = TRUE
  /\ UNCHANGED <<wants, noticed, mailed, noticeSkips, deliveries>>

\* A crash or a failed commit: the event comes again from its offset.
LoseNotices ==
  /\ noticeAt # "idle" /\ noticeAt' = "idle"
  /\ UNCHANGED <<wants, noticed, mailed, noticeDone, noticeSkips, deliveries>>

NoticesNext ==
  \/ DeliverNotice \/ IsEnabledBatchFails \/ CommitNotices \/ LoseNotices
  \/ \E failed \in SUBSET Players : CreateNotificationBatch(failed) \/ SendContestStartedEmails(failed)

\* A committed event has told and mailed everyone who wants it, at least once,
\* unless a step failed; nobody else, and nobody twice in one delivery.
NoticesTold ==
  /\ noticeDone /\ ~noticeSkips => \A p \in wants : noticed[p] > 0 /\ mailed[p] > 0
  /\ \A p \in Players : noticed[p] <= deliveries /\ (p \notin wants => noticed[p] + mailed[p] = 0)

lbVars == <<boardVars, topsVars, detailVars, globalVars, finalVars, noticeVars>>

(***************************************************************************)
(* What every part of the worker keeps: boards, cached tops, snapshots,    *)
(* rows and rankings show what PostgreSQL and the sorted sets held, and    *)
(* redelivery repeats no finalization and loses no notification.           *)
(***************************************************************************)
LeaderboardHolds ==
  /\ BoardCaughtUp /\ TopsFollowBoard /\ RowsAgree
  /\ GlobalTopRight /\ FinalsOnce /\ NoticesTold
=============================================================================
