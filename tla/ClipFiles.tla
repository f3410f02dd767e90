------------------------------ MODULE ClipFiles ------------------------------
(***************************************************************************)
(* Pasting files copied elsewhere: the readers a desktop is given (a WebDAV *)
(* GET, a FUSE read, an OLE stream, the macOS fill behind a file presenter),*)
(* the one fetcher they share with its reopening data channel, the client's *)
(* ConsumerChannel whose requests may be dropped half way, and the Core that*)
(* serves the frozen manifest from files which go on living on the disk.    *)
(* Source: clipboard/src/{orchestrator,webdav,fuse,windows_ole,macos}.rs,   *)
(* client/src/channel.rs, core/src/{datachannel,clipnet}.rs.                *)
(***************************************************************************)
EXTENDS Naturals, Sequences, FiniteSets

CONSTANTS Readers,    \* threads of the pasting program, each copying a file of its own
          Fronts,     \* the front ends explored: "webdav", "fuse", "ole", "mac"
          Blocks,     \* the size of every file at the announce, in data frames
          MaxChanges, \* edits of the source files
          MaxDrops,   \* requests dropped half way
          MaxStalls   \* sessions closed by the Core for want of a request

VARIABLES
  front, \* the front end of this desktop, chosen once
  mounted, \* the offer has not been retired
  src,   \* src[r]: version and length now of the file r copies
  live,  \* the transaction still may be read
  co,    \* the Core's end of the data channel
  ch,    \* the ConsumerChannel, and the mutex of the fetcher around it
  pipe,  \* up: requests; down: frames
  rd,    \* rd[r]: the reader
  fl,    \* the macOS fill: coordinator, caller and the Core's transfer
  used   \* bounds: changes, drops, stalls

vars == <<front, mounted, src, live, co, ch, pipe, rd, fl, used>>

NoReader == "nobody"
Announced == 1

\* No consumer at the Core; a channel not opened yet; no fill asked for.
NoConsumer == [st |-> "none", file |-> NoReader, pos |-> 0, left |-> 0]
FreshChannel == [open |-> FALSE, draining |-> FALSE, lock |-> NoReader]
NoFill == [st |-> "idle", ok |-> FALSE, call |-> "none", sub |-> FALSE, out |-> "none",
           tx |-> "none", pos |-> 0, dest |-> <<>>]
NoFrames == [up |-> <<>>, down |-> <<>>]

\* CoreFetcher::new, mount, bind, build_skeleton: every reader is about to start.
Init ==
  /\ front \in Fronts /\ mounted = TRUE
  /\ src = [r \in Readers |-> [ver |-> Announced, len |-> Blocks]]
  /\ live = TRUE
  /\ co = NoConsumer /\ ch = FreshChannel /\ pipe = NoFrames
  /\ rd = [r \in Readers |-> [st |-> "start", pos |-> 0, got |-> <<>>, buf |-> <<>>]]
  /\ fl = NoFill
  /\ used = [changes |-> 0, drops |-> 0, stalls |-> 0]

Frame(k) == [k |-> k, file |-> NoReader, blk |-> 0, ver |-> 0]

(***************************************************************************)
(* The Core.                                                               *)
(***************************************************************************)
Say(f) == pipe' = [pipe EXCEPT !.down = Append(@, f)]
Part == [st |-> "gone", file |-> NoReader, pos |-> 0, left |-> 0]

\* serve_local, handle_read: the latched reset first, then the request; the file must
\* still be the frozen one.
StillMatches(r) == src[r] = [ver |-> Announced, len |-> Blocks]
ServeLocal ==
  /\ co.st = "idle"
  /\ IF ~live THEN Say(Frame("stale")) /\ co' = Part
     ELSE /\ pipe.up # <<>>
          /\ LET q == Head(pipe.up) IN
             IF StillMatches(q.file)
             THEN /\ co' = [st |-> "serve", file |-> q.file, pos |-> q.pos, left |-> q.len]
                  /\ pipe' = [pipe EXCEPT !.up = Tail(@)]
             ELSE /\ pipe' = [up |-> Tail(pipe.up), down |-> Append(pipe.down, Frame("changed"))]
                  /\ UNCHANGED co
  /\ UNCHANGED <<front, mounted, src, live, ch, rd, fl, used>>

\* stream_range: the right to read is checked before each chunk, the file is not.
StreamRange ==
  /\ co.st = "serve"
  /\ \/ /\ co.left > 0 /\ ~live
        /\ Say(Frame("stale")) /\ co' = Part
     \/ /\ co.left > 0 /\ live /\ co.pos < src[co.file].len
        /\ Say([k |-> "data", file |-> co.file, blk |-> co.pos, ver |-> src[co.file].ver])
        /\ co' = [co EXCEPT !.pos = @ + 1, !.left = @ - 1]
     \/ /\ co.left = 0 \/ (live /\ co.pos >= src[co.file].len)
        /\ Say(Frame("eof"))
        /\ co' = [st |-> "idle", file |-> NoReader, pos |-> 0, left |-> 0]
  /\ UNCHANGED <<front, mounted, src, live, ch, rd, fl, used>>

\* bounded: no request for STALL, and the session is over.
Stall ==
  /\ co.st = "idle" /\ pipe.up = <<>> /\ used.stalls < MaxStalls
  /\ co' = Part
  /\ used' = [used EXCEPT !.stalls = @ + 1]
  /\ UNCHANGED <<front, mounted, src, live, ch, pipe, rd, fl>>

(***************************************************************************)
(* The ConsumerChannel in the fetcher's mutex.                             *)
(***************************************************************************)
Waiting(r) == rd[r].st \in {"drain", "collect"}
Dead == co.st = "gone" /\ pipe.down = <<>>

\* The reader is done with the fetcher: it lets the mutex go.
Answered(r, st, err) ==
  /\ rd' = [rd EXCEPT ![r] = [st |-> st, pos |-> @.pos + IF err THEN 0 ELSE Len(@.buf),
                              got |-> IF err THEN @.got ELSE @.got \o @.buf, buf |-> <<>>]]

\* How many frames a front end asks for in one read.
Want(r) == IF front = "webdav" THEN 1 ELSE 2

\* read_async: the mutex; transactions.open when there is no channel, refused once the
\* transaction is gone; ConsumerChannel::read, which first drains what a dropped
\* request left.
\* (mutant: the leftovers of a dropped request are not drained)
MustDrainNever == FALSE
MustDrain == ch.draining
Request(r) == [file |-> r, pos |-> rd[r].pos, len |-> Want(r)]
ReadAsync(r) ==
  /\ rd[r].st = "read" /\ ch.lock = NoReader
  /\ IF ~ch.open /\ ~live
     THEN /\ rd' = [rd EXCEPT ![r].st = "error"]
          /\ UNCHANGED <<co, ch, pipe>>
     ELSE LET drain == ch.open /\ MustDrain IN
          /\ rd' = [rd EXCEPT ![r].st = IF drain THEN "drain" ELSE "collect"]
          /\ ch' = [open |-> TRUE, draining |-> TRUE, lock |-> r]
          /\ co' = IF ch.open THEN co ELSE [co EXCEPT !.st = "idle"]
          /\ pipe' = IF drain THEN pipe
                     ELSE IF ch.open THEN [pipe EXCEPT !.up = Append(@, Request(r))]
                     ELSE [up |-> <<Request(r)>>, down |-> <<>>]
  /\ UNCHANGED <<front, mounted, src, live, fl, used>>

\* The channel is dropped with the session (is_terminal, Closed, Io); a fresh one is
\* opened by the next read.
Dropped == [open |-> FALSE, draining |-> FALSE, lock |-> NoReader]
Ended == /\ ch' = Dropped
         /\ pipe' = [up |-> <<>>, down |-> <<>>]
         /\ co' = [co EXCEPT !.st = "none"]

\* drain_to_eof, then the request.
DrainToEof(r) ==
  /\ rd[r].st = "drain" /\ ch.lock = r
  /\ \/ /\ Dead /\ Ended /\ rd' = [rd EXCEPT ![r].st = "error"]
     \/ /\ pipe.down # <<>>
        /\ LET f == Head(pipe.down) IN
           IF f.k = "data"
           THEN /\ pipe' = [pipe EXCEPT !.down = Tail(@)]
                /\ UNCHANGED <<rd, ch, co>>
           ELSE /\ pipe' = [up |-> Append(pipe.up, Request(r)), down |-> Tail(pipe.down)]
                /\ rd' = [rd EXCEPT ![r].st = "collect"]
                /\ UNCHANGED <<ch, co>>
  /\ UNCHANGED <<front, mounted, src, live, fl, used>>

(***************************************************************************)
(* What a front end makes of an answer of n frames.                        *)
(***************************************************************************)
\* write_get: a short or an empty pull breaks the response; all of it is the end.
WriteGet(r, n) ==
  IF n < Want(r) THEN "error" ELSE IF rd[r].pos + n >= Blocks THEN "ok" ELSE "start"
\* ClipboardFs::read, PullStream::Read: what came is handed on, and the program that
\* copies reads until it gets nothing.
HandOn(r, n) == IF n = 0 THEN "ok" ELSE "start"
Outcome(r, n) == IF front = "webdav" THEN WriteGet(r, n) ELSE HandOn(r, n)

\* handle_conn, write_get: the next pull of a GET, unless the server is stopping.
HandleConn(r) ==
  /\ front = "webdav" /\ rd[r].st = "start"
  /\ rd' = [rd EXCEPT ![r].st = IF mounted THEN "read" ELSE "error"]
  /\ UNCHANGED <<front, mounted, src, live, co, ch, pipe, fl, used>>

\* A program's next read of a mounted file, or of a stream it was given.
NextRead(r) ==
  /\ front \in {"fuse", "ole"} /\ rd[r].st = "start"
  /\ rd' = [rd EXCEPT ![r].st = IF mounted \/ front = "ole" THEN "read" ELSE "error"]
  /\ UNCHANGED <<front, mounted, src, live, co, ch, pipe, fl, used>>

\* Another copy takes the clipboard and the offer is dropped: the server stops, the
\* file system is unmounted, the presenters leave.
Retired ==
  /\ mounted
  /\ mounted' = FALSE
  /\ UNCHANGED <<front, src, live, co, ch, pipe, rd, fl, used>>

\* collect.
Collect(r) ==
  /\ rd[r].st = "collect" /\ ch.lock = r
  /\ \/ Dead /\ Ended /\ Answered(r, "error", TRUE)
     \/ /\ pipe.down # <<>>
        /\ LET f == Head(pipe.down) IN
           CASE f.k = "data" ->
                  /\ pipe' = [pipe EXCEPT !.down = Tail(@)]
                  /\ rd' = [rd EXCEPT ![r].buf = Append(@, f)]
                  /\ UNCHANGED <<ch, co>>
             [] f.k = "eof" ->
                  /\ pipe' = [pipe EXCEPT !.down = Tail(@)]
                  /\ ch' = [ch EXCEPT !.draining = FALSE, !.lock = NoReader]
                  /\ Answered(r, Outcome(r, Len(rd[r].buf)), FALSE)
                  /\ UNCHANGED co
             [] f.k = "changed" ->
                  /\ pipe' = [pipe EXCEPT !.down = Tail(@)]
                  /\ ch' = [ch EXCEPT !.draining = FALSE, !.lock = NoReader]
                  /\ Answered(r, "error", TRUE)
                  /\ UNCHANGED co
             [] f.k = "stale" -> Ended /\ Answered(r, "error", TRUE)
  /\ UNCHANGED <<front, mounted, src, live, fl, used>>

\* A caller drops its request: whatever is still to come of it stays in the channel.
DropRequest(r) ==
  /\ Waiting(r) /\ ch.lock = r /\ used.drops < MaxDrops
  /\ ch' = [ch EXCEPT !.lock = NoReader]
  /\ rd' = [rd EXCEPT ![r] = [@ EXCEPT !.st = "error", !.buf = <<>>]]
  /\ used' = [used EXCEPT !.drops = @ + 1]
  /\ UNCHANGED <<front, mounted, src, live, co, pipe, fl>>

(***************************************************************************)
(* The macOS fill.                                                         *)
(***************************************************************************)
\* ensure_filled: the first reader runs the fill, the others wait for it.  The caller
\* is subscribed to the outcomes before it asks (fill_async).
\* (mutant: it subscribes once the Core has answered)
SubscribedLate == FALSE
SubscribedFirst == TRUE
EnsureFilled(r) ==
  /\ front = "mac" /\ rd[r].st = "start"
  /\ \/ /\ fl.st = "idle"
        /\ rd' = [rd EXCEPT ![r].st = "fills"]
        /\ fl' = [fl EXCEPT !.st = "inflight", !.call = "ask", !.sub = SubscribedFirst]
     \/ /\ fl.st = "inflight" /\ rd' = [rd EXCEPT ![r].st = "waits"] /\ UNCHANGED fl
     \/ /\ fl.st = "done" /\ rd' = [rd EXCEPT ![r].st = IF fl.ok THEN "ok" ELSE "error"]
        /\ UNCHANGED fl
  /\ UNCHANGED <<front, mounted, src, live, co, ch, pipe, used>>

\* transactions.fill: the transfer starts, its id is the answer.
FillAsked ==
  /\ fl.call = "ask"
  /\ fl' = [fl EXCEPT !.call = "reply", !.tx = IF live THEN "check" ELSE "failed"]
  /\ UNCHANGED <<front, mounted, src, live, co, ch, pipe, rd, used>>

\* run_fill, fill_entries, fill_local and copy_file, one file standing for the list;
\* finish_fill says the outcome to whoever is subscribed.
FillFile == CHOOSE r \in Readers : TRUE
Finish(f, out) == [f EXCEPT !.tx = out, !.out = IF f.sub THEN out ELSE @]
RunFill ==
  /\ \/ /\ fl.tx = "check"
        /\ fl' = IF ~live \/ ~StillMatches(FillFile) THEN Finish(fl, "failed")
                 ELSE [fl EXCEPT !.tx = "copy"]
     \/ /\ fl.tx = "copy"
        /\ fl' = IF ~live THEN Finish(fl, "failed")
                 ELSE IF fl.pos < src[FillFile].len
                      THEN [fl EXCEPT !.pos = @ + 1, !.dest = Append(@, src[FillFile].ver)]
                      ELSE Finish(fl, "finished")
  /\ UNCHANGED <<front, mounted, src, live, co, ch, pipe, rd, used>>

\* FillCoordinator::run_fill: the caller has its outcome, its backstop, or a panic, and
\* the readers are released either way.
\* (mutant: a panic leaves the fill in flight)
AfterPanicStuck == "inflight"
AfterPanic == "done"
FillSettled ==
  /\ fl.call \in {"reply", "wait"}
  /\ \/ /\ fl.call = "reply" /\ fl.tx # "failed"
        /\ fl' = [fl EXCEPT !.call = "wait", !.sub = TRUE] /\ UNCHANGED rd
     \/ /\ (fl.call = "wait" /\ fl.out # "none") \/ (fl.call = "reply" /\ fl.tx = "failed")
        /\ fl' = [fl EXCEPT !.call = "over", !.st = "done", !.ok = fl.out = "finished"]
        /\ rd' = [r \in Readers |-> IF rd[r].st \in {"fills", "waits"}
                                    THEN [rd[r] EXCEPT !.st = "start"] ELSE rd[r]]
  /\ UNCHANGED <<front, mounted, src, live, co, ch, pipe, used>>
Panic ==
  /\ fl.call = "wait" /\ used.stalls < MaxStalls
  /\ fl' = [fl EXCEPT !.call = "over", !.st = AfterPanic]
  /\ rd' = [r \in Readers |-> IF rd[r].st = "fills" \/ (rd[r].st = "waits" /\ AfterPanic = "done")
                              THEN [rd[r] EXCEPT !.st = "start"] ELSE rd[r]]
  /\ used' = [used EXCEPT !.stalls = @ + 1]
  /\ UNCHANGED <<front, mounted, src, live, co, ch, pipe>>

(***************************************************************************)
(* The source machine's user and the account.                              *)
(***************************************************************************)
FileEdited(r) ==
  /\ used.changes < MaxChanges
  /\ \E n \in {src[r].len, src[r].len - 1} :
       n > 0 /\ src' = [src EXCEPT ![r] = [ver |-> @.ver + 1, len |-> n]]
  /\ used' = [used EXCEPT !.changes = @ + 1]
  /\ UNCHANGED <<front, mounted, live, co, ch, pipe, rd, fl>>

Revoked ==
  /\ live
  /\ live' = FALSE
  /\ UNCHANGED <<front, mounted, src, co, ch, pipe, rd, fl, used>>

Next ==
  \/ ServeLocal \/ StreamRange \/ Stall \/ FillAsked \/ RunFill \/ FillSettled \/ Panic \/ Revoked \/ Retired
  \/ \E r \in Readers : ReadAsync(r) \/ DrainToEof(r) \/ Collect(r) \/ DropRequest(r)
                        \/ HandleConn(r) \/ NextRead(r) \/ EnsureFilled(r) \/ FileEdited(r)

\* The Core serves, the client's tasks run, the pasting program goes on reading.
Fairness ==
  /\ WF_vars(ServeLocal) /\ WF_vars(StreamRange)
  /\ WF_vars(FillAsked) /\ WF_vars(RunFill) /\ WF_vars(FillSettled)
  /\ \A r \in Readers :
       /\ WF_vars(DrainToEof(r)) /\ WF_vars(Collect(r)) /\ WF_vars(EnsureFilled(r))
       /\ WF_vars(HandleConn(r)) /\ WF_vars(NextRead(r)) /\ WF_vars(ReadAsync(r))


Spec == Init /\ [][Next]_vars /\ Fairness

(***************************************************************************)
(* Properties.                                                             *)
(***************************************************************************)
\* Every frame a reader took for an answer is of its own file and at its own place,
\* whatever another reader's dropped request left in the shared channel (request,
\* drain_to_eof), and a GET that ended well met its Content-Length (write_get).
RightBytes ==
  \A r \in Readers :
    /\ \A i \in 1..Len(rd[r].got) : rd[r].got[i].file = r /\ rd[r].got[i].blk = i - 1
    /\ front = "webdav" /\ rd[r].st = "ok" => Len(rd[r].got) = Blocks

\* A fill whose transfer is over has its outcome waiting for the caller: it was
\* subscribed before the transfer could end (fill_async), so the one-hour backstop is
\* never what ends a paste.
OutcomeHeard == fl.call = "wait" /\ fl.tx \in {"finished", "failed"} => fl.out = fl.tx

\* Every paste ends, well or not: no reader is left behind the mutex, a half-read
\* channel, or a fill that panicked (ensure_filled).
PastesOver == \A r \in Readers : rd[r].st \in {"ok", "error"}
PastesEnd == <>[]PastesOver

\* A fill said to be finished wrote the frozen file, whole (doc/core-api.md: "never a
\* silent truncation and never silently different bytes").
FillIsAnnounced == fl.tx = "finished" => fl.dest = [i \in 1..Blocks |-> Announced]
=============================================================================
