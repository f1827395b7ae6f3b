------------------------------ MODULE RemoteLink -------------------------------
(***************************************************************************)
(* One pairing of two machines: the controller's requests and watch lists  *)
(* (src/src/main/remote-client.ts), the relay, and the machine that runs   *)
(* the tasks (src/src/main/remote-service.ts).  Each direction numbers its *)
(* frames; the receiver drops a number at or below the highest it has      *)
(* taken.  The numbers are reserved in blocks in a saved file, so that a   *)
(* restart goes on above them.                                             *)
(*                                                                         *)
(* The relay is external: it keeps the order of a direction, may lose a    *)
(* frame, and may deliver one again.  Encryption, frame sizes, pairing and *)
(* unpairing, pushes (events, terminals, previews) and the eviction of the *)
(* 513th response are left out, and both state files can be written.       *)
(***************************************************************************)
EXTENDS Integers, Sequences, SequencesExt

CONSTANTS
    Requests,           \* the requests the controller makes, by id
    Lists, NoList,      \* watch lists none of which contains another; no list declared
    Block,              \* SEND_SEQUENCE_RESERVATION
    MaxCopies,          \* copies of one request that are on their way when a retry is due
    MaxWatches,         \* how many lists are declared
    MaxFaults           \* how many frames are lost, sockets close and machines restart

ASSUME RemoteLinkAssumption ==
    /\ Requests \cap Lists = {} /\ NoList \notin Requests \cup Lists
    /\ Block \in Nat \ {0} /\ MaxCopies \in Nat
    /\ MaxWatches \in Nat /\ MaxFaults \in Nat

VARIABLES
    outcome,            \* what the caller of each request has been told
    pending,            \* connection.pending, in order of insertion
    watching,           \* connection.watching
    clientUp,           \* connection.socket is open
    sequence,           \* connection.sequence
    reserved,           \* link.sendSequence, and the same in the file
    reservedSaved,
    waiting,            \* writes that wait for the file to hold their block
    clientMark,         \* link.receiveSequence of the controller
    toPeer, toClient,   \* frames in the relay
    peerUp,             \* #sockets has the link
    mark, markSaved,    \* link.receiveSequence of the peer, and the same in its file
    intake,             \* frames taken whose number is not in the file yet
    running, done,      \* #responses: requests being executed, requests executed
    owed,               \* how many frames wait for the response of each request
    answers,            \* #sendQueues
    sent,               \* #sentSequences
    peerReserved,       \* link.sendSequence of the peer, in memory and in its file
    watched,            \* #watched
    watches, faults,
    executed,           \* history: executions of each request in this life of the peer
    acted               \* history: the frames the peer has acted on

askVars == <<outcome, pending, watching, watches>>
writeVars == <<sequence, reserved, waiting, toPeer>>
markVars == <<mark, markSaved, intake>>
responseVars == <<running, done, owed, watched, executed, acted>>
answerVars == <<answers, sent, peerReserved, toClient>>
clientVars == <<askVars, clientUp, writeVars, reservedSaved, clientMark>>
peerVars == <<peerUp, markVars, responseVars, answers, sent, peerReserved>>
vars == <<clientVars, toClient, peerVars, faults>>

Calls == Requests \cup Lists
Frames == [number : Nat \ {0}, call : Calls]

TypeOK ==
    /\ outcome \in [Requests -> {"new", "open", "answered", "failed"}]
    /\ pending \in Seq(Requests)
    /\ \A r \in Requests : outcome[r] = "open" <=> \E i \in 1..Len(pending) : pending[i] = r
    /\ watching \in Lists \cup {NoList} /\ watched \in Lists \cup {NoList}
    /\ clientUp \in BOOLEAN /\ peerUp \in BOOLEAN
    /\ sequence \in Nat /\ reserved \in Nat /\ reservedSaved \in Nat /\ clientMark \in Nat
    /\ waiting \in Seq([frame : Frames, block : Nat])
    /\ toPeer \in Seq(Frames) /\ toClient \in Seq(Frames) /\ intake \in Seq(Frames)
    /\ mark \in Nat /\ markSaved \in Nat /\ sent \in Nat /\ peerReserved \in Nat
    /\ running \subseteq Requests /\ done \subseteq Requests
    /\ owed \in [Requests -> Nat]
    /\ answers \in Seq(Calls)
    /\ watches \in 0..MaxWatches /\ faults \in 0..MaxFaults
    /\ executed \in [Requests -> Nat]
    /\ acted \in Seq(Frames)

Init ==
    /\ outcome = [r \in Requests |-> "new"] /\ pending = <<>>
    /\ watching = NoList /\ watched = NoList
    /\ clientUp = FALSE /\ peerUp = FALSE
    /\ sequence = 0 /\ reserved = 0 /\ reservedSaved = 0 /\ waiting = <<>>
    /\ toPeer = <<>> /\ toClient = <<>> /\ clientMark = 0
    /\ mark = 0 /\ markSaved = 0 /\ intake = <<>>
    /\ running = {} /\ done = {} /\ owed = [r \in Requests |-> 0]
    /\ answers = <<>> /\ sent = 0 /\ peerReserved = 0
    /\ watches = 0 /\ faults = 0
    /\ executed = [r \in Requests |-> 0] /\ acted = <<>>

Fault == faults < MaxFaults /\ faults' = faults + 1

-------------------------------------------------------------------------------
(***************************************************************************)
(* The controller writes.  A write whose number is not reserved yet waits  *)
(* for the file; any other is sent at once.  A write that finds no socket  *)
(* throws, and its callers ignore that.                                    *)
(***************************************************************************)
Frame(n, c) == [number |-> n, call |-> c]

Written(w, c) ==
    LET n == w.sequence + 1
    IN  IF n > w.reserved
           THEN [w EXCEPT !.reserved = n + Block - 1,
                          !.waiting = Append(@, [frame |-> Frame(n, c), block |-> n + Block - 1])]
           ELSE IF w.up
                   THEN [w EXCEPT !.sequence = n, !.wire = Append(@, Frame(n, c))]
                   ELSE w

AllWritten(before, calls) ==
    LET after[i \in 0..Len(calls)] == IF i = 0 THEN before ELSE Written(after[i - 1], calls[i])
    IN  after[Len(calls)]

\* The calls are written one after the other, without giving way.
WriteAll(calls, up) ==
    LET before == [sequence |-> sequence, reserved |-> reserved, waiting |-> waiting,
                   wire |-> toPeer, up |-> up]
        after == AllWritten(before, calls)
    IN  /\ sequence' = after.sequence /\ reserved' = after.reserved
        /\ waiting' = after.waiting /\ toPeer' = after.wire

\* The file holds the block, and the oldest write that waited goes on with the number it
\* had taken, if there is a socket now.
BlockSaved ==
    /\ waiting # <<>>
    /\ reservedSaved' = Head(waiting).block
    /\ waiting' = Tail(waiting)
    /\ IF clientUp
          THEN /\ sequence' = Head(waiting).frame.number
               /\ toPeer' = Append(toPeer, Head(waiting).frame)
          ELSE UNCHANGED <<sequence, toPeer>>
    /\ UNCHANGED <<askVars, clientUp, reserved, clientMark, toClient, peerVars, faults>>

-------------------------------------------------------------------------------
(***************************************************************************)
(* What the controller asks.                                               *)
(***************************************************************************)
Request(r) ==
    /\ outcome[r] = "new"
    /\ outcome' = [outcome EXCEPT ![r] = "open"]
    /\ pending' = Append(pending, r)
    /\ WriteAll(<<r>>, clientUp)
    /\ UNCHANGED <<watching, watches, clientUp, reservedSaved, clientMark, toClient, peerVars,
                   faults>>

Occurrences(s, c) == Len(SelectSeq(s, LAMBDA f : f.call = c))

Copies(r) ==
    Occurrences(toPeer, r) + Occurrences(intake, r) + owed[r] + Occurrences(toClient, r)
        + Len(SelectSeq(answers, LAMBDA c : c = r))
        + Len(SelectSeq(waiting, LAMBDA w : w.frame.call = r))

\* The retry timer of a request that has not been answered.
Retry(r) ==
    /\ outcome[r] = "open" /\ clientUp
    /\ Copies(r) < MaxCopies
    /\ WriteAll(<<r>>, TRUE)
    /\ UNCHANGED <<askVars, clientUp, reservedSaved, clientMark, toClient, peerVars, faults>>

Settle(r, how) ==
    /\ outcome' = [outcome EXCEPT ![r] = how]
    /\ \E i \in 1..Len(pending) : pending[i] = r /\ pending' = RemoveAt(pending, i)

\* The deadline of a request.
GiveUp(r) ==
    /\ outcome[r] = "open"
    /\ Settle(r, "failed")
    /\ UNCHANGED <<watching, watches, clientUp, writeVars, reservedSaved, clientMark, toClient,
                   peerVars, faults>>

\* A declaration is written once and forgotten.
WatchTasks(l) ==
    /\ watches < MaxWatches /\ watches' = watches + 1
    /\ watching' = l
    /\ WriteAll(<<l>>, clientUp)
    /\ UNCHANGED <<outcome, pending, clientUp, reservedSaved, clientMark, toClient, peerVars,
                   faults>>

ClientDrops ==
    /\ clientUp /\ Fault
    /\ clientUp' = FALSE
    /\ UNCHANGED <<askVars, writeVars, reservedSaved, clientMark, toClient, peerVars>>

\* A connection writes what is pending again, and the watch list after it.
ClientConnects ==
    /\ ~clientUp /\ clientUp' = TRUE
    /\ WriteAll(pending \o (IF watching = NoList THEN <<>> ELSE <<watching>>), TRUE)
    /\ UNCHANGED <<askVars, reservedSaved, clientMark, toClient, peerVars, faults>>

\* A response settles the request it names; one that nobody waits for is dropped.
ClientReceives ==
    /\ clientUp /\ toClient # <<>>
    /\ LET f == Head(toClient)
       IN  IF f.number <= clientMark
              THEN UNCHANGED <<outcome, pending, clientMark>>
              ELSE /\ clientMark' = f.number
                   /\ IF \E i \in 1..Len(pending) : pending[i] = f.call
                         THEN Settle(f.call, "answered")
                         ELSE UNCHANGED <<outcome, pending>>
    /\ toClient' = Tail(toClient)
    /\ UNCHANGED <<watching, watches, clientUp, writeVars, reservedSaved, peerVars, faults>>

\* The controller dies and comes back.  Its receive mark is saved from time to time: what
\* the file holds is some earlier one.
ClientRestarts ==
    /\ Fault
    /\ outcome' = [r \in Requests |-> IF outcome[r] = "open" THEN "failed" ELSE outcome[r]]
    /\ pending' = <<>> /\ watching' = NoList /\ clientUp' = FALSE
    /\ sequence' = reservedSaved /\ reserved' = reservedSaved /\ waiting' = <<>>
    /\ clientMark' \in 0..clientMark
    /\ UNCHANGED <<watches, toPeer, reservedSaved, toClient, peerVars>>

-------------------------------------------------------------------------------
(***************************************************************************)
(* The relay.                                                              *)
(***************************************************************************)
Lose ==
    /\ Fault
    /\ \/ toPeer # <<>> /\ toPeer' = Tail(toPeer) /\ UNCHANGED toClient
       \/ toClient # <<>> /\ toClient' = Tail(toClient) /\ UNCHANGED toPeer
    /\ UNCHANGED <<askVars, clientUp, sequence, reserved, waiting, reservedSaved,
                   clientMark, peerVars>>

Repeat ==
    /\ Fault
    /\ \/ toPeer # <<>> /\ toPeer' = <<Head(toPeer)>> \o toPeer /\ UNCHANGED toClient
       \/ toClient # <<>> /\ toClient' = <<Head(toClient)>> \o toClient /\ UNCHANGED toPeer
    /\ UNCHANGED <<askVars, clientUp, sequence, reserved, waiting, reservedSaved,
                   clientMark, peerVars>>

-------------------------------------------------------------------------------
(***************************************************************************)
(* The peer.  A frame above the mark raises it; once the file holds the    *)
(* new mark the request is executed, unless it was before.                 *)
(***************************************************************************)
PeerReceives ==
    /\ peerUp /\ toPeer # <<>>
    /\ IF Head(toPeer).number <= mark
          THEN UNCHANGED <<mark, intake>>
          ELSE mark' = Head(toPeer).number /\ intake' = Append(intake, Head(toPeer))
    /\ toPeer' = Tail(toPeer)
    /\ UNCHANGED <<askVars, clientUp, sequence, reserved, waiting, reservedSaved, clientMark,
                   peerUp, markSaved, responseVars, answerVars, faults>>

\* (as if) responses were not kept by request id.
RespondAgain(c) ==
    /\ c \in Requests
    /\ executed' = [executed EXCEPT ![c] = @ + 1]
    /\ running' = running \cup {c} /\ owed' = [owed EXCEPT ![c] = @ + 1]
    /\ UNCHANGED <<done, answers, watched>>

\* (as if) a request that was executed were taken for one that was answered.
RespondOnce(c) ==
    /\ IF c \in running \cup done
          THEN UNCHANGED <<executed, running, owed>>
          ELSE RespondAgain(c)
    /\ c \in Requests /\ UNCHANGED <<done, answers, watched>>

\* #response and the handler it starts.  A watch list is set at once; every declaration has
\* an id of its own, so none is taken for a repetition.
Respond(c) ==
    \/ /\ c \in Lists
       /\ watched' = c /\ answers' = Append(answers, c)
       /\ UNCHANGED <<running, done, owed, executed>>
    \/ /\ c \in Requests \ (running \cup done)
       /\ executed' = [executed EXCEPT ![c] = @ + 1]
       /\ running' = running \cup {c} /\ owed' = [owed EXCEPT ![c] = 1]
       /\ UNCHANGED <<done, answers, watched>>
    \/ /\ c \in running
       /\ owed' = [owed EXCEPT ![c] = @ + 1]
       /\ UNCHANGED <<running, done, answers, watched, executed>>
    \/ /\ c \in done
       /\ answers' = Append(answers, c)
       /\ UNCHANGED <<running, done, owed, watched, executed>>

\* (as if) the mark were left to a later save.
MarkUnsaved ==
    /\ intake # <<>> /\ intake' = Tail(intake)
    /\ acted' = Append(acted, Head(intake))
    /\ Respond(Head(intake).call)
    /\ UNCHANGED <<clientVars, toClient, peerUp, mark, markSaved, sent, peerReserved, faults>>

MarkSaved ==
    /\ intake # <<>> /\ intake' = Tail(intake)
    /\ markSaved' = Head(intake).number
    /\ acted' = Append(acted, Head(intake))
    /\ Respond(Head(intake).call)
    /\ UNCHANGED <<clientVars, toClient, peerUp, mark, sent, peerReserved, faults>>

\* The handler returns or throws: either is the response of every frame that waits for it.
ExecutionEnds(r) ==
    /\ r \in running
    /\ running' = running \ {r} /\ done' = done \cup {r}
    /\ owed' = [owed EXCEPT ![r] = 0]
    /\ answers' = answers \o [i \in 1..owed[r] |-> r]
    /\ UNCHANGED <<clientVars, toClient, peerUp, markVars, watched, executed, acted, sent,
                   peerReserved, faults>>

\* #write is serialised: the next number is reserved in the file before it is used.
PeerReserves ==
    /\ peerUp /\ answers # <<>> /\ sent + 1 > peerReserved
    /\ peerReserved' = sent + Block
    /\ UNCHANGED <<clientVars, toClient, peerUp, markVars, responseVars, answers, sent, faults>>

\* (as if) the numbers were only counted.
PeerWritesUnreserved ==
    /\ answers # <<>> /\ answers' = Tail(answers)
    /\ IF peerUp
          THEN sent' = sent + 1 /\ toClient' = Append(toClient, Frame(sent + 1, Head(answers)))
          ELSE UNCHANGED <<sent, toClient>>
    /\ UNCHANGED <<clientVars, peerUp, markVars, responseVars, peerReserved, faults>>

\* What there is no socket for is skipped: the controller asks again.
PeerWrites ==
    /\ answers # <<>> /\ answers' = Tail(answers)
    /\ \/ ~peerUp /\ UNCHANGED <<sent, toClient>>
       \/ /\ peerUp /\ sent < peerReserved
          /\ sent' = sent + 1 /\ toClient' = Append(toClient, Frame(sent + 1, Head(answers)))
    /\ UNCHANGED <<clientVars, peerUp, markVars, responseVars, peerReserved, faults>>

PeerDrops ==
    /\ peerUp /\ Fault
    /\ peerUp' = FALSE
    /\ UNCHANGED <<clientVars, markVars, responseVars, answerVars>>

PeerConnects ==
    /\ ~peerUp /\ peerUp' = TRUE
    /\ UNCHANGED <<clientVars, markVars, responseVars, answerVars, faults>>

PeerRestarts ==
    /\ Fault
    /\ peerUp' = FALSE
    /\ mark' = markSaved /\ intake' = <<>>
    /\ running' = {} /\ done' = {} /\ owed' = [r \in Requests |-> 0]
    /\ answers' = <<>> /\ sent' = peerReserved /\ watched' = NoList
    /\ executed' = [r \in Requests |-> 0]
    /\ UNCHANGED <<clientVars, toClient, markSaved, peerReserved, acted>>

Next ==
    \/ \E r \in Requests : Request(r) \/ Retry(r) \/ GiveUp(r) \/ ExecutionEnds(r)
    \/ \E l \in Lists : WatchTasks(l)
    \/ BlockSaved \/ ClientDrops \/ ClientConnects \/ ClientReceives \/ ClientRestarts
    \/ Lose \/ Repeat
    \/ PeerReceives \/ MarkSaved \/ PeerReserves \/ PeerWrites
    \/ PeerDrops \/ PeerConnects \/ PeerRestarts

Spec == Init /\ [][Next]_vars

\* Both ends dial again after a back-off, saves and handlers end, and the retry timer fires;
\* the relay delivers what it does not lose.  Deadlines need not pass.
FairSpec ==
    /\ Spec
    /\ WF_vars(ClientConnects) /\ WF_vars(PeerConnects)
    /\ WF_vars(ClientReceives) /\ WF_vars(PeerReceives)
    /\ WF_vars(BlockSaved) /\ WF_vars(MarkSaved) /\ WF_vars(PeerReserves) /\ WF_vars(PeerWrites)
    /\ \A r \in Requests : WF_vars(Retry(r)) /\ WF_vars(ExecutionEnds(r))

-------------------------------------------------------------------------------
(***************************************************************************)
(* Properties.                                                             *)
(***************************************************************************)
\* The peer's next number is above every number the controller has taken and every one on
\* its way to it, whatever restarts and reservations came before: no answer is dropped as a
\* replay (remote-service.ts:385-418).
AnswersAreNew ==
    /\ clientMark <= sent
    /\ \A i \in 1..Len(toClient) : toClient[i].number <= sent

\* Nothing is done twice.  No frame is acted on again, although the relay delivers it once
\* more after the peer has died and come back: its number was in the file before
\* (remote-service.ts:353-355).  And no request, written again in new frames because its
\* frame or its answer was lost, is executed twice in a life of the peer (358-373).
NothingDoneTwice ==
    /\ IsInjective(acted)
    /\ \A r \in Requests : executed[r] <= 1

\* A request whose frames or answers were lost, while sockets closed and the peer restarted,
\* is settled all the same, without its deadline (remote-client.ts:618-640).
KeptUntilSettled == \A r \in Requests : outcome[r] = "open" ~> outcome[r] # "open"

\* "A spent sequence is never reused" (remote-client.ts:613): the numbers that writes are
\* about to use are above every number the peer has taken and every one on its way to it.
SpentNeverReused ==
    /\ mark <= sequence
    /\ \A i \in 1..Len(toPeer) : toPeer[i].number <= sequence
    /\ \A i \in 1..Len(waiting) : waiting[i].frame.number > sequence
===============================================================================
