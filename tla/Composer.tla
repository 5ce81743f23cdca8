------------------------------ MODULE Composer ------------------------------
(***************************************************************************)
(* The compose screen of the webmail and the two requests it makes: the    *)
(* autosaved draft and the send with its countdown.                        *)
(*                                                                         *)
(* The page has a debounce timer, the intervals of countdowns, and any     *)
(* number of requests in flight; nothing orders the answers.  On the       *)
(* server SaveDraft commits the new draft and then removes the one it      *)
(* replaces; Send queues the message and then removes its draft.  The      *)
(* content of the message is the number of edits it has seen.              *)
(***************************************************************************)
EXTENDS Integers, FiniteSets

CONSTANTS
    Countdown,   \* undoSeconds when Send is pressed
    MaxEdits,    \* bound: edits of the message
    MaxPresses,  \* bound: presses of Send
    MaxSaves,    \* bound: autosaves
    MaxFaults    \* bound: requests, answers and writes that fail

ASSUME ComposerAssumption ==
    /\ Countdown \in Nat \ {0}
    /\ MaxEdits \in Nat /\ MaxPresses \in Nat /\ MaxSaves \in Nat
    /\ MaxFaults \in Nat

VARIABLES
    page,       \* "open" or "left"
    text,       \* what is written, as the number of edits
    timer,      \* the debounce timer is armed
    sending,    \* the state of that name
    undo,       \* undoSeconds, Null when no countdown shows
    intervals,  \* the setInterval of each press: what it will send, or dead
    draftUid,   \* draftUidRef.current, 0 for none
    saved,      \* the text the last "draft saved" was about
    saves,      \* requests to /mail/draft
    sends,      \* requests to /mail/send
    drafts,     \* the Drafts folder: UID to text
    nextUid,    \* uid_next of Drafts
    queued,     \* submissions accepted, and the text of each
    undos,      \* presses of Undo (observation)
    faults

user   == <<text, timer, sending, undo, intervals, undos>>
server == <<drafts, nextUid, queued>>
vars   == <<page, user, draftUid, saved, saves, sends, server, faults>>

Null == -1
Dead == -1

Texts == 0..MaxEdits

Presses == DOMAIN intervals

Init ==
    /\ page = "open"
    /\ text = 0
    /\ timer = FALSE
    /\ sending = FALSE
    /\ undo = Null
    /\ intervals = <<>>
    /\ draftUid = 0
    /\ saved = 0
    /\ saves = <<>>
    /\ sends = <<>>
    /\ drafts = <<>>
    /\ nextUid = 1
    /\ queued = <<>>
    /\ undos = 0
    /\ faults = 0

Faulty == faults < MaxFaults /\ faults' = faults + 1

With(f, x, v) == [y \in DOMAIN f \cup {x} |-> IF y = x THEN v ELSE f[y]]

Without(f, x) == [y \in DOMAIN f \ {x} |-> f[y]]

Next1(f) == Cardinality(DOMAIN f) + 1

-----------------------------------------------------------------------------
(***************************************************************************)
(* Typing arms the debounce timer anew, unless the message is on its way.  *)
(***************************************************************************)
Edit ==
    /\ page = "open"
    /\ text < MaxEdits
    /\ text' = text + 1
    /\ timer' = ~sending
    /\ UNCHANGED <<page, sending, undo, intervals, undos, draftUid, saved,
                   saves, sends, server, faults>>

(***************************************************************************)
(* The timer fires: saveDraft posts what is written and the draft it       *)
(* replaces, as far as the page knows.                                     *)
(***************************************************************************)
PostDraft ==
    /\ page = "open"
    /\ timer
    /\ Cardinality(DOMAIN saves) < MaxSaves
    /\ timer' = FALSE
    /\ saves' = With(saves, Next1(saves),
                     [at |-> "posted", text |-> text, replace |-> draftUid,
                      uid |-> 0])
    /\ UNCHANGED <<page, text, sending, undo, intervals, undos, draftUid,
                   saved, sends, server, faults>>

\* Mutant of PersistDraft: the superseded draft goes first.
PersistDraftLast(r) ==
    /\ saves[r].at = "posted"
    /\ \/ /\ drafts' = Without(drafts, saves[r].replace)
          /\ saves' = [saves EXCEPT ![r].at = "failed"]
          /\ Faulty /\ UNCHANGED nextUid
       \/ /\ drafts' = With(Without(drafts, saves[r].replace), nextUid,
                            saves[r].text)
          /\ nextUid' = nextUid + 1
          /\ saves' = [saves EXCEPT ![r].at = "expunge", ![r].uid = nextUid]
          /\ UNCHANGED faults
    /\ UNCHANGED <<page, user, draftUid, saved, sends, queued>>

(***************************************************************************)
(* SaveDraft: the new draft is committed first, so that a failure leaves   *)
(* the older one.                                                          *)
(***************************************************************************)
PersistDraft(r) ==
    /\ saves[r].at = "posted"
    /\ \/ /\ drafts' = With(drafts, nextUid, saves[r].text)
          /\ nextUid' = nextUid + 1
          /\ saves' = [saves EXCEPT ![r].at = "expunge", ![r].uid = nextUid]
          /\ UNCHANGED faults
       \/ /\ Faulty
          /\ saves' = [saves EXCEPT ![r].at = "failed"]
          /\ UNCHANGED <<drafts, nextUid>>
    /\ UNCHANGED <<page, user, draftUid, saved, sends, queued>>

(***************************************************************************)
(* The superseded draft is removed; a failure is logged.                   *)
(***************************************************************************)
ExpungeReplaced(r) ==
    /\ saves[r].at = "expunge"
    /\ \/ drafts' = Without(drafts, saves[r].replace) /\ UNCHANGED faults
       \/ Faulty /\ UNCHANGED drafts
    /\ saves' = [saves EXCEPT ![r].at = "stored"]
    /\ UNCHANGED <<page, user, draftUid, saved, sends, nextUid, queued>>

(***************************************************************************)
(* The answer reaches the page, or is lost.                                *)
(***************************************************************************)
DraftAnswered(r) ==
    /\ page = "open"
    /\ saves[r].at \in {"stored", "failed"}
    /\ \/ /\ saves[r].at = "stored"
          /\ draftUid' = saves[r].uid
          /\ saved' = saves[r].text
          /\ UNCHANGED faults
       \/ /\ IF saves[r].at = "stored" THEN Faulty ELSE UNCHANGED faults
          /\ UNCHANGED <<draftUid, saved>>
    /\ saves' = [saves EXCEPT ![r].at = "done"]
    /\ UNCHANGED <<page, user, sends, server>>

-----------------------------------------------------------------------------
(***************************************************************************)
(* handleSend: the countdown starts, with an interval of its own that      *)
(* keeps what it will send.                                                *)
(***************************************************************************)
HandleSend ==
    /\ page = "open"
    /\ ~sending
    /\ text > 0
    /\ Cardinality(Presses) < MaxPresses
    /\ sending' = TRUE
    /\ timer' = FALSE
    /\ undo' = Countdown
    /\ intervals' = With(intervals, Next1(intervals), text)
    /\ UNCHANGED <<page, text, undos, draftUid, saved, saves, sends, server,
                   faults>>

\* Mutant of AfterFiring: the interval is not cleared.
AfterFiringAgain(i) == intervals

AfterFiring(i) == [intervals EXCEPT ![i] = Dead]

(***************************************************************************)
(* A countdown that is not there counts as over.                           *)
(***************************************************************************)
CountdownOver == undo = Null \/ undo <= 1

(***************************************************************************)
(* A second passes for interval i: it counts down, or clears itself and    *)
(* posts the message.                                                      *)
(***************************************************************************)
Tick(i) ==
    /\ page = "open"
    /\ intervals[i] # Dead
    /\ IF CountdownOver
       THEN /\ intervals' = AfterFiring(i)
            /\ undo' = Null
            /\ sends' = With(sends, Next1(sends),
                             [at |-> "posted", text |-> intervals[i],
                              draft |-> draftUid])
       ELSE /\ undo' = undo - 1
            /\ UNCHANGED <<intervals, sends>>
    /\ UNCHANGED <<page, text, timer, sending, undos, draftUid, saved, saves,
                   server, faults>>

(***************************************************************************)
(* handleUndo.  Autosave starts again with it.                             *)
(***************************************************************************)
HandleUndo ==
    /\ page = "open"
    /\ undo # Null
    /\ undo' = Null
    /\ sending' = FALSE
    /\ timer' = TRUE
    /\ undos' = undos + 1
    /\ UNCHANGED <<page, text, intervals, draftUid, saved, saves, sends, server,
                   faults>>

(***************************************************************************)
(* Send on the server: Submit queues the message, or fails.                *)
(***************************************************************************)
Submit(r) ==
    /\ sends[r].at = "posted"
    /\ \/ /\ queued' = With(queued, Next1(queued), sends[r].text)
          /\ sends' = [sends EXCEPT ![r].at = "expunge"]
          /\ UNCHANGED faults
       \/ /\ Faulty
          /\ sends' = [sends EXCEPT ![r].at = "failed"]
          /\ UNCHANGED queued
    /\ UNCHANGED <<page, user, draftUid, saved, saves, drafts, nextUid>>

(***************************************************************************)
(* The draft the message grew out of is removed; a failure is logged.      *)
(***************************************************************************)
ExpungeSent(r) ==
    /\ sends[r].at = "expunge"
    /\ \/ drafts' = Without(drafts, sends[r].draft) /\ UNCHANGED faults
       \/ Faulty /\ UNCHANGED drafts
    /\ sends' = [sends EXCEPT ![r].at = "sent"]
    /\ UNCHANGED <<page, user, draftUid, saved, saves, nextUid, queued>>

(***************************************************************************)
(* A queued message leads away from the page; anything else is shown and   *)
(* the message can be sent again.                                          *)
(***************************************************************************)
SendAnswered(r) ==
    /\ page = "open"
    /\ sends[r].at \in {"sent", "failed"}
    /\ \/ /\ sends[r].at = "sent"
          /\ page' = "left"
          /\ timer' = FALSE
          /\ UNCHANGED <<sending, faults>>
       \/ /\ IF sends[r].at = "sent" THEN Faulty ELSE UNCHANGED faults
          /\ sending' = FALSE
          /\ timer' = TRUE
          /\ UNCHANGED page
    /\ sends' = [sends EXCEPT ![r].at = "done"]
    /\ UNCHANGED <<text, undo, intervals, undos, draftUid, saved, saves, server>>

(***************************************************************************)
(* The tab is closed.                                                      *)
(***************************************************************************)
Close ==
    /\ page = "open"
    /\ page' = "left"
    /\ timer' = FALSE
    /\ UNCHANGED <<text, sending, undo, intervals, undos, draftUid, saved,
                   saves, sends, server, faults>>

(***************************************************************************)
(* Once the page is gone its requests are cancelled: what the server has   *)
(* not done yet it may not do.                                             *)
(***************************************************************************)
Cancelled ==
    /\ page = "left"
    /\ \/ \E r \in DOMAIN saves :
            /\ saves[r].at \in {"posted", "expunge"}
            /\ saves' = [saves EXCEPT ![r].at = "failed"]
            /\ UNCHANGED sends
       \/ \E r \in DOMAIN sends :
            /\ sends[r].at \in {"posted", "expunge"}
            /\ sends' = [sends EXCEPT ![r].at = "failed"]
            /\ UNCHANGED saves
    /\ UNCHANGED <<page, user, draftUid, saved, server, faults>>

Next ==
    \/ Edit \/ PostDraft \/ HandleSend \/ HandleUndo \/ Close \/ Cancelled
    \/ \E i \in Presses : Tick(i)
    \/ \E r \in DOMAIN saves :
         PersistDraft(r) \/ ExpungeReplaced(r) \/ DraftAnswered(r)
    \/ \E r \in DOMAIN sends : Submit(r) \/ ExpungeSent(r) \/ SendAnswered(r)

Spec == Init /\ [][Next]_vars

-----------------------------------------------------------------------------
(***************************************************************************)
(* Properties                                                              *)
(***************************************************************************)
Steps == {"posted", "expunge", "stored", "sent", "failed", "done"}

\* The page's state and the requests stay in their types.
TypeOK ==
    /\ page \in {"open", "left"}
    /\ text \in Texts
    /\ timer \in BOOLEAN /\ sending \in BOOLEAN
    /\ undo \in {Null} \cup 1..Countdown
    /\ \A i \in Presses : intervals[i] \in {Dead} \cup Texts
    /\ draftUid \in 0..MaxSaves
    /\ saved \in Texts
    /\ \A r \in DOMAIN saves :
         saves[r] \in [at: Steps, text: Texts, replace: 0..MaxSaves,
                       uid: 0..MaxSaves]
    /\ \A r \in DOMAIN sends :
         sends[r] \in [at: Steps, text: Texts, draft: 0..MaxSaves]
    /\ \A u \in DOMAIN drafts : u \in 1..MaxSaves /\ drafts[u] \in Texts
    /\ nextUid \in 1..(MaxSaves + 1)
    /\ \A q \in DOMAIN queued : queued[q] \in Texts
    /\ undos \in Nat /\ faults \in 0..MaxFaults

\* One press of Send posts at most one message, however countdowns, failures
\* and answers interleave: the interval clears itself when it fires.
OneMessagePerPress == Cardinality(DOMAIN sends) <= Cardinality(Presses)

\* What the screen said was saved is in the Drafts folder, in that state or a
\* later one, until the message has been queued: SaveDraft commits before it
\* removes, so no order of autosaves and failures loses both.
SavedIsKept ==
    saved > 0 => \/ \E u \in DOMAIN drafts : drafts[u] >= saved
                 \/ DOMAIN queued # {}

\* What the button says ("Undo"): a press that was undone sends nothing.
UndoneIsNotSent ==
    faults = 0 => Cardinality(DOMAIN queued) <= Cardinality(Presses) - undos
=============================================================================
