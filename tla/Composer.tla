--------------------------------- MODULE Composer ---------------------------------
(***************************************************************************)
(* Writing a message (js/app.js, sendMessage up to its row, stageAttachment,*)
(* setReplyingTo, selectContact, recoverContactKey). What is open, staged   *)
(* and replied to are globals; reading a file, asking the network for a key *)
(* and saving a row suspend, and the user goes on meanwhile.                *)
(***************************************************************************)
EXTENDS Naturals, FiniteSets

CONSTANTS
  People,   \* contacts
  Picks,    \* calls of stageAttachment
  Sendings  \* calls of sendMessage

VARIABLES
  radio,    \* radioOn
  known,    \* contacts whose key is known
  open,     \* activeContactHash
  staged,   \* stagedAttachment, and for whom it was picked
  replying, \* replyingToMsg, by its conversation
  picking,  \* where each call of stageAttachment is
  sending,  \* where each call of sendMessage is
  outgoing  \* history: what was handed to the network, and to whom

composerVars == <<radio, known, open, staged, replying, picking, sending, outgoing>>

Nobody == "nobody"

(* moved: another conversation was opened while a call was suspended.       *)
NoFile == [for |-> Nobody, moved |-> FALSE]

NotSending == [at |-> "no", to |-> Nobody, file |-> FALSE, reply |-> Nobody, moved |-> FALSE]

ComposerInit ==
  /\ radio \in BOOLEAN
  /\ known \in SUBSET People
  /\ open = Nobody
  /\ staged = NoFile /\ replying = Nobody
  /\ picking = [i \in Picks |-> [at |-> "no", for |-> Nobody, moved |-> FALSE]]
  /\ sending = [s \in Sendings |-> NotSending]
  /\ outgoing = {}

-----------------------------------------------------------------------------
(* Moving about.                                                            *)

Moves ==
  /\ picking' = [i \in Picks |-> [picking[i] EXCEPT !.moved = picking[i].at = "reading"]]
  /\ sending' = [s \in Sendings |->
                   [sending[s] EXCEPT !.moved = sending[s].at = "recovering"]]

StagedKept == UNCHANGED staged

StagedCleared == staged' = NoFile

(* selectContact: neither a staged file nor a reply goes along.             *)
ContactSelected(p) ==
  /\ open' = p
  /\ StagedCleared /\ replying' = Nobody
  /\ Moves
  /\ UNCHANGED <<radio, known, outgoing>>

(* The back button, and removing the open conversation, clear neither.      *)
BackPressed ==
  /\ open # Nobody /\ open' = Nobody
  /\ Moves
  /\ UNCHANGED <<radio, known, staged, replying, outgoing>>

SetReplyingTo ==
  /\ open # Nobody /\ replying' = open
  /\ UNCHANGED <<radio, known, open, staged, picking, sending, outgoing>>

RadioChanges ==
  /\ radio' = ~radio
  /\ UNCHANGED <<known, open, staged, replying, picking, sending, outgoing>>

-----------------------------------------------------------------------------
(* stageAttachment: the file is read and, an image, made smaller.           *)

PicksFile(i) ==
  /\ picking[i].at = "no" /\ open \in known
  /\ picking' = [picking EXCEPT ![i] = [at |-> "reading", for |-> open, moved |-> FALSE]]
  /\ UNCHANGED <<radio, known, open, staged, replying, sending, outgoing>>

FileRead(i) ==
  /\ picking[i].at = "reading"
  /\ picking' = [picking EXCEPT ![i].at = "over"]
  /\ \/ staged' = [for |-> picking[i].for, moved |-> picking[i].moved]
     \/ UNCHANGED staged  \* it could not be read, or is too large
  /\ UNCHANGED <<radio, known, open, replying, sending, outgoing>>

-----------------------------------------------------------------------------
(* sendMessage. What is being replied to is taken at once, and only in the  *)
(* conversation it belongs to.                                              *)

ReplyTarget == IF replying = open THEN replying ELSE Nobody

(* The row is filed under the conversation open now, and the file staged    *)
(* now is the one that goes: undefined if there is none by now, and the     *)
(* call throws.                                                             *)
RowWritten(s, call) ==
  IF call.file /\ staged = NoFile
    THEN /\ sending' = [sending EXCEPT ![s] = [call EXCEPT !.at = "over"]]
         /\ UNCHANGED outgoing
    ELSE /\ sending' = [sending EXCEPT ![s] = [call EXCEPT !.at = "saving"]]
         /\ outgoing' = outgoing \cup
              {[to |-> call.to, under |-> open, reply |-> call.reply,
                for |-> IF call.file THEN staged.for ELSE call.to,
                moved |-> call.moved \/ (call.file /\ staged.moved)]}

(* A file needs the radio; a recipient without a key is asked for. (The     *)
(* relay a message came by, effectiveRecipientFor, stands in for its        *)
(* conversation and is not told apart from it.)                             *)
SendMessage(s) ==
  LET call == [at |-> "no", to |-> open, file |-> staged # NoFile, reply |-> ReplyTarget,
               moved |-> FALSE]
  IN /\ sending[s].at = "no" /\ open # Nobody /\ (call.file => radio)
     /\ IF open \in known
          THEN RowWritten(s, call)
          ELSE /\ sending' = [sending EXCEPT ![s] = [call EXCEPT !.at = "recovering"]]
               /\ UNCHANGED outgoing
     /\ UNCHANGED <<radio, known, open, staged, replying, picking>>

(* recoverContactKey: the announce is in, or it is not known to anyone, or  *)
(* the radio was off.                                                       *)
KeyRecovered(s) ==
  /\ sending[s].at = "recovering"
  /\ known' = known \cup {sending[s].to}
  /\ RowWritten(s, sending[s])
  /\ UNCHANGED <<radio, open, staged, replying, picking>>

KeyNotFound(s) ==
  /\ sending[s].at = "recovering"
  /\ sending' = [sending EXCEPT ![s].at = "over"]
  /\ UNCHANGED <<radio, known, open, staged, replying, picking, outgoing>>

(* Only when the row is saved is the input cleared: a second press before   *)
(* sends the same again.                                                    *)
RowSaved(s) ==
  /\ sending[s].at = "saving"
  /\ sending' = [sending EXCEPT ![s].at = "over"]
  /\ staged' = IF sending[s].file THEN NoFile ELSE staged
  /\ replying' = Nobody
  /\ UNCHANGED <<radio, known, open, picking, outgoing>>

ComposerNext ==
  \/ \E p \in People : ContactSelected(p)
  \/ BackPressed \/ SetReplyingTo \/ RadioChanges
  \/ \E i \in Picks : PicksFile(i) \/ FileRead(i)
  \/ \E s \in Sendings : SendMessage(s) \/ KeyRecovered(s) \/ KeyNotFound(s) \/ RowSaved(s)

ComposerSpec == ComposerInit /\ [][ComposerNext]_composerVars

-----------------------------------------------------------------------------
(* Properties.                                                              *)

ComposerTypeOK ==
  /\ radio \in BOOLEAN /\ known \subseteq People
  /\ {open, replying} \subseteq People \cup {Nobody}
  /\ staged \in [for : People \cup {Nobody}, moved : BOOLEAN]
  /\ picking \in [Picks -> [at : {"no", "reading", "over"}, for : People \cup {Nobody},
                            moved : BOOLEAN]]
  /\ sending \in [Sendings -> [at : {"no", "recovering", "saving", "over"},
                               to : People \cup {Nobody}, file : BOOLEAN,
                               reply : People \cup {Nobody}, moved : BOOLEAN]]

(* What goes out is what was meant for its recipient: a file was picked in, *)
(* and the row is filed under, the recipient's conversation, and what it    *)
(* replies to is from there ("don't carry a staged file into a different    *)
(* conversation", selectContact). A call that was suspended while another   *)
(* conversation was opened is excepted but for the reply: sendMessage and   *)
(* stageAttachment read and write the globals afresh after their awaits, so *)
(* that a file read too late is staged for another, the one staged          *)
(* meanwhile goes instead, and the row is filed elsewhere.                  *)
SentFromHome ==
  \A m \in outgoing :
     /\ m.reply \in {Nobody, m.to}
     /\ ~m.moved => m.for = m.to /\ m.under = m.to
=============================================================================
