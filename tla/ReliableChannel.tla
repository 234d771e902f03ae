-------------------------- MODULE ReliableChannel --------------------------
(***************************************************************************)
(* What the RPC bridge promises to the training operators: the messages    *)
(* the sender's operators hand over, numbered 0, 1, 2, ..., reach the      *)
(* receiver's mailboxes in that order, each exactly once, and a mailbox    *)
(* that waits for its consumer never loses the message it holds.           *)
(* The module says nothing of streams, retries or acknowledgements.        *)
(***************************************************************************)
EXTENDS Integers

CONSTANTS
  Keys,       \* the receiver's mailboxes (slot_key, content_key)
  DataKeys,   \* the mailboxes of kData messages: full until consumed
  KeyOf       \* the mailbox message number m is addressed to

NoMsg == -1

VARIABLES
  sent,       \* number of messages handed over so far
  delivered,  \* number of messages put into a mailbox so far
  mailbox,    \* the message each mailbox holds, or NoMsg
  consumed    \* the messages the consumers have taken

vars == <<sent, delivered, mailbox, consumed>>

Init ==
  /\ sent = 0
  /\ delivered = 0
  /\ mailbox = [k \in Keys |-> NoMsg]
  /\ consumed = {}

\* An operator hands over message number "sent".
Send ==
  /\ sent' = sent + 1
  /\ UNCHANGED <<delivered, mailbox, consumed>>

\* The next message in order reaches its mailbox; a data mailbox must be empty.
Deliver ==
  /\ delivered < sent
  /\ KeyOf[delivered] \in DataKeys => mailbox[KeyOf[delivered]] = NoMsg
  /\ mailbox' = [mailbox EXCEPT ![KeyOf[delivered]] = delivered]
  /\ delivered' = delivered + 1
  /\ UNCHANGED <<sent, consumed>>

\* A consumer takes the message its mailbox holds.
Consume(k) ==
  /\ mailbox[k] # NoMsg
  /\ consumed' = consumed \cup {mailbox[k]}
  /\ mailbox' = [mailbox EXCEPT ![k] = NoMsg]
  /\ UNCHANGED <<sent, delivered>>

Next == Send \/ Deliver \/ \E k \in Keys : Consume(k)

Spec == Init /\ [][Next]_vars
=============================================================================
