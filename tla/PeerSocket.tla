----------------------------- MODULE PeerSocket -----------------------------
(***************************************************************************)
(* One TCP connection with a peer, seen from our side: the bytes the peer  *)
(* sends and how it ends.                                                  *)
(*                                                                         *)
(* What the peer sends is a script of items: framed messages, a transfer   *)
(* token, pieces of a file.  Bytes are told apart as far as a reader can:  *)
(* every item is two units, so that it may arrive, or be read, in halves.  *)
(* Three counters then stand for the stream, the kernel's buffer and the   *)
(* reader's buffer of message_reader.rs.                                   *)
(***************************************************************************)
EXTENDS Integers, Sequences

CONSTANTS
  Scripts      \* what peers send: sequences of items

\* First items the listener knows, and those that are no framed message.
InitItem == {"PeerInit P", "PeerInit F", "PeerInit D", "PierceFireWall"}
RawItem  == {"Token", "Data"}

\* What comes before the file on a connection made for one: the first messages of
\* the two kinds the peer opens, the token of one that we pierced, nothing on one
\* that we opened for it.  No other connection carries a file.
HeaderItems(s) ==
  CASE s[1] = "PeerInit F" -> 2
    [] s[1] \in {"PierceFireWall", "Token"} -> 1
    [] s[1] = "Data" -> 0
    [] OTHER -> Len(s)

ASSUME ScriptsAssumption ==
  \A s \in Scripts :
    /\ s \in Seq(STRING) /\ s # <<>>
    /\ \A i \in DOMAIN s : s[i] = "Data" <=> i > HeaderItems(s)

VARIABLES
  script,      \* what the peer of this connection sends
  arrived,     \* units that reached us
  taken,       \* units read from the socket, into the reader's buffer
  extracted,   \* items taken out of the reader's buffer
  remote       \* "None", or how the peer's end is: "Open", "Eof" or "Reset"

socketVars == <<script, arrived, taken, extracted, remote>>

SocketInit ==
  /\ script \in Scripts
  /\ arrived = 0 /\ taken = 0 /\ extracted = 0
  /\ remote = "None"

\* A peer sends when it likes: an uploader should wait for START_DOWNLOAD with the
\* file, but nothing here makes it.
PeerSends ==
  /\ remote = "Open"
  /\ arrived < 2 * Len(script)
  /\ arrived' = arrived + 1
  /\ UNCHANGED <<script, taken, extracted, remote>>

PeerCloses ==
  /\ remote = "Open"
  /\ \E end \in {"Eof", "Reset"} : remote' = end
  /\ UNCHANGED <<script, arrived, taken, extracted>>

\* A read that returns bytes returns some of those that are there.
Readable == 1 .. (arrived - taken)

\* Mutant: an item is taken out when its first half is there.
WholeOrHalf(t) == (t + 1) \div 2

\* MessageReader::extract_message, until it returns None: of t units only whole
\* items leave the buffer.
Whole(t) == t \div 2

SocketTypeOK ==
  /\ script \in Scripts
  /\ arrived \in 0 .. 2 * Len(script)
  /\ taken \in 0 .. arrived
  /\ extracted \in 0 .. Len(script) /\ 2 * extracted <= taken
  /\ remote \in {"None", "Open", "Eof", "Reset"}

=============================================================================
