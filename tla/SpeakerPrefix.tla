---------------------------- MODULE SpeakerPrefix ----------------------------
(***************************************************************************)
(* The filter of lib/group-speech.ts that takes a speaker's own name off   *)
(* the beginning of a streamed reply.  The reply comes in chunks of any    *)
(* size; push holds text back until it can tell, and there is no flush.    *)
(***************************************************************************)
EXTENDS Lists, SequencesExt

CONSTANTS
  SpeakerName,   \* the name, a sequence of letters
  ReplyTexts,    \* the replies, sequences of letters, spaces and marks
  MaxChunk       \* bound on the length of a chunk

ASSUME PrefixAssumption ==
  /\ SpeakerName \in Seq(Range(SpeakerName)) /\ Len(SpeakerName) > 0
  /\ \A reply \in ReplyTexts : reply \in Seq(Range(reply))
  /\ MaxChunk \in Nat \ {0}

VARIABLES
  prefixReply,   \* the whole reply
  prefixRead,    \* how much of it has been pushed
  prefixBuffer,  \* buffer
  prefixDone,    \* done
  prefixOut      \* what push has returned so far, put together
prefixVars == <<prefixReply, prefixRead, prefixBuffer, prefixDone, prefixOut>>

Space == {" "}
Opens == {"("}
Closes == {")"}
Colons == {":"}

\* The first position from i on that is not in the class.
SkipAll(s, i, class) ==
  CHOOSE j \in i .. Len(s) + 1 :
    /\ \A k \in i .. j - 1 : s[k] \in class
    /\ j <= Len(s) => s[j] \notin class
SkipOne(s, i, class) == IF i <= Len(s) /\ s[i] \in class THEN i + 1 ELSE i

NamedAt(s, j) ==
  LET n == j + Len(SpeakerName)
  IN  n <= Len(s) + 1 /\ SubSeq(s, j, n - 1) = SpeakerName

\* Where the name should be: behind spaces and a bracket, or behind the spaces
\* only if that does not match (the bracket may be the name's first letter).
NameAt(s) ==
  LET i == SkipAll(s, 1, Space)
      bracketed == SkipAll(s, SkipOne(s, i, Opens), Space)
  IN  IF NamedAt(s, bracketed) THEN bracketed ELSE i

\* The end of what the pattern matches, 0 when it does not: behind the name a
\* closing bracket, a colon, both or none.
MarkerEnd(s) ==
  LET k == SkipAll(s, NameAt(s) + Len(SpeakerName), Space)
      closed == SkipOne(s, k, Closes)
  IN  IF ~NamedAt(s, NameAt(s)) THEN 0
      ELSE IF closed > k
      THEN SkipAll(s, SkipOne(s, SkipAll(s, closed, Space), Colons), Space) - 1
      ELSE IF SkipOne(s, k, Colons) > k THEN SkipAll(s, k + 1, Space) - 1
      ELSE k - 1

Stripped(s) == SubSeq(s, MarkerEnd(s) + 1, Len(s))

WithoutSpace(s) == Filtered(s, {i \in DOMAIN s : s[i] \notin Space})

\* Mutant of StillPossible: text is let go before the name is complete.
StillPossibleOnceNamed(s) == IsPrefix(SpeakerName, WithoutSpace(s))

\* It may still be the marker: what there is begins the name, or begins with
\* it, or is nothing but a bracket.
StillPossible(s) ==
  LET normalized == WithoutSpace(s)
  IN  \/ IsPrefix(normalized, SpeakerName)
      \/ IsPrefix(SpeakerName, normalized)
      \/ Len(normalized) = 1 /\ normalized[1] \in Opens

Held(s) == Len(s) < Len(SpeakerName) + 4 /\ StillPossible(s)

PrefixInit ==
  /\ prefixReply = <<>> /\ prefixRead = 0 /\ prefixBuffer = <<>>
  /\ prefixDone = FALSE /\ prefixOut = <<>>

PrefixStart ==
  /\ prefixReply = <<>>
  /\ prefixReply' \in ReplyTexts
  /\ UNCHANGED <<prefixRead, prefixBuffer, prefixDone, prefixOut>>

Push(n) ==
  LET chunk == SubSeq(prefixReply, prefixRead + 1, prefixRead + n)
      buffer == prefixBuffer \o chunk
  IN  /\ prefixRead + n <= Len(prefixReply)
      /\ prefixRead' = prefixRead + n
      /\ IF prefixDone
         THEN prefixOut' = prefixOut \o chunk /\ UNCHANGED <<prefixBuffer, prefixDone>>
         ELSE /\ prefixBuffer' = buffer
              /\ prefixDone' = ~Held(buffer)
              /\ prefixOut' = IF Held(buffer) THEN prefixOut ELSE prefixOut \o Stripped(buffer)
      /\ UNCHANGED prefixReply

PrefixNext == PrefixStart \/ \E n \in 1 .. MaxChunk : Push(n)

PrefixSpec == PrefixInit /\ [][PrefixNext]_prefixVars

-----------------------------------------------------------------------------
Pushed == SubSeq(prefixReply, 1, prefixRead)

(***************************************************************************)
(* What is shown is the end of what has been pushed, and what is missing   *)
(* before it is a name marker or, until push has made up its mind, fewer   *)
(* than four characters more than the name: the most a reply can lose when *)
(* the stream ends.                                                        *)
(***************************************************************************)
OnlyMarkerRemoved ==
  LET missing == SubSeq(Pushed, 1, Len(Pushed) - Len(prefixOut))
  IN  /\ Pushed = missing \o prefixOut
      /\ IF prefixDone THEN missing = <<>> \/ MarkerEnd(missing) = Len(missing)
         ELSE prefixOut = <<>> /\ Len(missing) < Len(SpeakerName) + 4

FreeOfMarks(s) == \A i \in DOMAIN s : s[i] \notin Space \cup Opens

(***************************************************************************)
(* A reply without spaces and brackets comes out the same however it is    *)
(* cut into chunks.  (With them it does not: a marker in brackets is taken *)
(* off only if it comes in one chunk.)                                     *)
(***************************************************************************)
ChunksDoNotMatter ==
  prefixDone /\ FreeOfMarks(prefixReply) =>
    prefixOut = SubSeq(Stripped(prefixReply), 1, Len(prefixOut))
      /\ Len(prefixOut) = Len(Stripped(prefixReply)) - (Len(prefixReply) - prefixRead)

(***************************************************************************)
(* No text of a reply is lost, doubled or changed by push, wherever the    *)
(* borders of its chunks are.                                              *)
(***************************************************************************)
PrefixCorrect == OnlyMarkerRemoved /\ ChunksDoNotMatter
=============================================================================
