------------------------------- MODULE Chunker -------------------------------
(***************************************************************************)
(* chunkText of lib/chunker.ts: a document becomes the texts that are      *)
(* embedded.  A document is a sequence of paragraphs, a paragraph the      *)
(* sequence of its sentences' lengths; its letters are numbered through    *)
(* and a piece is an interval of them, a chunk a sequence of pieces.       *)
(***************************************************************************)
EXTENDS Lists, SequencesExt

CONSTANTS
  MaxChars,       \* 600
  MinChars,       \* 300
  Overlap,        \* 60
  SentenceSizes,  \* lengths of sentences
  MaxSentences    \* bound on the number of sentences

\* What clamp makes of any options.
ASSUME ChunkerAssumption ==
  /\ MaxChars \in Nat \ {0} /\ MinChars \in 0 .. MaxChars - 1
  /\ 2 * Overlap <= MaxChars /\ Overlap \in Nat
  /\ SentenceSizes \subseteq Nat \ {0} /\ MaxSentences \in Nat

VARIABLES chunkerText, chunkerOut
chunkerVars == <<chunkerText, chunkerOut>>

PieceSize(piece) == piece.last - piece.first + 1
ChunkSize(chunk) == SumOf([i \in DOMAIN chunk |-> PieceSize(chunk[i])])

\* The sentences of a paragraph as pieces, the first letter being number start.
Sentences(paragraph, start) ==
  [i \in DOMAIN paragraph |->
     [first |-> start + SumOf(SubSeq(paragraph, 1, i - 1)),
      last |-> start + SumOf(SubSeq(paragraph, 1, i)) - 1]]

\* Mutant of Windows: the step forgets the overlap's sign.
WindowsApart(sentence) ==
  LET step == MaxChars + Overlap
      count == (PieceSize(sentence) + step - 1) \div step
      end(from) == IF from + MaxChars - 1 < sentence.last THEN from + MaxChars - 1 ELSE sentence.last
  IN  [k \in 1 .. count |->
         <<[first |-> sentence.first + (k - 1) * step, last |-> end(sentence.first + (k - 1) * step)]>>]

\* Windows over a sentence that is too long, each begun Overlap letters before
\* the end of the one before; the last may lie within that overlap.
Windows(sentence) ==
  LET step == MaxChars - Overlap
      count == (PieceSize(sentence) + step - 1) \div step
      end(from) == IF from + MaxChars - 1 < sentence.last THEN from + MaxChars - 1 ELSE sentence.last
  IN  [k \in 1 .. count |->
         <<[first |-> sentence.first + (k - 1) * step, last |-> end(sentence.first + (k - 1) * step)]>>]

Flush(sofar) == IF sofar.current = <<>> THEN sofar.raw ELSE Append(sofar.raw, sofar.current)

\* The loop over the sentences of a paragraph that is too long.
AddSentence(sofar, sentence) ==
  IF PieceSize(sentence) > MaxChars
  THEN [raw |-> Flush(sofar) \o Windows(sentence), current |-> <<>>]
  ELSE IF ChunkSize(sofar.current) + PieceSize(sentence) > MaxChars
  THEN [raw |-> Flush(sofar), current |-> <<sentence>>]
  ELSE [sofar EXCEPT !.current = Append(@, sentence)]

RawOf(paragraph, start) ==
  LET sentences == Sentences(paragraph, start)
      run[i \in 0 .. Len(sentences)] ==
        IF i = 0 THEN [raw |-> <<>>, current |-> <<>>] ELSE AddSentence(run[i - 1], sentences[i])
  IN  IF SumOf(paragraph) <= MaxChars
      THEN <<<<[first |-> start, last |-> start + SumOf(paragraph) - 1]>>>>
      ELSE Flush(run[Len(sentences)])

Raw(text) ==
  LET Add(sofar, paragraph) ==
        [raw |-> sofar.raw \o RawOf(paragraph, sofar.start), start |-> sofar.start + SumOf(paragraph)]
      run[i \in 0 .. Len(text)] ==
        IF i = 0 THEN [raw |-> <<>>, start |-> 1] ELSE Add(run[i - 1], text[i])
  IN  run[Len(text)].raw

Fits(last, chunk) == ChunkSize(last) < MinChars /\ ChunkSize(last) + ChunkSize(chunk) <= MaxChars

\* A short chunk takes the next one in, if both fit.
Merge(chunks, chunk) ==
  IF chunks # <<>> /\ Fits(chunks[Len(chunks)], chunk)
  THEN [chunks EXCEPT ![Len(chunks)] = @ \o chunk]
  ELSE Append(chunks, chunk)

ChunkText(text) ==
  LET raw == Raw(text)
      run[i \in 0 .. Len(raw)] == IF i = 0 THEN <<>> ELSE Merge(run[i - 1], raw[i])
  IN  run[Len(raw)]

Paragraphs == UNION {[1 .. n -> SentenceSizes] : n \in 1 .. MaxSentences}

ChunkerInit == chunkerText = <<>> /\ chunkerOut = <<>>
ChunkDocument ==
  /\ chunkerText = <<>>
  /\ \E n \in 1 .. 2 : \E text \in [1 .. n -> Paragraphs] :
       /\ chunkerText' = text
       /\ chunkerOut' = ChunkText(text)
ChunkerNext == ChunkDocument

-----------------------------------------------------------------------------
Letters(chunk) == UNION {piece.first .. piece.last : piece \in Range(chunk)}

(***************************************************************************)
(* Every letter of the document is in some chunk, chunks come in the order *)
(* of the text, no letter is in more than two of them, and none is longer  *)
(* than what a request to the gateway may be.                              *)
(***************************************************************************)
ChunksCover ==
  LET letters == 1 .. SumOf([i \in DOMAIN chunkerText |-> SumOf(chunkerText[i])])
      first(i) == chunkerOut[i][1].first
  IN  /\ UNION {Letters(chunkerOut[i]) : i \in DOMAIN chunkerOut} = letters
      /\ \A i, j \in DOMAIN chunkerOut : i < j => first(i) < first(j)
      /\ \A i \in DOMAIN chunkerOut : ChunkSize(chunkerOut[i]) \in 1 .. MaxChars
      /\ \A l \in letters : Cardinality({i \in DOMAIN chunkerOut : l \in Letters(chunkerOut[i])}) <= 2
=============================================================================
