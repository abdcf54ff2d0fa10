--------------------------- MODULE PromptAssembly ---------------------------
(***************************************************************************)
(* What is put before the model: workflows/context.ts for role-play,       *)
(* workflows/group-prompts.ts for group turns, and the choice of speakers. *)
(* A text is its length, or the interval of positions that is left of it;  *)
(* lengths are scaled down, their caps are constants.                      *)
(***************************************************************************)
EXTENDS Lists, SequencesExt, FiniteSetsExt

CONSTANTS
  PromptBudget,     \* 12_000: assembleContext, and the system prompt of a group
  HistoryCap,       \* 8_000: historyContributor; and buildGroupSpeakerPrompt
  KnowledgeCap,     \* 6_000: knowledgeContributor, buildKnowledgePrompt
  GroupHistoryCap,  \* 24_000: formatGroupHistory
  GroupHistoryLen,  \* 24 messages: formatGroupHistory
  TextSizes,        \* lengths of the texts that go in
  HistorySizes,     \* lengths of messages and hits
  MaxMessages       \* bound on the length of a history

ASSUME PromptAssumption ==
  /\ {PromptBudget, HistoryCap, KnowledgeCap, GroupHistoryCap, GroupHistoryLen, MaxMessages}
       \subseteq Nat \ {0}
  /\ TextSizes \subseteq Nat /\ HistorySizes \subseteq Nat \ {0}

VARIABLES promptGiven, promptMade   \* one call: its input and what it returned
promptVars == <<promptGiven, promptMade>>

Least(m, n) == IF m < n THEN m ELSE n

\* A text is the positions first..last of what was written.
Span(first, last) == [first |-> first, last |-> last]
SizeOf(text) == text.last - text.first + 1
Whole(n) == Span(1, n)
HeadOf(text, n) == Span(text.first, Least(text.last, text.first + n - 1))
TailOf(text, n) ==
  IF SizeOf(text) <= n THEN text ELSE Span(text.last - n + 1, text.last)

-----------------------------------------------------------------------------
(***************************************************************************)
(* Role-play: contributions in order of priority until the budget is spent.*)
(***************************************************************************)
Priority == [system |-> 100, persona |-> 90, world |-> 80, memory |-> 70, history |-> 60, knowledge |-> 50]

Contribution(source, id, text) == [source |-> source, id |-> id, text |-> text]

\* Hits are quoted whole until one no longer fits.
QuotedHits(hits) ==
  LET fits(k) == SumOf(SubSeq(hits, 1, k)) <= KnowledgeCap
      k == CHOOSE n \in 0 .. Len(hits) :
             /\ \A i \in 1 .. n : fits(i)
             /\ n < Len(hits) => ~fits(n + 1)
  IN  SubSeq(hits, 1, k)

\* Nothing for a source that is missing or blank; the history is never blank.
Contributions(in) ==
  {c \in {Contribution("system", "policy", Whole(1)),
          Contribution("persona", "card", Whole(in.persona)),
          Contribution("history", IF in.sameText THEN "memo" ELSE "talk",
                       TailOf(Whole(IF in.history = 0 THEN 1 ELSE in.history), HistoryCap)),
          Contribution("world", "outline", Whole(in.world)),
          Contribution("memory", "memo", Whole(in.memory)),
          Contribution("knowledge", "hits",
                       Whole(IF in.hits = <<>> THEN 0 ELSE 1 + SumOf(QuotedHits(in.hits))))} :
     SizeOf(c.text) > 0}

\* Mutant of Ordered: the comparison the other way round.
OrderedUpwards(contributions) ==
  [n \in 1 .. Cardinality(contributions) |->
     CHOOSE c \in contributions :
       Cardinality({d \in contributions : Priority[d.source] <= Priority[c.source]}) = n]

\* Sorted: the n-th is the one whose priority n of them have or exceed.
Ordered(contributions) ==
  [n \in 1 .. Cardinality(contributions) |->
     CHOOSE c \in contributions :
       Cardinality({d \in contributions : Priority[d.source] >= Priority[c.source]}) = n]

\* assembleContext: the block that no longer fits loses its end, whatever it is.
Assembled(contributions) ==
  LET list == Ordered(contributions)
      Add(sofar, c) ==
        LET remaining == PromptBudget - sofar.used
            block == HeadOf(c.text, remaining)
        IN  IF c.id \in sofar.seen \/ remaining = 0 THEN sofar
            ELSE [seen |-> sofar.seen \cup {c.id},
                  blocks |-> Append(sofar.blocks, Contribution(c.source, c.id, block)),
                  used |-> sofar.used + SizeOf(block)]
      run[i \in 0 .. Len(list)] ==
        IF i = 0 THEN [seen |-> {}, blocks |-> <<>>, used |-> 0] ELSE Add(run[i - 1], list[i])
  IN  run[Len(list)]

HitLists == {<<>>} \cup {<<m, n>> : m, n \in HistorySizes}

AssembleRoleplay ==
  \E persona \in TextSizes \ {0}, world, memory, history \in TextSizes,
     hits \in HitLists, sameText \in BOOLEAN :
    LET in == [task |-> "roleplay", persona |-> persona, world |-> world, memory |-> memory,
               history |-> history, hits |-> hits, sameText |-> sameText]
    IN  /\ sameText => memory = history /\ history > 0
        /\ promptGiven' = in
        /\ promptMade' = Assembled(Contributions(in)).blocks

-----------------------------------------------------------------------------
(***************************************************************************)
(* Group turns: the history a speaker is shown.  A message is [id, size].  *)
(***************************************************************************)
LastOf(s, n) == SubSeq(s, IF Len(s) > n THEN Len(s) - n + 1 ELSE 1, Len(s))

\* The loop of formatGroupHistory, from the newest message back.
Collected(messages) ==
  LET newest == Reverse(LastOf(messages, GroupHistoryLen))
      Keep(sofar, m) ==
        IF sofar.full \/ sofar.total + m.size > GroupHistoryCap
        THEN [sofar EXCEPT !.full = TRUE]
        ELSE [full |-> FALSE, total |-> sofar.total + m.size, lines |-> Append(sofar.lines, m)]
      run[i \in 0 .. Len(newest)] ==
        IF i = 0 THEN [full |-> FALSE, total |-> 0, lines |-> <<>>] ELSE Keep(run[i - 1], newest[i])
  IN  run[Len(newest)].lines

\* Mutant of FormatGroupHistory: the collected lines are not turned round again.
FormatGroupHistoryBackwards(messages) == Collected(messages)

FormatGroupHistory(messages) == Reverse(Collected(messages))

\* ensureLatestUser: the question is added only if no user message is there.
EnsureLatestUser(messages, question) ==
  IF (\E i \in DOMAIN messages : messages[i].role = "user") \/ question = 0 THEN messages
  ELSE Append(messages, [role |-> "user", size |-> question, id |-> Len(messages) + 1])

AssembleGroup ==
  \E n \in 0 .. MaxMessages : \E sizes \in [1 .. n -> HistorySizes], users \in SUBSET (1 .. n),
     question \in HistorySizes \cup {0} :
    LET talk == [i \in 1 .. n |->
                   [role |-> IF i \in users THEN "user" ELSE "assistant", size |-> sizes[i], id |-> i]]
        history == EnsureLatestUser(talk, question)
    IN  /\ promptGiven' = [task |-> "group", talk |-> talk, history |-> history, question |-> question]
        /\ promptMade' = FormatGroupHistory(history)

-----------------------------------------------------------------------------
(***************************************************************************)
(* Who speaks.  A name is a sequence of letters.                           *)
(***************************************************************************)
Casts == {<<>>, <<"a">>, <<"a", "ab">>, <<"a", "ab", "b">>}
Spelling == [a |-> <<"a">>, ab |-> <<"a", "b">>, b |-> <<"b">>]
Spoken == {<<>>, <<"a">>, <<"a", "b">>, <<"b">>, <<"a", "b", "c">>, <<"c">>}
Replies == {<<>>} \cup {<<v, w>> : v, w \in Spoken}

\* The names in the order of the reply: a full match, else the first member
\* whose name begins the word or begins with it; at most two of them.
ParseSpeakerNames(words, candidates) ==
  LET Meant(w) ==
        LET full == {i \in DOMAIN candidates : Spelling[candidates[i]] = w}
        IN  IF full # {} THEN full
            ELSE {i \in DOMAIN candidates :
                    IsPrefix(Spelling[candidates[i]], w) \/ IsPrefix(w, Spelling[candidates[i]])}
      Pick(sofar, w) ==
        IF w = <<>> \/ Len(sofar) >= 2 \/ Meant(w) = {} \/ candidates[Min(Meant(w))] \in Range(sofar)
        THEN sofar ELSE Append(sofar, candidates[Min(Meant(w))])
      run[i \in 0 .. Len(words)] == IF i = 0 THEN <<>> ELSE Pick(run[i - 1], words[i])
  IN  run[Len(words)]

\* pickFallbackSpeakers draws one, and with another draw perhaps a second one.
PickFallbackSpeakers(candidates) ==
  IF candidates = <<>> THEN {<<>>}
  ELSE {<<p>> : p \in Range(candidates)} \cup
       ({<<p, q>> : p, q \in Range(candidates)} \ {<<p, p>> : p \in Range(candidates)})

Candidates(cast, director) == Filtered(cast, {i \in DOMAIN cast : cast[i] # director})

ChooseSpeakers ==
  \E cast \in Casts, director \in {"none", "a", "b"}, words \in Replies :
    LET candidates == Candidates(cast, director)
        parsed == ParseSpeakerNames(words, candidates)
    IN  /\ promptGiven' = [task |-> "schedule", cast |-> cast, director |-> director, words |-> words]
        /\ \E speakers \in IF parsed # <<>> THEN {parsed} ELSE PickFallbackSpeakers(candidates) :
             promptMade' = speakers

-----------------------------------------------------------------------------
PromptInit == promptGiven = [task |-> "none"] /\ promptMade = <<>>

PromptNext ==
  /\ promptGiven.task = "none"
  /\ AssembleRoleplay \/ AssembleGroup \/ ChooseSpeakers

\* A block is the text of c, of which the end may be missing.
BeginningOf(block, c) ==
  /\ block.source = c.source /\ block.id = c.id
  /\ block.text.first = c.text.first /\ block.text.last \in c.text.first .. c.text.last

(***************************************************************************)
(* The prompt keeps within the budget and is spent from the top: what is   *)
(* there are sources in descending order of priority, none there twice and *)
(* no text repeated, each in whole but for the last, of which the end may  *)
(* be missing; and a source is cut or left out only if the budget is spent *)
(* to the last character on sources that matter at least as much, or if    *)
(* one that matters more says the same.  Texts begin at their beginning,   *)
(* the history excepted, which ends with its newest message.               *)
(***************************************************************************)
PromptByPriority ==
  promptGiven.task = "roleplay" =>
    LET asked == Contributions(promptGiven)
        blocks == DOMAIN promptMade
        rank(c) == Priority[c.source]
        spent == SumOf([i \in blocks |-> SizeOf(promptMade[i].text)])
        whole(c) == \E i \in blocks : promptMade[i] = c
        twice(c) == \E d \in asked : d.id = c.id /\ rank(d) > rank(c)
    IN  /\ spent <= PromptBudget
        /\ \A i, j \in blocks : i < j => rank(promptMade[i]) > rank(promptMade[j])
        /\ \A i \in blocks : \E c \in asked :
             ~twice(c) /\ BeginningOf(promptMade[i], c) /\ (i < Len(promptMade) => promptMade[i] = c)
        /\ \A c \in asked :
             \/ whole(c) \/ twice(c)
             \/ spent = PromptBudget /\ \A i \in blocks : rank(promptMade[i]) >= rank(c)
        /\ \A c \in asked : c.text.first = 1 \/ (c.source = "history" /\ c.text.last = promptGiven.history)

(***************************************************************************)
(* A speaker sees the newest messages, in order and without a gap, as many *)
(* as the caps allow; and a question typed into a talk without any is      *)
(* among them.                                                             *)
(***************************************************************************)
GroupHistoryNewest ==
  promptGiven.task = "group" =>
    LET history == promptGiven.history
        size(s) == SumOf([i \in DOMAIN s |-> s[i].size])
        allowed(k) == k <= GroupHistoryLen /\ size(LastOf(history, k)) <= GroupHistoryCap
    IN  /\ promptMade = LastOf(history, Len(promptMade))
        /\ allowed(Len(promptMade))
        /\ Len(promptMade) < Len(history) => ~allowed(Len(promptMade) + 1)
        /\ /\ promptGiven.question \in 1 .. GroupHistoryCap
           /\ \A i \in DOMAIN promptGiven.talk : promptGiven.talk[i].role # "user"
           => \E i \in DOMAIN promptMade : promptMade[i].role = "user"

(***************************************************************************)
(* Whatever the scheduler answers, one or two different members speak, the *)
(* director never does, and nobody only if nobody else is there.           *)
(***************************************************************************)
SpeakersOfTurn ==
  promptGiven.task = "schedule" =>
    /\ Cardinality(Range(promptMade)) = Len(promptMade) /\ Len(promptMade) <= 2
    /\ Range(promptMade) \subseteq Range(promptGiven.cast) \ {promptGiven.director}
    /\ promptMade = <<>> => Range(promptGiven.cast) \subseteq {promptGiven.director}

(***************************************************************************)
(* What a turn of a group is asked with and by whom it is answered: what   *)
(* buildGroupSpeakerPrompt and the scheduler are to return.                *)
(***************************************************************************)
GroupPromptCorrect == GroupHistoryNewest /\ SpeakersOfTurn

PromptCorrect == PromptByPriority /\ GroupPromptCorrect
=============================================================================
