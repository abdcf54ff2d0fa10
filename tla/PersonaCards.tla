---------------------------- MODULE PersonaCards ----------------------------
(***************************************************************************)
(* From a form or a chara_card_v3 file to a stored persona and back:       *)
(* lib/personas.ts (isValidPersonaInput, buildPersona), lib/chara-card.ts  *)
(* and the form that fills in an input.  A text is the length of what      *)
(* trim() leaves of it, the white space around that, and the places of     *)
(* white space inside it: a cut may end there.  Length 0 is an absent      *)
(* text.  The tags hold no white space.                                    *)
(***************************************************************************)
EXTENDS Lists, SequencesExt

CONSTANTS
  Limit,       \* LIMITS of personas.ts, by field
  CardLimit,   \* LIMITS of chara-card.ts, where they are written again
  TextLengths, \* lengths of the texts of a card
  Padding,     \* white space around them
  Blanks,      \* places of white space inside them
  TagNames, MaxCardTags

ASSUME CardsAssumption ==
  /\ TextLengths \subseteq Nat /\ 0 \in TextLengths /\ Padding \subseteq Nat /\ 0 \in Padding
  /\ Blanks \subseteq Nat
  /\ \A tag \in TagNames : tag \in Seq(ToSet(tag))
  /\ MaxCardTags \in Nat
  /\ {"name", "description", "firstMessage", "style", "world", "faction", "tags", "tag"} \subseteq DOMAIN Limit
  /\ DOMAIN CardLimit = DOMAIN Limit
  /\ \A f \in DOMAIN Limit : Limit[f] \in Nat \ {0} /\ CardLimit[f] \in Nat \ {0}

VARIABLES cardGiven, personaMade
cardVars == <<cardGiven, personaMade>>

\* Mutant of CardCap: one of the two tables was changed.
CardCapDrifted(field) == CardLimit[field] + 1
CardCap(field) == CardLimit[field]

Text(pad, length, blanks) == [pad |-> pad, length |-> length, blanks |-> blanks]
Texts == {[text EXCEPT !.blanks = @ \cap (2 .. text.length - 1)] :
            text \in [pad : Padding, length : TextLengths, blanks : SUBSET Blanks]}
Dense(length) == Text(0, length, {})
NoText == Dense(0)
Size(text) == text.pad + text.length
Trim(text) == Text(0, text.length, text.blanks)
Shorter(m, n) == IF m < n THEN m ELSE n

\* slice(0, max) of a trimmed text: white space may be at its end then.
LastLetter(text, max) ==
  CHOOSE i \in (1 .. max) \ text.blanks : \A j \in (1 .. max) \ text.blanks : j <= i
Cut(text, max) ==
  IF text.length <= max THEN text
  ELSE LET last == LastLetter(text, max)
       IN  Text(max - last, last, text.blanks \cap (1 .. last))

\* [a, b].filter(Boolean).join("\n"), of trimmed texts.
Joined(a, b) ==
  IF a.length = 0 THEN b
  ELSE IF b.length = 0 THEN a
  ELSE LET newline == a.length + 1
       IN  Text(0, newline + b.length, a.blanks \cup {newline} \cup {newline + i : i \in b.blanks})

Optional == {"style", "world"}   \* and avatar, scenario, plot, examples, all treated alike
Covers == {"none", "aurora", "unknown"}
CoverOptions == {"aurora"}

\* A tag, already trimmed, is the sequence of its letters.
TagSeqs == UNION {[1 .. n -> TagNames] : n \in 0 .. MaxCardTags}
CutTag(tag) == SubSeq(tag, 1, Shorter(Len(tag), CardCap("tag")))
FirstOf(seq, n) == SubSeq(seq, 1, Shorter(Len(seq), n))
NotEmpty(tags) == Filtered(tags, {i \in DOMAIN tags : tags[i] # <<>>})
\* [...new Set(tags)]: each tag where it comes first.
NoRepeats(tags) == Filtered(tags, {i \in DOMAIN tags : \A j \in 1 .. i - 1 : tags[j] # tags[i]})

NotBlank(text) == Trim(text).length > 0

IsValidPersonaInput(input) ==
  /\ NotBlank(input.name) /\ Size(input.name) <= Limit["name"]
  /\ NotBlank(input.description) /\ Size(input.description) <= Limit["description"]
  /\ Size(input.firstMessage) <= Limit["firstMessage"]
  /\ \A f \in Optional : Size(input[f]) <= Limit[f]
  /\ Size(input.faction) <= Limit["faction"]
  /\ input.cover \in CoverOptions \cup {"none"}
  /\ Len(input.tags) <= Limit["tags"]
  /\ \A tag \in ToSet(input.tags) : 0 < Len(tag) /\ Len(tag) <= Limit["tag"]

\* buildPersona: trimmed, repeated tags dropped; the faction is not kept.
BuildPersona(input) ==
  [name |-> Trim(input.name), description |-> Trim(input.description), firstMessage |-> Trim(input.firstMessage),
   style |-> Trim(input.style), world |-> Trim(input.world), cover |-> input.cover, faction |-> NoText,
   tags |-> FirstOf(NoRepeats(input.tags), Limit["tags"])]

PersonaToCharaCardV3(persona) ==
  [name |-> persona.name, description |-> persona.description, personality |-> persona.style,
   firstMessage |-> persona.firstMessage, style |-> persona.style,
   worldScenario |-> persona.world, world |-> persona.world,
   cover |-> persona.cover, faction |-> persona.faction, tags |-> persona.tags]

\* A salutation of five letters, the whole name and a full stop.
GreetingLength == 6
Greeting(name) == Text(0, name.length + GreetingLength, {i + 5 : i \in name.blanks})

\* No persona: one without a name.
Refused ==
  [name |-> NoText, description |-> NoText, firstMessage |-> NoText, style |-> NoText, world |-> NoText,
   cover |-> "none", faction |-> NoText, tags |-> <<>>]

ImportedTags(tags) ==
  LET kept == FirstOf(NotEmpty(tags), CardCap("tags"))
  IN  [i \in DOMAIN kept |-> CutTag(kept[i])]

\* A greeting stands in for a missing first message; it is not cut.
CharaCardV3ToPersonaInput(card) ==
  LET name == Trim(card.name)
      description == Cut(Joined(Trim(card.description), Trim(card.personality)), CardCap("description"))
      first == Cut(Trim(card.firstMessage), CardCap("firstMessage"))
      world == IF Trim(card.worldScenario).length > 0 THEN card.worldScenario ELSE card.world
  IN  IF name.length = 0 \/ Size(description) = 0 THEN Refused
      ELSE [name |-> Cut(name, CardCap("name")), description |-> description,
            firstMessage |-> IF Size(first) > 0 THEN first ELSE Greeting(name),
            style |-> Cut(Trim(card.style), CardCap("style")), world |-> Cut(Trim(world), CardCap("world")),
            cover |-> IF card.cover \in CoverOptions THEN card.cover ELSE "none",
            faction |-> Cut(Trim(card.faction), CardCap("faction")), tags |-> ImportedTags(card.tags)]

-----------------------------------------------------------------------------
BlankCard ==
  [name |-> Dense(1), description |-> Dense(1), personality |-> NoText, firstMessage |-> Dense(1),
   style |-> NoText, worldScenario |-> NoText, world |-> NoText, cover |-> "none", faction |-> NoText, tags |-> <<>>]
NothingMade == [done |-> FALSE, input |-> Refused, stored |-> Refused]

CardInit == cardGiven = BlankCard /\ personaMade = NothingMade

\* createPersona, whoever asks.
Stored(input) == IF input # Refused /\ IsValidPersonaInput(input) THEN BuildPersona(input) ELSE Refused
Make(given, input) ==
  /\ cardGiven' = given
  /\ personaMade' = [done |-> TRUE, input |-> input, stored |-> IF input = Refused THEN Refused ELSE Stored(input)]

ImportACard ==
  /\ ~personaMade.done
  /\ \/ \E name, description, personality, first \in Texts :
          LET card == [BlankCard EXCEPT !.name = name, !.description = description,
                                        !.personality = personality, !.firstMessage = first]
          IN  Make(card, CharaCardV3ToPersonaInput(card))
     \/ \E style, world, scenario \in Texts :
          LET card == [BlankCard EXCEPT !.style = style, !.faction = style, !.world = world,
                                        !.worldScenario = scenario]
          IN  Make(card, CharaCardV3ToPersonaInput(card))
     \/ \E cover \in Covers, tags \in TagSeqs :
          LET card == [BlankCard EXCEPT !.cover = cover, !.tags = tags]
          IN  Make(card, CharaCardV3ToPersonaInput(card))

\* The form knows no faction, and its tags are trimmed and not empty.
FillInForm ==
  /\ ~personaMade.done
  /\ LET FilledIn(name, description, style, tags) ==
           [name |-> name, description |-> description, firstMessage |-> style, style |-> style,
            world |-> style, cover |-> "aurora", faction |-> NoText, tags |-> NotEmpty(tags)]
     IN  \/ \E name, description, style \in Texts :
              Make(BlankCard, FilledIn(name, description, style, <<>>))
         \/ \E tags \in TagSeqs :
              Make(BlankCard, FilledIn(Dense(1), Dense(1), NoText, tags))

CardNext == ImportACard \/ FillInForm

-----------------------------------------------------------------------------
(***************************************************************************)
(* The length protection of the import: what comes out of a card is never  *)
(* refused for its lengths, whatever the card holds and wherever it is     *)
(* cut.  Except for a greeting made of a name too long for a first         *)
(* message: charaCardV3ToPersonaInput cuts the first message and not the   *)
(* greeting that stands in for one.                                        *)
(***************************************************************************)
ImportIsAccepted ==
  LET input == personaMade.input
      greeted == Trim(cardGiven.firstMessage).length = 0
  IN  /\ input # Refused /\ cardGiven # BlankCard
      /\ greeted => Trim(cardGiven.name).length + GreetingLength <= Limit["firstMessage"]
      => personaMade.stored # Refused

(***************************************************************************)
(* What is stored is found again: readStore drops every persona that is    *)
(* not valid, and the next write would lose it.                            *)
(***************************************************************************)
StoredIsReadable == personaMade.stored # Refused => IsValidPersonaInput(personaMade.stored)

(***************************************************************************)
(* A persona that is exported and imported again is the same one but for   *)
(* its description, to which the style is added each time.  The cut of     *)
(* the longer description may end in the newline between the two or in     *)
(* other white space, which is trimmed away before it is stored.           *)
(***************************************************************************)
CardsRoundTrip ==
  LET old == personaMade.stored
      new == Stored(CharaCardV3ToPersonaInput(PersonaToCharaCardV3(old)))
  IN  old # Refused /\ old.firstMessage.length > 0 =>
        /\ new # Refused
        /\ new.description = Trim(Cut(Joined(old.description, old.style), Limit["description"]))
        /\ [new EXCEPT !.description = old.description] = old

(***************************************************************************)
(* Cards survive their way in, to the disk and out again.  The limits are  *)
(* written in personas.ts and in chara-card.ts; it takes both to agree.    *)
(***************************************************************************)
CardsCorrect == ImportIsAccepted /\ StoredIsReadable /\ CardsRoundTrip
SameLimits == CardLimit = Limit
=============================================================================
