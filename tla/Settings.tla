------------------------------ MODULE Settings ------------------------------
(***************************************************************************)
(* A user's own providers for images and voice: the two encrypted files    *)
(* (lib/media-settings.ts, lib/voice-settings.ts), their routes, the calls *)
(* made with them (lib/media.ts, lib/voice.ts) and the settings pages of   *)
(* one tab (hooks/use-media-state.ts, hooks/use-voice-state.ts).  Media    *)
(* are one section, voice has two.  Ciphers are external: what is stored   *)
(* of a key is the key, and a key of blanks alone decrypts to nothing.     *)
(***************************************************************************)
EXTENDS Naturals, FiniteSets

CONSTANTS
  Drafts,          \* what may be typed into a section: its url is "" when blank, "bad" or "http"
  DefaultUrl,      \* the address the forms suggest
  TypedKeys,            \* keys to be typed, numbered from 1
  AllowInsecure,
  SettingsCalls,   \* slots for calls in flight: 1, 2, ...
  MaxSteps         \* bound: what the user does

ASSUME SettingsAssumption ==
  /\ DefaultUrl \notin {"", "bad", "http"}
  /\ AllowInsecure \in BOOLEAN /\ TypedKeys \subseteq Nat \ {0} /\ SettingsCalls \subseteq Nat /\ MaxSteps \in Nat

VARIABLES
  settings,        \* what is stored, by section
  settingsTab,     \* forms, sections shown as configured, what is busy
  settingsCall,    \* calls in flight
  settingsCleared, \* keys deleted since they were last typed, by section
  settingsSteps
settingsVars == <<settings, settingsTab, settingsCall, settingsCleared, settingsSteps>>

Sections == {"media", "asr", "tts"}
KeyMissing == 0
BlankKey == CHOOSE k \in TypedKeys : \A j \in TypedKeys : k <= j   \* blanks alone
\* extra: the image model of media, the voice of tts.
Provider(url, model, extra, key) == [url |-> url, model |-> model, extra |-> extra, key |-> key]
NoProvider == Provider("", "", "", KeyMissing)
Missing == Provider("missing", "", "", KeyMissing)   \* a section not sent
Null == Provider("null", "", "", KeyMissing)         \* a section to delete
NothingSent == [s \in Sections |-> Missing]
SettingsIdle == [op |-> "none", section |-> "media", sent |-> NothingSent, seen |-> NothingSent, stage |-> "idle"]

SettingsInit ==
  /\ settings = [s \in Sections |-> NoProvider]
  /\ settingsTab = [form |-> [s \in Sections |-> NoProvider], shown |-> {},
                    busy |-> {}, speaking |-> FALSE]
  /\ settingsCall = [c \in SettingsCalls |-> SettingsIdle]
  /\ settingsCleared = [s \in Sections |-> {}]
  /\ settingsSteps = 0

---------------------------------------------------------------------------
(* The stores. *)

Either(new, old) == IF new = "" THEN old ELSE new
Newer(new, old) == IF new = KeyMissing THEN old ELSE new
UrlAccepted(url) == url \notin {"", "bad"} /\ (url = "http" => AllowInsecure)

ValidateMedia(p) == UrlAccepted(p.url) /\ p.model # "" /\ p.extra # ""
ValidateVoice(p) == UrlAccepted(p.url) /\ p.model # ""

Accepted_(file) == [ok |-> TRUE, file |-> file]
Refused_(file) == [ok |-> FALSE, file |-> file]

\* Blank fields keep what is stored, and so does a key left out.
UpdateMedia(file, new) ==
  LET old == file["media"]
      p == Provider(Either(new.url, old.url), Either(new.model, old.model), Either(new.extra, old.extra),
                    Newer(new.key, old.key))
  IN IF ValidateMedia(p) /\ p.key # KeyMissing THEN Accepted_([file EXCEPT !["media"] = p]) ELSE Refused_(file)

Apply(file, section, new) ==
  LET old == file[section]
      p == Provider(new.url, new.model, Either(new.extra, old.extra), Newer(new.key, old.key))
  IN CASE new = Missing -> Accepted_(file)
       [] new = Null -> Accepted_([file EXCEPT ![section] = NoProvider])
       [] OTHER -> IF ValidateVoice(new) /\ p.key # KeyMissing THEN Accepted_([file EXCEPT ![section] = p])
                   ELSE Refused_(file)

UpdateVoice(file, new) ==
  LET first == Apply(file, "asr", new["asr"])
      second == Apply(first.file, "tts", new["tts"])
  IN IF first.ok /\ second.ok THEN second ELSE Refused_(file)

ClearMediaKeepingKey(file) == [file EXCEPT !["media"] = [NoProvider EXCEPT !.key = file["media"].key]]
ClearMedia(file) == [file EXCEPT !["media"] = NoProvider]

\* What a call may use: nothing when the key does not decrypt to anything.
Decrypted(file, section) == IF file[section].key \in {KeyMissing, BlankKey} THEN NoProvider ELSE file[section]

\* PUT /api/me/voice wants a section.
VoiceRoute(file, new) ==
  IF new["asr"] = Missing /\ new["tts"] = Missing THEN Refused_(file) ELSE UpdateVoice(file, new)

---------------------------------------------------------------------------
(* The pages. *)

Started(op, section, sent) ==
  [SettingsIdle EXCEPT !.op = op, !.section = section, !.sent = sent, !.stage = "sent"]
SendCall(call, tab) ==
  /\ settingsTab' = tab
  /\ \E c \in SettingsCalls :
       /\ settingsCall[c] = SettingsIdle /\ \A d \in SettingsCalls : d < c => settingsCall[d] # SettingsIdle
       /\ settingsCall' = [settingsCall EXCEPT ![c] = call]
  /\ UNCHANGED <<settings, settingsCleared>>

LoadSettings(section) == SendCall(Started("load", section, NothingSent), settingsTab)

\* The form is as it was, or was typed in before the click.
Typed(s, p) == p = settingsTab.form[s] \/ p \in Drafts
SaveMediaSettings(p) ==
  /\ Typed("media", p)
  /\ SendCall(Started("saveMedia", "media", [NothingSent EXCEPT !["media"] = p]),
          [settingsTab EXCEPT !.form["media"] = p, !.busy = @ \cup {"media"}])

\* A section of the form is sent unless it is all blank.
SectionSent(p) == IF p = NoProvider THEN Missing ELSE p
SaveVoiceSettings(asr, tts) ==
  /\ Typed("asr", asr) /\ Typed("tts", tts)
  /\ SendCall(Started("saveVoice", "asr", [NothingSent EXCEPT !["asr"] = SectionSent(asr), !["tts"] = SectionSent(tts)]),
          [settingsTab EXCEPT !.form["asr"] = asr, !.form["tts"] = tts, !.busy = @ \cup {"asr"}])

ClearVoiceSection(section) ==
  SendCall(Started("clearVoice", section, [NothingSent EXCEPT ![section] = Null]),
       [settingsTab EXCEPT !.busy = @ \cup {"asr"}])
ClearMediaSettings == SendCall(Started("clearMedia", "media", NothingSent), settingsTab)

\* Drawing and describing; transcribing; reading aloud.
GenerateImage == SendCall(Started("use", "media", NothingSent), [settingsTab EXCEPT !.busy = @ \cup {"image"}])
TranscribeVoice == "asr" \in settingsTab.shown /\ SendCall(Started("use", "asr", NothingSent), settingsTab)
SpeakVoice == "tts" \in settingsTab.shown /\ SendCall(Started("use", "tts", NothingSent), [settingsTab EXCEPT !.speaking = TRUE])

SettingsClick ==
  /\ settingsSteps < MaxSteps
  /\ settingsSteps' = settingsSteps + 1
  /\ \/ \E p \in Drafts \cup {settingsTab.form["media"]} : SaveMediaSettings(p)
     \/ \E p \in Drafts : SaveVoiceSettings(p, p) \/ SaveVoiceSettings(settingsTab.form["asr"], p)
     \/ \E p \in Drafts \cup {settingsTab.form["asr"]} : SaveVoiceSettings(p, settingsTab.form["tts"])
     \/ \E s \in {"media", "asr"} : LoadSettings(s)
     \/ ClearMediaSettings
     \/ \E s \in {"asr", "tts"} : ClearVoiceSection(s)
     \/ GenerateImage \/ TranscribeVoice \/ SpeakVoice

---------------------------------------------------------------------------
(* The routes. *)

Saved(c) ==
  CASE c.op = "saveMedia" -> UpdateMedia(settings, c.sent["media"])
    [] c.op \in {"saveVoice", "clearVoice"} -> VoiceRoute(settings, c.sent)
    [] c.op = "clearMedia" -> Accepted_(ClearMedia(settings))
    [] OTHER -> Accepted_(settings)

\* What the history takes for deleted: a section's key when the section goes,
\* until it is typed again.
ClearedAfter(file, new, sent) ==
  [s \in Sections |-> (settingsCleared[s] \cup (IF new[s].url = "" /\ file[s].key # KeyMissing THEN {file[s].key} ELSE {}))
                      \ (IF new[s] # file[s] THEN {sent[s].key} ELSE {})]

View(p) == [p EXCEPT !.key = KeyMissing]
SectionsOf(c) == IF c.section = "media" THEN {"media"} ELSE {"asr", "tts"}
Shared(c, file) == [s \in Sections |-> IF s \in SectionsOf(c) THEN View(file[s]) ELSE Missing]

ServeSettings(c) ==
  LET call == settingsCall[c]
      r == Saved(call)
  IN /\ call.stage = "sent" /\ call.op # "use"
     /\ settings' = r.file
     /\ settingsCleared' = ClearedAfter(settings, r.file, call.sent)
     /\ settingsCall' = [settingsCall EXCEPT ![c].stage = IF r.ok THEN "ok" ELSE "failed",
                                             ![c].sent = NothingSent, ![c].seen = IF r.ok THEN Shared(call, r.file) ELSE NothingSent]
     /\ UNCHANGED <<settingsTab, settingsSteps>>

\* The provider is read once and the request made with what was read.
ServeUse(c) ==
  LET p == Decrypted(settings, settingsCall[c].section)
  IN /\ settingsCall[c].stage = "sent" /\ settingsCall[c].op = "use"
     /\ settingsCall' = [settingsCall EXCEPT ![c].stage = IF p = NoProvider THEN "failed" ELSE "provider",
                                             ![c].seen = [NothingSent EXCEPT ![settingsCall[c].section] = p]]
     /\ UNCHANGED <<settings, settingsTab, settingsCleared, settingsSteps>>

\* An answer, or a failure; for media the timeout is one.
ProviderAnswers(c) ==
  /\ settingsCall[c].stage = "provider"
  /\ \E stage \in {"ok", "failed"} : settingsCall' = [settingsCall EXCEPT ![c].stage = stage, ![c].seen = NothingSent]
  /\ UNCHANGED <<settings, settingsTab, settingsCleared, settingsSteps>>

\* A call that does not get there, or whose answer gets lost.
LoseCall(c) ==
  /\ settingsCall[c].stage \in {"sent", "ok"}
  /\ settingsCall' = [settingsCall EXCEPT ![c].stage = "failed", ![c].sent = NothingSent, ![c].seen = NothingSent]
  /\ UNCHANGED <<settings, settingsTab, settingsCleared, settingsSteps>>

---------------------------------------------------------------------------
(* The answers. *)

FilledIn(p) == IF p = NoProvider THEN Provider(DefaultUrl, "m", "x", KeyMissing) ELSE p

\* The forms after an answer: a load fills them in, a save takes the keys
\* out, clearing voice empties its section; clearing media leaves its form.
FormAfter(t, c, s) ==
  CASE c.op = "load" -> IF s = "asr" THEN [FilledIn(c.seen[s]) EXCEPT !.extra = ""] ELSE FilledIn(c.seen[s])
    [] c.op \in {"saveMedia", "saveVoice"} -> [t.form[s] EXCEPT !.key = KeyMissing]
    [] c.op = "clearVoice" /\ s = c.section -> NoProvider
    [] OTHER -> t.form[s]

Succeeded(t, c) ==
  IF c.op = "use" THEN t
  ELSE [t EXCEPT !.form = [s \in Sections |-> IF s \in SectionsOf(c) THEN FormAfter(t, c, s) ELSE @[s]],
                 !.shown = (@ \ SectionsOf(c)) \cup {s \in SectionsOf(c) : c.seen[s] # NoProvider}]

\* The finally of each call; a voice stops when its call fails or its audio
\* ends.
NoLongerBusy(c) ==
  CASE c.op = "use" /\ c.section = "media" -> {"image"}
    [] c.op = "saveMedia" -> {"media"}
    [] c.op \in {"saveVoice", "clearVoice"} -> {"asr"}
    [] OTHER -> {}

ReceiveSettings(c) ==
  LET call == settingsCall[c]
      t == IF call.stage = "ok" THEN Succeeded(settingsTab, call) ELSE settingsTab
  IN /\ call.stage \in {"ok", "failed"}
     /\ settingsTab' = [t EXCEPT !.busy = @ \ NoLongerBusy(call),
                                 !.speaking = @ /\ ~(call.op = "use" /\ call.section = "tts")]
     /\ settingsCall' = [settingsCall EXCEPT ![c] = SettingsIdle]
     /\ UNCHANGED <<settings, settingsCleared, settingsSteps>>

SettingsHandle(c) == ServeSettings(c) \/ ServeUse(c) \/ ReceiveSettings(c)

SettingsNext ==
  \/ SettingsClick
  \/ \E c \in SettingsCalls : SettingsHandle(c) \/ ProviderAnswers(c) \/ LoseCall(c)

SettingsSpec == SettingsInit /\ [][SettingsNext]_settingsVars

---------------------------------------------------------------------------
(* What is checked. *)

\* Whatever was typed, in whatever order fields were left blank to keep what
\* was stored, a stored section is one its validation accepts, with a key.
StoredProvidersValid ==
  \A s \in Sections : settings[s] = NoProvider \/
    /\ settings[s].key # KeyMissing
    /\ UrlAccepted(settings[s].url) /\ settings[s].model # "" /\ (s = "media" => settings[s].extra # "")

\* docs/security.md: a deleted provider's key does not come back, not even
\* by a later save with the key left blank.
ClearedKeyNotRevived == \A s \in Sections : settings[s].key \notin settingsCleared[s]

\* What saves that leave fields blank and deletions add up to, in any order,
\* is a provider that is complete and has a key of its own.
SettingsCorrect == StoredProvidersValid /\ ClearedKeyNotRevived

=============================================================================
