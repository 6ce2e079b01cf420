--------------------------- MODULE VoiceDescription ---------------------------
(***************************************************************************)
(* The description of a citizen's report, typed or spoken: the browser's   *)
(* speech recognition (components/VoiceToTextInput.tsx) or, without it,    *)
(* the recorder and the backend's transcription                            *)
(* (hooks/useVoiceSOSRecorder.ts, components/VoiceSOSRecorder.tsx).  The   *)
(* text is the set of the pieces it contains.                              *)
(***************************************************************************)
EXTENDS Naturals, Sequences

CONSTANTS
  MaxPieces,   \* bound: pieces that are typed or spoken
  MaxAsks      \* bound: requests for the microphone that are open

ASSUME DescriptionAssumption == MaxPieces \in Nat /\ MaxAsks \in Nat

VARIABLES
  isSupported,   \* the browser recognises speech
  dictation,     \* "off", "on" (isListening) or "ending": stopped, a result due
  text,          \* voiceTranscript
  pieces,        \* pieces typed or spoken so far
  asks,          \* recordings that wait for the microphone: each has the text
                 \* of the render it was started in
  recording,     \* the text given to the recorder that the button stops
  forgotten,     \* the same of recorders that run on without the button
  transcribing,  \* the texts that transcripts on their way are appended to
  isTranscribing,
  late,          \* what forms that are gone may still append to
  kept,          \* history: pieces the citizen has not erased
  exposed        \* history: pieces that came while voice input was under way

recorderVars == <<asks, recording, forgotten, transcribing, isTranscribing, late>>
voiceVars == <<isSupported, dictation, text, pieces, recorderVars, kept, exposed>>

Pieces == 1 .. MaxPieces
NoRecording == {0}

VoiceTypeOK ==
  /\ isSupported \in BOOLEAN
  /\ dictation \in {"off", "on", "ending"}
  /\ pieces \in 0 .. MaxPieces
  /\ asks \in Seq(SUBSET Pieces) /\ Len(asks) <= MaxAsks
  /\ recording \in (SUBSET Pieces) \cup {NoRecording}
  /\ forgotten \cup transcribing \cup late \subseteq SUBSET Pieces
  /\ isTranscribing \in BOOLEAN
  /\ \A set \in {text, kept, exposed} : set \in SUBSET (1 .. pieces)

VoiceInit ==
  /\ isSupported \in BOOLEAN
  /\ dictation = "off"
  /\ text = {} /\ pieces = 0
  /\ asks = <<>> /\ recording = NoRecording /\ forgotten = {}
  /\ transcribing = {} /\ isTranscribing = FALSE /\ late = {}
  /\ kept = {} /\ exposed = {}

-----------------------------------------------------------------------------
\* The texts given to this form's recorders.
Recorders == ({recording} \ {NoRecording}) \cup forgotten

\* One of those that were given base ends; others may have been given the same.
OneLess(texts, base) == {texts, texts \ {base}}

VoiceUnderWay == asks # <<>> \/ Recorders # {} \/ transcribing # {} \/ late # {}

\* onChange with a new piece behind what its caller takes for the text.
Add(base) ==
  /\ pieces < MaxPieces
  /\ pieces' = pieces + 1
  /\ text' = base \cup {pieces + 1}
  /\ kept' = kept \cup {pieces + 1}
  /\ exposed' = IF VoiceUnderWay THEN exposed \cup {pieces + 1} ELSE exposed

\* The text area.
Type ==
  /\ Add(text)
  /\ UNCHANGED <<isSupported, dictation, recorderVars>>

Erase ==
  /\ text' = {} /\ kept' = {}
  /\ UNCHANGED <<isSupported, dictation, pieces, recorderVars, exposed>>

-----------------------------------------------------------------------------
\* toggleListening
ToggleListening ==
  /\ isSupported
  /\ dictation' = IF dictation = "on" THEN "ending" ELSE "on"
  /\ UNCHANGED <<isSupported, text, pieces, recorderVars, kept, exposed>>

\* The recogniser appends to the text of the latest render, which valueRef
\* holds.  (Mutant: to the one of the render its handlers were made in.)
ValueAtMount == {}
CurrentValue == text

\* onresult; each result appends, an interim one too.
Recognised ==
  /\ dictation # "off"
  /\ Add(CurrentValue)
  /\ UNCHANGED <<isSupported, dictation, recorderVars>>

\* onend and onerror.
RecognitionEnds ==
  /\ dictation # "off"
  /\ dictation' = "off"
  /\ UNCHANGED <<isSupported, text, pieces, recorderVars, kept, exposed>>

-----------------------------------------------------------------------------
\* startRecording, whose onTranscript is that of the present render.  The
\* button says the same until the microphone is there.
StartRecording ==
  /\ ~isSupported
  /\ recording = NoRecording /\ ~isTranscribing
  /\ Len(asks) < MaxAsks
  /\ asks' = Append(asks, text)
  /\ UNCHANGED <<isSupported, dictation, text, pieces, recording, forgotten, transcribing,
                 isTranscribing, late, kept, exposed>>

\* The microphone is there, or refused.  A recorder that was running is
\* forgotten: the button no longer stops it.
MicrophoneAnswered ==
  /\ asks # <<>>
  /\ asks' = Tail(asks)
  /\ recording' \in {Head(asks), NoRecording}
  /\ forgotten' = Recorders
  /\ UNCHANGED <<isSupported, dictation, text, pieces, transcribing, isTranscribing, late,
                 kept, exposed>>

\* A recorder stops, by the button or by itself: its audio is sent, or there is
\* none.  The button forgets any other.
RecordingStops ==
  \E base \in Recorders :
    /\ recording' = NoRecording
    /\ forgotten' \in OneLess(Recorders, base)
    /\ \/ transcribing' = transcribing \cup {base} /\ isTranscribing' = TRUE
       \/ UNCHANGED <<transcribing, isTranscribing>>
    /\ UNCHANGED <<isSupported, dictation, text, pieces, asks, late, kept, exposed>>

\* A transcript has come, for this form or one that is gone.
TranscriptEnds(base) ==
  /\ \/ base \in transcribing /\ transcribing' \in OneLess(transcribing, base)
        /\ isTranscribing' = FALSE /\ UNCHANGED late
     \/ base \in late /\ late' \in OneLess(late, base) /\ UNCHANGED <<transcribing, isTranscribing>>
  /\ UNCHANGED <<isSupported, dictation, asks, recording, forgotten>>

\* It replaces the text by the one its recording began with, and itself.
Transcribed(base) == TranscriptEnds(base) /\ Add(base)

\* There is no speech in it, or the request fails.
TranscriptionFails(base) == TranscriptEnds(base) /\ UNCHANGED <<text, pieces, kept, exposed>>

-----------------------------------------------------------------------------
\* The report is sent and another is begun: the page keeps the text, the form
\* is a new one.  The old form's recorders cannot be stopped any more; those
\* that stop by themselves, what it has sent, and a last result of its
\* recogniser, still come.
FormRemade ==
  /\ late' = late \cup transcribing \cup Recorders \cup {asks[i] : i \in 1 .. Len(asks)}
                  \cup (IF dictation # "off" THEN {text} ELSE {})
  /\ dictation' = "off"
  /\ asks' = <<>> /\ recording' = NoRecording /\ forgotten' = {}
  /\ transcribing' = {} /\ isTranscribing' = FALSE
  /\ UNCHANGED <<isSupported, text, pieces, kept, exposed>>

VoiceNext ==
  \/ Type \/ Erase
  \/ ToggleListening \/ Recognised \/ RecognitionEnds
  \/ StartRecording \/ MicrophoneAnswered \/ RecordingStops
  \/ \E base \in transcribing \cup late : Transcribed(base) \/ TranscriptionFails(base)
  \/ FormRemade

-----------------------------------------------------------------------------
\* Invariant.  What the citizen types and dictates stays in the description,
\* save what came while a recording, or what was still to come of an earlier
\* form, had been given an older text; and the browser's recognition alone
\* loses nothing, though its handlers are made once.
DescriptionIsKept == kept \ text \subseteq exposed

=============================================================================
