------------------------------ MODULE WakeTurn ------------------------------
(***************************************************************************)
(* The turn of a life that was woken: dialogue and sender stages of its     *)
(* stimulus (dialogue/src/service.ts, dialogue/src/index.ts,                *)
(* elysia-ai-body/src/index.ts, sender/), with the conversation store and   *)
(* the registry of the channels a message can be sent to.  The stimuli of   *)
(* one chat are served one after the other (StimulusRuntime), those of      *)
(* different chats concurrently.                                            *)
(***************************************************************************)
EXTENDS ToolLoop, FiniteSets, Filters

CONSTANTS
  Chats,
  LivesOf,         \* chat -> the lives that are there
  AnswersOf,       \* chat -> the tool calls a model answer may hold there
  MemoryLimit,     \* entries of the history in a prompt
  MaxEntries,      \* entries of a history
  MaxChannels,     \* channels in the registry of the sender
  MaxWakes, MaxArrivals, MaxFaults   \* bounds on what happens

VARIABLES
  bot,        \* whether a bot of the platform is there to send without a session
  turn,       \* per chat: the turn in progress
  history,    \* <<life, chat>> -> entries of its conversation
  channels,   \* HabitatSendRegistry: channels, the one used longest ago first
  seen,       \* history: the chats messages were seen in, in order
  created,    \* history: wake-up -> contents of its dialogue.output.created, in order
  sending,    \* history: attempts to send, in order
  wakes, faults

vars == <<bot, turn, history, channels, seen, created, sending, wakes, faults>>

Keys == UNION {LivesOf[c] \X {c} : c \in Chats}

NoTurn == [pc |-> "none"]

Init ==
  /\ bot \in BOOLEAN
  /\ turn = [c \in Chats |-> NoTurn]
  /\ history = [k \in Keys |-> <<>>]
  /\ channels = <<>> /\ seen = <<>> /\ created = <<>> /\ sending = <<>>
  /\ wakes = 0 /\ faults = 0

\* slice(-n)
LastOf(s, n) == SubSeq(s, IF Len(s) > n THEN Len(s) - n + 1 ELSE 1, Len(s))

-----------------------------------------------------------------------------
\* Mutant: a channel that is seen again keeps its place.
RegisterInPlace(c) ==
  IF c \in ToSet(channels) THEN channels ELSE LastOf(Append(channels, c), MaxChannels)

\* A message is seen in a chat, the bot's own ones included: its channel can be
\* sent to, and becomes the one used last.
Register(c) == LastOf(Append(Only(channels, Chats \ {c}), c), MaxChannels)

Arrive(c) ==
  /\ Len(seen) < MaxArrivals
  /\ seen' = Append(seen, c)
  /\ channels' = Register(c)
  /\ UNCHANGED <<bot, turn, history, created, sending, wakes, faults>>

\* entriesToMessages, then the message of the wake-up.
Prompt(k) ==
  LET recent == LastOf(history[k], MemoryLimit)
  IN  Append([i \in DOMAIN recent |->
                IF recent[i].role = "user" THEN User ELSE Assistant(0)], User)

\* A wake-up of the life is served; routed says whether it knows its channel.
Wake(c, l, routed) ==
  /\ turn[c] = NoTurn /\ wakes < MaxWakes /\ wakes' = wakes + 1
  /\ turn' = [turn EXCEPT ![c] =
       [pc |-> "model", wake |-> wakes', life |-> l, routed |-> routed,
        loop |-> NewLoop(Prompt(<<l, c>>))]]
  /\ UNCHANGED <<bot, history, channels, seen, created, sending, faults>>

\* Mutant: what was said is remembered although it was then taken back.
RememberedAnyway(loop) == loop.segments

\* The assistant's entry in the history; nothing stands for the note that the
\* life kept silent.
Remembered(loop) == IF loop.silent THEN <<>> ELSE Output(loop)

Appended(k, wake, content) ==
  LastOf(history[k] \o <<[role |-> "user", wake |-> wake],
                        [role |-> "assistant", wake |-> wake, content |-> content]>>,
        MaxEntries)

\* Mutant: of the outputs only the one created last is passed on.
PassedOnLast(loop) == LastOf(Output(loop), 1)

\* The outputs accumulated for the sender stage.
PassedOn(loop) == Output(loop)

\* The model answers.  After the last round the output is decided, the history
\* written, and the outputs are created.
ModelAnswers(c, calls) ==
  /\ turn[c].pc = "model"
  /\ LET t == turn[c]
         loop == Round(t.loop, calls)
         k == <<t.life, c>>
     IN  \/ /\ loop.stop = "none"
            /\ turn' = [turn EXCEPT ![c].loop = loop]
            /\ UNCHANGED <<history, created>>
         \/ /\ loop.stop # "none"
            /\ history' = [history EXCEPT ![k] = Appended(k, t.wake, Remembered(loop))]
            /\ created' = [w \in DOMAIN created \cup {t.wake} |->
                             IF w = t.wake THEN Output(loop) ELSE created[w]]
            /\ turn' = [turn EXCEPT ![c] = [pc |-> "send", wake |-> t.wake, routed |-> t.routed,
                                            outputs |-> PassedOn(loop)]]
  /\ UNCHANGED <<bot, channels, seen, sending, wakes, faults>>

\* A context or the model throws: dialogue.failed, and nothing is said.
ModelThrows(c) ==
  /\ turn[c].pc = "model" /\ faults < MaxFaults /\ faults' = faults + 1
  /\ turn' = [turn EXCEPT ![c] = NoTurn]
  /\ UNCHANGED <<bot, history, channels, seen, created, sending, wakes>>

\* Whether a text of this chat has somewhere to go: its channel is in the
\* registry, or a bot can send there without a session.  (The route of an incoming
\* message is under that message's id, which no wake-up has.)
Reaches(c) == c \in ToSet(channels) \/ bot

\* The chats whose last message is among the last MaxChannels of different chats.
Recent ==
  {c \in ToSet(seen) :
     \E i \in DOMAIN seen :
       /\ seen[i] = c
       /\ Cardinality(ToSet(SubSeq(seen, i, Len(seen)))) <= MaxChannels}

Attempt(c, outcome) ==
  /\ sending' = Append(sending,
       [wake |-> turn[c].wake, text |-> Head(turn[c].outputs), outcome |-> outcome,
        routed |-> turn[c].routed, known |-> bot \/ c \in Recent])
  /\ turn' = [turn EXCEPT ![c].outputs = Tail(@)]
  /\ UNCHANGED <<bot, history, channels, seen, created, wakes>>

\* The next output is sent, or it has nowhere to go: sender.failed.
Send(c) ==
  /\ turn[c].pc = "send" /\ turn[c].outputs # <<>>
  /\ Attempt(c, IF turn[c].routed /\ Reaches(c) THEN "sent" ELSE "unrouted")
  /\ UNCHANGED faults

\* The platform refuses it: sender.failed, and on to the next.
SendFails(c) ==
  /\ turn[c].pc = "send" /\ turn[c].outputs # <<>>
  /\ turn[c].routed /\ Reaches(c)
  /\ faults < MaxFaults /\ faults' = faults + 1
  /\ Attempt(c, "refused")

Rest(c) ==
  /\ turn[c].pc = "send" /\ turn[c].outputs = <<>>
  /\ turn' = [turn EXCEPT ![c] = NoTurn]
  /\ UNCHANGED <<bot, history, channels, seen, created, sending, wakes, faults>>

Next ==
  \E c \in Chats :
    \/ Arrive(c) \/ ModelThrows(c) \/ Send(c) \/ SendFails(c) \/ Rest(c)
    \/ \E l \in LivesOf[c], routed \in BOOLEAN : Wake(c, l, routed)
    \/ \E calls \in AnswersOf[c] : ModelAnswers(c, calls)

Spec == Init /\ [][Next]_vars
-----------------------------------------------------------------------------
TypeOK ==
  /\ bot \in BOOLEAN
  /\ \A c \in Chats :
       /\ turn[c].pc \in {"none", "model", "send"}
       /\ turn[c].pc = "model" => turn[c].loop.round < MaxRounds
  /\ \A k \in Keys : Len(history[k]) <= MaxEntries
  /\ \A w \in DOMAIN created : w \in 1..wakes /\ Len(created[w]) <= MaxSegments
  /\ Len(channels) <= MaxChannels /\ faults \in 0..MaxFaults

\* Every request of a loop holds one system message, however many rounds echoed
\* it, and every tool call with its results, however long the conversation.
RequestsWellFormed ==
  \A c \in Chats : turn[c].pc = "model" => WellFormed(Request(turn[c].loop.messages))

\* What a life remembers to have said in answer to a wake-up is what was created
\* for the sender: everything it decided to say, or its silence.
HistoryTellsWhatWasSaid ==
  \A k \in Keys : \A i \in DOMAIN history[k] :
    LET e == history[k][i]
    IN  e.role = "assistant" => e.wake \in DOMAIN created /\ e.content = created[e.wake]

AttemptsOf(w) == Only(sending, {a \in ToSet(sending) : a.wake = w})

\* Every output of a wake-up is sent once and in order, whatever became of the
\* one before it.
SentOnceInOrder ==
  \A w \in DOMAIN created :
    LET attempts == AttemptsOf(w)
        texts == [i \in DOMAIN attempts |-> attempts[i].text]
    IN  IF \E c \in Chats : turn[c].pc = "send" /\ turn[c].wake = w
          THEN IsPrefix(texts, created[w]) ELSE texts = created[w]

\* A text is sent or refused by the platform, it has nowhere to go only if its
\* wake-up knows no channel, or no bot is there and the chat has been silent
\* while MaxChannels others spoke.
NowhereToGo ==
  \A i \in DOMAIN sending :
    LET a == sending[i] IN a.outcome = "unrouted" <=> ~(a.routed /\ a.known)
=============================================================================
