------------------------------ MODULE RemoteControl ------------------------------
(***************************************************************************)
(* Prompts from Discord to a running session: the daemon queues them for   *)
(* the session (sendPrompt and remoteRequest in                            *)
(* src/src/agent/notify/discord-daemon.ts), the session's endpoint takes   *)
(* them under the grant of the moment (handleMessage in                    *)
(* src/src/agent/notify/session-endpoint.ts) and the prompt loop runs each *)
(* as a turn of its own (src/src/commands/launch.ts).                      *)
(*                                                                         *)
(* Both ends hold their own view of a socket: frames arrive in order, a    *)
(* close is seen at any time, and a daemon may have a new socket before    *)
(* the session has seen the old one close.  One session, prompts only.     *)
(***************************************************************************)
EXTENDS Integers, Sequences, SequencesExt

CONSTANTS Prompts,     \* the prompts are 1 .. Prompts
          MaxChanges,  \* bound: changes of the grant
          MaxLinks,    \* bound: sockets opened
          MaxWork      \* bound: prompts posted and sockets opened, together

ASSUME RemoteBounds == {Prompts, MaxChanges, MaxLinks, MaxWork} \subseteq Nat

VARIABLES
  granted, generation,    \* discordControlEnabled, discordControlGeneration
  sockets,                \* the sockets the session holds open
  down, up,               \* frames under way on each socket, to the session and to the daemon
  controllers,            \* remoteControllers: the prompt a socket has in hand, or 0
  resolving,              \* prompts whose stage is being resolved
  under,                  \* the generation a prompt was taken under
  revoked,                \* prompts whose signal has been aborted
  pending, exclusive,     \* pendingRemote and exclusiveRemote, or 0
  repl,                   \* the prompt loop: "prompt", "injected", "turn" or "busy"
  mixed,                  \* relayInputEpoch has moved since the admission
  link, opened, view,     \* the daemon's socket, or 0; sockets so far; controlEnabled and controlGeneration
  prompted, line, step,   \* prompts posted, those queued (promptTails), where the first one is
  origin,                 \* of a prompt: the socket and the generation it was queued under
  answered,               \* generation of the answer at hand
  spoiled, published      \* ghosts: prompts whose grant or turn was interfered with; answers shown

grantVars == <<granted, generation>>
wires == <<sockets, down, up>>
endpointVars == <<controllers, resolving, under, revoked>>
replVars == <<pending, exclusive, repl, mixed>>
daemonSide == <<link, opened, view, prompted, line, step, origin, answered>>
remoteVars == <<grantVars, wires, endpointVars, replVars, daemonSide, spoiled, published>>

Prompt == 1 .. Prompts
Link == 1 .. MaxLinks
Unseen == [on |-> FALSE, generation |-> -1]
Control(on, g) == [type |-> "discord_control", on |-> on, generation |-> g]
Ack(p, ok) == [type |-> "ack", prompt |-> p, ok |-> ok]
Final(p, text, g) == [type |-> "remote_final", prompt |-> p, ok |-> text, generation |-> g]

RemoteInit ==
  /\ granted = FALSE /\ generation = 0
  /\ sockets = {} /\ down = [c \in Link |-> <<>>] /\ up = [c \in Link |-> <<>>]
  /\ controllers = [c \in Link |-> 0] /\ resolving = {}
  /\ under = [p \in Prompt |-> -1] /\ revoked = {}
  /\ pending = 0 /\ exclusive = 0 /\ repl = "prompt" /\ mixed = FALSE
  /\ link = 0 /\ opened = 0 /\ view = Unseen /\ prompted = 0 /\ line = <<>> /\ step = "wait"
  /\ origin = [p \in Prompt |-> [link |-> 0, generation |-> -1]] /\ answered = -1
  /\ spoiled = {} /\ published = {}

---------------------------------------------------------------------------
(* The session                                                             *)

\* finish of a prompt: what its socket is told, if it is still there.
Told(p, text, wire) ==
  LET c == origin[p].link
      good == text /\ granted /\ p \notin revoked /\ under[p] = generation
  IN IF c \in sockets THEN [wire EXCEPT ![c] = Append(@, Final(p, good, under[p]))]
     ELSE wire

Freed(p) == [c \in Link |-> IF controllers[c] = p THEN 0 ELSE controllers[c]]

\* Signals are aborted; a prompt that still waits for the loop is finished at once.
Aborts(prompts, wire) ==
  /\ revoked' = revoked \cup prompts
  /\ IF pending \in prompts THEN pending' = 0 /\ up' = Told(pending, FALSE, wire)
                            ELSE UNCHANGED pending /\ up' = wire

\* admitPendingRemote in a loop that asks for input: p goes in if nothing else is there.
AsksInput(p, clear) ==
  IF p # 0 /\ clear
  THEN repl' = "injected" /\ exclusive' = p /\ pending' = 0 /\ mixed' = FALSE
  ELSE repl' = "prompt" /\ exclusive' = 0 /\ pending' = p /\ UNCHANGED mixed

\* Prompts whose answer has not left the session.
InHand ==
  ToSet(line) \ ((IF step = "answer" THEN {line[1]} ELSE {}) \cup
    {p \in Prompt : \E c \in Link, g \in 0 .. MaxChanges :
       Final(p, TRUE, g) \in ToSet(up[c])})

\* setDiscordControlEnabled
Changes ==
  /\ generation < MaxChanges /\ granted' = ~granted /\ generation' = generation + 1
  /\ LET told == [c \in Link |-> IF c \in sockets
                                 THEN Append(up[c], Control(granted', generation'))
                                 ELSE up[c]]
     IN IF granted THEN /\ Aborts({controllers[c] : c \in sockets} \ {0}, told)
                        /\ controllers' = [c \in Link |-> 0]
        ELSE up' = told /\ UNCHANGED <<controllers, revoked, pending>>
  /\ spoiled' = spoiled \cup InHand
  /\ UNCHANGED <<sockets, down, resolving, under, exclusive, repl, mixed, daemonSide, published>>

\* Defect: a prompt is taken under whatever grant there is.
GrantsAny(frame) == granted
\* A prompt is taken under the grant it was sent under only.
Grants(frame) == granted /\ frame.generation = generation

Frame(c) == Head(down[c])
Takes(c, type) ==
  /\ c \in sockets /\ down[c] # <<>> /\ Frame(c).type = type
  /\ down' = [down EXCEPT ![c] = Tail(@)]

\* remote_request: one prompt of a socket at a time.
TakesPrompt(c) ==
  /\ Takes(c, "remote_request")
  /\ IF Grants(Frame(c)) /\ controllers[c] = 0
     THEN /\ controllers' = [controllers EXCEPT ![c] = Frame(c).prompt]
          /\ resolving' = resolving \cup {Frame(c).prompt}
          /\ under' = [under EXCEPT ![Frame(c).prompt] = generation] /\ UNCHANGED up
     ELSE /\ up' = [up EXCEPT ![c] = Append(@, Ack(Frame(c).prompt, FALSE))]
          /\ UNCHANGED <<controllers, resolving, under>>
  /\ UNCHANGED <<grantVars, sockets, revoked, replVars, daemonSide, spoiled, published>>

\* Behind the await of its stage (found or not): onRemoteRequest, then the acknowledgement.
Resolves(p, found, clear) ==
  LET c == origin[p].link
      ok == found /\ granted /\ under[p] = generation /\ p \notin revoked /\ pending = 0
  IN /\ p \in resolving /\ resolving' = resolving \ {p}
     /\ controllers' = IF ok THEN controllers ELSE Freed(p)
     /\ up' = IF c \in sockets THEN [up EXCEPT ![c] = Append(@, Ack(p, ok))] ELSE up
     /\ IF ok /\ repl = "prompt" THEN AsksInput(p, clear)
        ELSE pending' = (IF ok THEN p ELSE pending) /\ UNCHANGED <<exclusive, repl, mixed>>
     /\ UNCHANGED <<grantVars, sockets, down, under, revoked, daemonSide, spoiled, published>>

TakesCancel(c) ==
  /\ Takes(c, "remote_cancel")
  /\ IF controllers[c] = Frame(c).prompt
     THEN /\ Aborts({controllers[c]}, up)
          /\ controllers' = IF pending = controllers[c] THEN Freed(pending) ELSE controllers
     ELSE UNCHANGED <<controllers, revoked, pending, up>>
  /\ UNCHANGED <<grantVars, sockets, resolving, under, exclusive, repl, mixed, daemonSide, spoiled, published>>

\* Defect: a socket that closes leaves its turn alone.
LosesQuietly(c) ==
  /\ sockets' = sockets \ {c} /\ down' = [down EXCEPT ![c] = <<>>]
  /\ controllers' = [controllers EXCEPT ![c] = 0] /\ UNCHANGED <<revoked, pending, up>>

\* A socket closes: its prompt is aborted, and nobody is told.
Loses(c) ==
  /\ sockets' = sockets \ {c} /\ down' = [down EXCEPT ![c] = <<>>]
  /\ controllers' = [controllers EXCEPT ![c] = 0]
  /\ revoked' = revoked \cup ({controllers[c]} \ {0})
  /\ pending' = IF pending # 0 /\ pending = controllers[c] THEN 0 ELSE pending
  /\ UNCHANGED up

SessionCloses(c) ==
  /\ c \in sockets /\ Loses(c)
  /\ UNCHANGED <<grantVars, resolving, under, exclusive, repl, mixed, daemonSide, spoiled, published>>

SessionSteps ==
  \/ Changes
  \/ \E c \in Link : TakesPrompt(c) \/ TakesCancel(c) \/ SessionCloses(c)
  \/ \E p \in Prompt, found, clear \in BOOLEAN : Resolves(p, found, clear)

---------------------------------------------------------------------------
(* The prompt loop                                                         *)

\* The exclusive prompt is over, and the loop asks for input again or is busy.
Leaves(text) == up' = Told(exclusive, text, up) /\ controllers' = Freed(exclusive)

LoopFrame == UNCHANGED <<grantVars, sockets, down, resolving, under, revoked, daemonSide, published>>

\* The injected text is run as a turn, unless it was aborted or something came between.
StartsTurn(clear) ==
  /\ repl = "injected"
  /\ IF exclusive \in revoked \/ mixed THEN Leaves(FALSE) /\ AsksInput(pending, clear)
     ELSE repl' = "turn" /\ UNCHANGED <<pending, exclusive, mixed, controllers, up>>
  /\ LoopFrame /\ UNCHANGED spoiled

EndsTurn(done, clear) ==
  /\ repl = "turn" /\ Leaves(done /\ ~mixed) /\ AsksInput(pending, clear)
  /\ LoopFrame /\ UNCHANGED spoiled

\* A local line that was entered before the injection wins the race of promptInput.
LosesRace ==
  /\ repl = "injected" /\ Leaves(FALSE) /\ repl' = "busy" /\ exclusive' = 0
  /\ LoopFrame /\ UNCHANGED <<pending, mixed, spoiled>>

\* Other input while a remote prompt has the loop: relayInputEpoch moves.
Mixes ==
  /\ repl \in {"injected", "turn"} /\ mixed' = TRUE /\ spoiled' = spoiled \cup {exclusive}
  /\ LoopFrame /\ UNCHANGED <<controllers, up, pending, exclusive, repl>>

LocalTurn(clear) ==
  /\ \/ repl = "prompt" /\ repl' = "busy" /\ UNCHANGED <<pending, exclusive, mixed>>
     \/ repl = "busy" /\ AsksInput(pending, clear)
  /\ LoopFrame /\ UNCHANGED <<controllers, up, spoiled>>

PromptLoopSteps ==
  \/ \E clear \in BOOLEAN : StartsTurn(clear) \/ LocalTurn(clear)
  \/ \E done, clear \in BOOLEAN : EndsTurn(done, clear)
  \/ LosesRace \/ Mixes

---------------------------------------------------------------------------
(* The daemon                                                              *)

Frozen == UNCHANGED <<grantVars, endpointVars, replVars, spoiled>>
LineMoves == line' = Tail(line) /\ step' = "wait"
Current == line # <<>> /\ origin[Head(line)] = [link |-> link, generation |-> view.generation] /\ view.on

\* scanSessions: a new socket, which the session greets with its grant.
OpensLink ==
  /\ link = 0 /\ opened < MaxLinks /\ prompted + opened < MaxWork
  /\ opened' = opened + 1 /\ link' = opened' /\ view' = Unseen
  /\ sockets' = sockets \cup {link'}
  /\ up' = [up EXCEPT ![link'] = <<Control(granted, generation)>>]
  /\ Frozen /\ UNCHANGED <<down, prompted, line, step, origin, answered, published>>

\* A prompt is queued under the socket and the grant the daemon sees now.
PostsPrompt ==
  /\ prompted < Prompts /\ link # 0 /\ prompted + opened < MaxWork
  /\ prompted' = prompted + 1 /\ line' = Append(line, prompted')
  /\ origin' = [origin EXCEPT ![prompted'] = [link |-> link, generation |-> view.generation]]
  /\ Frozen /\ UNCHANGED <<wires, link, opened, view, step, answered, published>>

\* Behind the prompt before it; then the stage, then the request.
Prepares ==
  /\ line # <<>> /\ step \in {"wait", "stage"}
  /\ IF ~Current THEN LineMoves /\ UNCHANGED down
     ELSE /\ UNCHANGED line
          /\ IF step = "wait" THEN step' = "stage" /\ UNCHANGED down
             ELSE /\ step' = "sent"
                  /\ down' = [down EXCEPT ![link] =
                       Append(@, [type |-> "remote_request", prompt |-> Head(line),
                                  generation |-> view.generation])]
  /\ Frozen /\ UNCHANGED <<sockets, up, link, opened, view, prompted, origin, answered, published>>

\* onSessionFrame
HearsSession ==
  /\ link # 0 /\ up[link] # <<>>
  /\ LET frame == Head(up[link])
         own == line # <<>> /\ frame.type # "discord_control" /\ frame.prompt = Head(line)
     IN /\ view' = IF frame.type = "discord_control"
                   THEN [on |-> frame.on, generation |-> frame.generation] ELSE view
        /\ IF own /\ frame.type = "ack" /\ step = "sent"
           THEN IF frame.ok THEN step' = "acked" /\ UNCHANGED <<line, answered>>
                            ELSE LineMoves /\ UNCHANGED answered
           ELSE IF own /\ frame.type = "remote_final" /\ step = "acked"
           THEN IF frame.ok THEN step' = "answer" /\ answered' = frame.generation /\ UNCHANGED line
                            ELSE LineMoves /\ UNCHANGED answered
           ELSE UNCHANGED <<line, step, answered>>
  /\ up' = [up EXCEPT ![link] = Tail(@)]
  /\ Frozen /\ UNCHANGED <<sockets, down, link, opened, prompted, origin, published>>

\* No acknowledgement in time, or no answer: the chat is told so and the prompt cancelled.
GivesUp ==
  /\ line # <<>> /\ step \in {"sent", "acked"} /\ LineMoves
  /\ down' = [down EXCEPT ![link] = Append(@, [type |-> "remote_cancel", prompt |-> Head(line)])]
  /\ Frozen /\ UNCHANGED <<sockets, up, link, opened, view, prompted, origin, answered, published>>

\* emit: the answer is shown if the grant it was given under still stands in the daemon's view.
Publishes ==
  /\ line # <<>> /\ step = "answer" /\ LineMoves
  /\ published' = IF view.on /\ link = origin[Head(line)].link /\ answered = view.generation
                  THEN published \cup {Head(line)} ELSE published
  /\ Frozen /\ UNCHANGED <<wires, link, opened, view, prompted, origin, answered>>

\* disconnectSession: what was sent on the socket may still arrive.
DaemonCloses ==
  /\ link # 0 /\ link' = 0 /\ view' = Unseen /\ up' = [up EXCEPT ![link] = <<>>]
  /\ IF step \in {"sent", "acked"} THEN LineMoves ELSE UNCHANGED <<line, step>>
  /\ Frozen /\ UNCHANGED <<sockets, down, opened, prompted, origin, answered, published>>

DaemonSteps == OpensLink \/ PostsPrompt \/ Prepares \/ HearsSession \/ GivesUp \/ Publishes \/ DaemonCloses

RemoteNext == SessionSteps \/ PromptLoopSteps \/ DaemonSteps
RemoteSpec == RemoteInit /\ [][RemoteNext]_remoteVars

---------------------------------------------------------------------------
(* Properties                                                              *)

\* What Discord is shown as an answer comes from a turn that ran, from its request to its
\* end, under one grant of the terminal and with no other input ("/discord control off"
\* while a prompt is queued, staged, under way, waiting or running).
AnswersUnderGrant == published \cap spoiled = {}

\* A prompt the chat has been told has failed does not go on in the session: its cancel or
\* the close of its socket is under way.
GivenUpIsStopped ==
  \A p \in (resolving \cup {pending, exclusive}) \ ({0} \cup revoked) :
    \/ step \in {"sent", "acked"} /\ Head(line) = p
    \/ LET c == origin[p].link IN
       c \in sockets /\ (link # c \/ [type |-> "remote_cancel", prompt |-> p] \in ToSet(down[c]))
=============================================================================
