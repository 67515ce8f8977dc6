----------------------------- MODULE SFXManager -----------------------------
(* The queue of sound commands between the game (the main thread) and the  *)
(* thread of the sound effects manager, and the state of the sounds, which *)
(* both threads write: audio/sfx_manager.cpp and audio/sfx_openal.cpp.     *)
(* A sound has a status in the program and a source in OpenAL.  The mutex  *)
(* of the queue is held for one step at a time; that of the list m_all_sfx *)
(* is held through loops (MainHolds, AudioHolds).  How long a sound lasts  *)
(* is left open.  Position, speed and volume are one kind of command.      *)
(* Music, quick sounds, the listener and buffers are left out.             *)
EXTENDS Integers, Sequences, SequencesExt

CONSTANTS Sounds,    \* the sounds that the game may create
          None,      \* no command, no sound
          Ops,       \* which operations the game uses
          Throttle,  \* the queue is long: 20 * getNumberOfKarts() + 20
          MaxQueue   \* bound: the game waits when so many commands are queued

VARIABLES
    m_sfx,           \* UserConfigParams::m_sfx: sounds are switched on
    m_sfx_commands,  \* the queue
    m_all_sfx,       \* the list of sounds
    sound,           \* each sound
    main,            \* what the main thread is about to do
    at,              \* its sound, its position in a list, or a size it has read
    stopping,        \* stopThread() has been called
    pc,              \* the sound thread
    current,         \* the command it executes
    index            \* its position in m_all_sfx

mainVars  == <<main, at, stopping>>
audioVars == <<pc, current, index>>
vars == <<m_sfx, m_sfx_commands, m_all_sfx, sound, mainVars, audioVars>>

Status  == {"uninit", "unknown", "stopped", "paused", "playing"}
Life    == {"none", "live", "deleted", "freed"}
Source  == {"none", "stopped", "paused", "playing"}
OnSound == {"create", "play", "stop", "pause", "resume", "loop", "position",
            "master", "delete"}
OnAll   == {"pauseAll", "resumeAll", "update", "exit"}

Command  == [c : OnSound, s : Sounds, on : BOOLEAN]
              \cup [c : OnAll, s : {None}, on : {FALSE}]

ASSUME SFXAssumption ==
    /\ None \notin Sounds \cup Command
    /\ Throttle \in Nat
    /\ MaxQueue \in Nat \ {0}

Cmd(c, s) == [c |-> c, s |-> s, on |-> FALSE]

SoundState == [life : Life, status : Status, loop : BOOLEAN,
               source : Source, looping : BOOLEAN]

NewSound(life) == [life |-> life, status |-> "uninit", loop |-> FALSE,
                   source |-> "none", looping |-> FALSE]

-----------------------------------------------------------------------------
(* What the sound thread does to one sound *)

Initialised(r, ok) ==
    IF ok THEN [r EXCEPT !.status = "stopped", !.source = "stopped",
                         !.looping = r.loop]
          ELSE [r EXCEPT !.status = "unknown"]

\* Mutant: the status that play() has set is taken to be still there.
PlaysWithoutStatus(r) ==
    [r EXCEPT !.source = IF @ = "none" THEN "none" ELSE "playing"]

(* The status is set again: init() may have overwritten that of play().     *)
ReallyPlayNow(r) ==
    [r EXCEPT !.status = "playing",
              !.source = IF @ = "none" THEN "none" ELSE "playing"]

ReallyStopNow(r) ==
    IF r.status \in {"playing", "paused"}
    THEN [r EXCEPT !.status = "stopped", !.loop = FALSE, !.looping = FALSE,
                   !.source = IF @ = "none" THEN "none" ELSE "stopped"]
    ELSE r

ReallyPauseNow(r) ==
    IF m_sfx /\ r.status = "playing"
    THEN [r EXCEPT !.status = "paused",
                   !.source = IF @ = "playing" THEN "paused" ELSE @]
    ELSE r

ReallyResumeNow(r) ==
    IF r.status = "paused" THEN ReallyPlayNow(r) ELSE r

Ready(r, ok) == IF r.status = "uninit" THEN Initialised(r, ok) ELSE r

(* A sound that is not looped ends: also in OpenAL, unless it loops there.  *)
Finished(r) == [r EXCEPT !.status = "stopped",
                         !.source = IF r.looping THEN @ ELSE "stopped"]

Listed == {m_all_sfx[i] : i \in 1..Len(m_all_sfx)}
ForAll(Do(_)) ==
    [s \in Sounds |-> IF s \in Listed THEN Do(sound[s]) ELSE sound[s]]

-----------------------------------------------------------------------------
(* The main thread *)

\* Mutant: the loops of the sound thread do not lock the list.
AudioUnlocked == FALSE

MainHolds  == main \in {"volume", "back"}
AudioHolds == pc \in {"scan", "upd"}

\* Mutant: sounds are deleted before the other commands are executed.
DeletesFirst(q, cmd) ==
    IF cmd.c = "delete" THEN <<cmd>> \o q ELSE Append(q, cmd)

\* Mutant: no command is queued when the queue is long.
ThrottlesAll(q, cmd) == IF Len(q) > Throttle THEN q ELSE Append(q, cmd)

Queued(q, cmd) ==
    IF Len(q) > Throttle /\ cmd.c \in {"position", "loop"}
    THEN q ELSE Append(q, cmd)

QueueCommand(cmd) == m_sfx_commands' = Queued(m_sfx_commands, cmd)

MayCall(op) ==
    /\ op \in Ops
    /\ main = "free"
    /\ ~stopping
    /\ Len(m_sfx_commands) < MaxQueue

Live(s) == sound[s].life = "live"

(* setMasterVolume of one sound *)
SetMasterVolume(s) ==
    IF sound[s].status = "unknown" THEN UNCHANGED m_sfx_commands
                                   ELSE QueueCommand(Cmd("master", s))

(* The first commands are queued before the sound is in the list.           *)
CreateSoundSource(s) ==
    /\ MayCall("create")
    /\ sound[s].life = "none"
    /\ sound' = [sound EXCEPT ![s] = NewSound("live")]
    /\ IF m_sfx THEN QueueCommand(Cmd("create", s)) ELSE UNCHANGED m_sfx_commands
    /\ main' = "list"
    /\ at' = s
    /\ UNCHANGED <<m_sfx, m_all_sfx, stopping, audioVars>>

AddToList ==
    /\ main = "list"
    /\ ~AudioHolds
    /\ SetMasterVolume(at)
    /\ m_all_sfx' = Append(m_all_sfx, at)
    /\ main' = "free"
    /\ at' = None
    /\ UNCHANGED <<m_sfx, sound, stopping, audioVars>>

Play(s) ==
    /\ MayCall("play")
    /\ Live(s)
    /\ m_sfx /\ sound[s].status # "unknown"
    /\ sound' = [sound EXCEPT ![s].status = "playing"]
    /\ QueueCommand(Cmd("play", s))
    /\ UNCHANGED <<m_sfx, m_all_sfx, mainVars, audioVars>>

SetLoop(s, on) ==
    /\ MayCall("loop")
    /\ Live(s)
    /\ sound' = [sound EXCEPT ![s].loop = on]
    /\ IF m_sfx /\ sound[s].status # "unknown"
       THEN QueueCommand([c |-> "loop", s |-> s, on |-> on])
       ELSE UNCHANGED m_sfx_commands
    /\ UNCHANGED <<m_sfx, m_all_sfx, mainVars, audioVars>>

Stop(s) ==
    /\ MayCall("stop")
    /\ Live(s)
    /\ m_sfx /\ sound[s].status # "unknown"
    /\ QueueCommand(Cmd("stop", s))
    /\ UNCHANGED <<m_sfx, m_all_sfx, sound, mainVars, audioVars>>

Pause(s) ==
    /\ MayCall("pause")
    /\ Live(s)
    /\ QueueCommand(Cmd("pause", s))
    /\ UNCHANGED <<m_sfx, m_all_sfx, sound, mainVars, audioVars>>

(* resume() and setPosition() only queue a command, if sounds are on.       *)
QueueFor(s, c) ==
    /\ MayCall(c)
    /\ Live(s)
    /\ m_sfx
    /\ QueueCommand(Cmd(c, s))
    /\ UNCHANGED <<m_sfx, m_all_sfx, sound, mainVars, audioVars>>

(* Objects of the game are still deleted after stopThread().  deleteSFX()   *)
(* is the last call for a sound: its owner forgets the pointer.             *)
DeleteSFX(s) ==
    /\ "delete" \in Ops
    /\ main = "free"
    /\ Len(m_sfx_commands) < MaxQueue
    /\ Live(s)
    /\ sound' = [sound EXCEPT ![s].life = "deleted"]
    /\ QueueCommand(Cmd("delete", s))
    /\ UNCHANGED <<m_sfx, m_all_sfx, mainVars, audioVars>>

(* pauseAll() and resumeAll() *)
QueueForAll(c) ==
    /\ MayCall(c)
    /\ m_sfx
    /\ QueueCommand(Cmd(c, None))
    /\ UNCHANGED <<m_sfx, m_all_sfx, sound, mainVars, audioVars>>

(* update(), once in each frame, and stopThread() queue a command and then  *)
(* signal the condition, without the mutex.                                 *)
Update ==
    /\ main = "free"
    /\ ~stopping
    /\ Len(m_sfx_commands) <= MaxQueue
    /\ QueueCommand(Cmd("update", None))
    /\ main' = "signal"
    /\ UNCHANGED <<m_sfx, m_all_sfx, sound, at, stopping, audioVars>>

StopThread ==
    /\ main = "free"
    /\ ~stopping
    /\ stopping' = TRUE
    /\ QueueCommand(Cmd("exit", None))
    /\ main' = "signal"
    /\ UNCHANGED <<m_sfx, m_all_sfx, sound, at, audioVars>>

\* Mutant: the condition is not signalled.
NoWake == pc

Wake == IF pc = "wait" THEN "top" ELSE pc

Signal ==
    /\ main = "signal"
    /\ main' = "free"
    /\ pc' = Wake
    /\ UNCHANGED <<m_sfx, m_sfx_commands, m_all_sfx, sound, at, stopping,
                   current, index>>

(* The slider of the options: setMasterSFXVolume, with the list locked.     *)
SetMasterSFXVolume ==
    /\ MayCall("volume")
    /\ ~AudioHolds
    /\ main' = "volume"
    /\ at' = 1
    /\ UNCHANGED <<m_sfx, m_sfx_commands, m_all_sfx, sound, stopping, audioVars>>

MasterVolumeOfOne ==
    /\ main = "volume"
    /\ IF at > Len(m_all_sfx)
       THEN /\ main' = "free"
            /\ at' = None
            /\ UNCHANGED m_sfx_commands
       ELSE /\ at' = at + 1
            /\ main' = main
            /\ SetMasterVolume(m_all_sfx[at])
    /\ UNCHANGED <<m_sfx, m_all_sfx, sound, stopping, audioVars>>

(* toggleSound(false): the screen stores the setting, then calls.  The size *)
(* of the list is read before the list is locked.  A read behind the end    *)
(* finds a sound of the list once more, or one that was freed.              *)
ToggleSoundOff ==
    /\ MayCall("toggle")
    /\ m_sfx
    /\ m_sfx' = FALSE
    /\ main' = "off"
    /\ at' = Len(m_all_sfx)
    /\ UNCHANGED <<m_sfx_commands, m_all_sfx, sound, stopping, audioVars>>

(* The sounds that do not loop are stopped.  pauseAll() is called then, but *)
(* returns, since sounds are not allowed any more.                          *)
StopNotLooped ==
    /\ main = "off"
    /\ ~AudioHolds
    /\ sound' = ForAll(LAMBDA r : IF r.loop THEN r ELSE ReallyStopNow(r))
    /\ IF m_sfx THEN QueueCommand(Cmd("pauseAll", None))
                ELSE UNCHANGED m_sfx_commands
    /\ main' = "free"
    /\ at' = None
    /\ UNCHANGED <<m_sfx, m_all_sfx, stopping, audioVars>>

(* toggleSound(true), in two loops, each with the list locked.              *)
ToggleSoundOn ==
    /\ MayCall("toggle")
    /\ ~m_sfx
    /\ m_sfx' = TRUE
    /\ main' = "on"
    /\ UNCHANGED <<m_sfx_commands, m_all_sfx, sound, at, stopping, audioVars>>

ResumeInMain ==
    /\ main = "on"
    /\ ~AudioHolds
    /\ \E ok \in BOOLEAN :
          sound' = ForAll(LAMBDA r : ReallyResumeNow(Ready(r, ok)))
    /\ main' = "relock"
    /\ UNCHANGED <<m_sfx, m_sfx_commands, m_all_sfx, at, stopping, audioVars>>

LockAgain ==
    /\ main = "relock"
    /\ ~AudioHolds
    /\ main' = "back"
    /\ at' = 1
    /\ UNCHANGED <<m_sfx, m_sfx_commands, m_all_sfx, sound, stopping, audioVars>>

(* A looped sound is played and paused at once.  None needs init() here: the *)
(* first loop has initialised all sounds, and only this thread adds others.  *)
OnSoundEnabledBack ==
    /\ main = "back"
    /\ IF at > Len(m_all_sfx)
       THEN /\ main' = "free"
            /\ at' = None
            /\ UNCHANGED <<m_sfx_commands, sound>>
       ELSE /\ at' = at + 1
            /\ main' = main
            /\ LET s == m_all_sfx[at] IN
               IF sound[s].loop /\ sound[s].status # "unknown"
               THEN /\ sound' = [sound EXCEPT ![s].status = "playing"]
                    /\ m_sfx_commands' = m_sfx_commands
                           \o <<Cmd("play", s), Cmd("pause", s)>>
               ELSE UNCHANGED <<m_sfx_commands, sound>>
    /\ UNCHANGED <<m_sfx, m_all_sfx, stopping, audioVars>>

(* The destructor joins the thread and frees every sound of the list.       *)
Destroy ==
    /\ stopping
    /\ main = "free"
    /\ pc = "done"
    /\ main' = "end"
    /\ sound' = ForAll(LAMBDA r : [r EXCEPT !.life = "freed"])
    /\ m_all_sfx' = <<>>
    /\ UNCHANGED <<m_sfx, m_sfx_commands, at, stopping, audioVars>>

-----------------------------------------------------------------------------
(* The sound thread *)

(* With the queue locked: wait, leave, or take the first command.           *)
Take ==
    /\ pc = "top"
    /\ \/ /\ m_sfx_commands = <<>>
          /\ pc' = "wait"
          /\ UNCHANGED <<m_sfx_commands, current>>
       \/ /\ m_sfx_commands # <<>>
          /\ Head(m_sfx_commands).c = "exit"
          /\ pc' = "done"
          /\ m_sfx_commands' = <<>>
          /\ UNCHANGED current
       \/ /\ m_sfx_commands # <<>>
          /\ Head(m_sfx_commands).c # "exit"
          /\ current' = Head(m_sfx_commands)
          /\ m_sfx_commands' = Tail(m_sfx_commands)
          /\ pc' = "exec"
    /\ UNCHANGED <<m_sfx, m_all_sfx, sound, mainVars, index>>

(* A wake-up without a signal: the loop tests the queue again.              *)
SpuriousWakeup ==
    /\ pc = "wait"
    /\ pc' = "top"
    /\ UNCHANGED <<m_sfx, m_sfx_commands, m_all_sfx, sound, mainVars,
                   current, index>>

NeedsInit ==
    \/ current.c = "create"
    \/ /\ current.c \in {"loop", "resume", "position"}
             \cup (IF m_sfx THEN {"play"} ELSE {})
       /\ sound[current.s].status = "uninit"

(* init() marks the sound as unknown while it calls OpenAL.                 *)
BeginInit ==
    /\ pc = "exec"
    /\ NeedsInit
    /\ sound' = [sound EXCEPT ![current.s].status = "unknown"]
    /\ pc' = "init"
    /\ UNCHANGED <<m_sfx, m_sfx_commands, m_all_sfx, mainVars, current, index>>

EndInit ==
    /\ pc = "init"
    /\ \E ok \in BOOLEAN :
          /\ sound' = [sound EXCEPT ![current.s] = Initialised(@, ok)]
          /\ pc' = IF ok /\ current.c # "create" THEN "effect" ELSE "post"
    /\ UNCHANGED <<m_sfx, m_sfx_commands, m_all_sfx, mainVars, current, index>>

Effect(r) ==
    CASE current.c = "play"   -> IF m_sfx \/ pc = "effect"
                                 THEN ReallyPlayNow(r) ELSE r
      [] current.c = "stop"   -> ReallyStopNow(r)
      [] current.c = "pause"  -> ReallyPauseNow(r)
      [] current.c = "resume" -> ReallyResumeNow(r)
      [] current.c = "loop"   -> [r EXCEPT !.looping = current.on]
      [] OTHER                -> r

Execute ==
    /\ pc = "effect" \/ (pc = "exec" /\ ~NeedsInit)
    /\ current.c \in OnSound \ {"delete"}
    /\ sound' = [sound EXCEPT ![current.s] = Effect(@)]
    /\ pc' = "post"
    /\ UNCHANGED <<m_sfx, m_sfx_commands, m_all_sfx, mainVars, current, index>>

ExecuteDelete ==
    /\ pc = "exec"
    /\ current.c = "delete"
    /\ sound' = [sound EXCEPT ![current.s] = ReallyStopNow(@)]
    /\ pc' = "erase"
    /\ UNCHANGED <<m_sfx, m_sfx_commands, m_all_sfx, mainVars, current, index>>

Erase ==
    /\ pc = "erase"
    /\ ~MainHolds
    /\ IF current.s \in Listed
       THEN /\ sound' = [sound EXCEPT ![current.s].life = "freed"]
            /\ \E i \in 1..Len(m_all_sfx) :
                  /\ m_all_sfx[i] = current.s
                  /\ m_all_sfx' = RemoveAt(m_all_sfx, i)
       ELSE UNCHANGED <<m_all_sfx, sound>>
    /\ pc' = "post"
    /\ UNCHANGED <<m_sfx, m_sfx_commands, mainVars, current, index>>

ExecuteForAll ==
    /\ pc = "exec"
    /\ ~MainHolds
    /\ \/ /\ current.c = "pauseAll"
          /\ sound' = ForAll(ReallyPauseNow)
       \/ /\ current.c = "resumeAll"
          /\ \E ok \in BOOLEAN :
                sound' = ForAll(LAMBDA r : ReallyResumeNow(Ready(r, ok)))
    /\ pc' = "post"
    /\ UNCHANGED <<m_sfx, m_sfx_commands, m_all_sfx, mainVars, current, index>>

(* reallyUpdateNow: a loop over the list, which it has locked.  The status  *)
(* is tested by the loop, and asserted again by updatePlayingSFX.           *)
BeginUpdate ==
    /\ pc = "exec"
    /\ current.c = "update"
    /\ ~MainHolds
    /\ pc' = "scan"
    /\ index' = 1
    /\ UNCHANGED <<m_sfx, m_sfx_commands, m_all_sfx, sound, mainVars, current>>

Scan ==
    /\ pc = "scan"
    /\ IF index > Len(m_all_sfx)
       THEN pc' = "post" /\ index' = 0
       ELSE IF sound[m_all_sfx[index]].status = "playing"
            THEN pc' = "upd" /\ index' = index
            ELSE pc' = pc /\ index' = index + 1
    /\ UNCHANGED <<m_sfx, m_sfx_commands, m_all_sfx, sound, mainVars, current>>

UpdatePlayingSFX ==
    /\ pc = "upd"
    /\ LET s == m_all_sfx[index] IN
       \/ sound' = sound
       \/ /\ ~sound[s].loop
          /\ sound' = [sound EXCEPT ![s] = Finished(@)]
    /\ pc' = "scan"
    /\ index' = index + 1
    /\ UNCHANGED <<m_sfx, m_sfx_commands, m_all_sfx, mainVars, current>>

(* The command is deleted.  The size of the queue is read without a lock,   *)
(* and the thread sleeps before it queues an update for itself: others may  *)
(* have queued commands by then, and switched sounds off.                   *)
Post ==
    /\ pc = "post"
    /\ current' = None
    /\ pc' = IF m_sfx /\ m_sfx_commands = <<>> THEN "yield" ELSE "top"
    /\ UNCHANGED <<m_sfx, m_sfx_commands, m_all_sfx, sound, mainVars, index>>

UpdateAgain ==
    /\ pc = "yield"
    /\ QueueCommand(Cmd("update", None))
    /\ pc' = "top"
    /\ UNCHANGED <<m_sfx, m_all_sfx, sound, mainVars, current, index>>

-----------------------------------------------------------------------------
Init ==
    /\ m_sfx \in BOOLEAN
    /\ m_sfx_commands = <<>>
    /\ m_all_sfx = <<>>
    /\ sound = [s \in Sounds |-> NewSound("none")]
    /\ main = "free" /\ at = None /\ stopping = FALSE
    /\ pc = "top" /\ current = None /\ index = 0

Calls ==
    \/ \E s \in Sounds :
          \/ CreateSoundSource(s) \/ Play(s) \/ Stop(s) \/ Pause(s)
          \/ DeleteSFX(s)
          \/ \E on \in BOOLEAN : SetLoop(s, on)
          \/ \E c \in {"resume", "position"} : QueueFor(s, c)
    \/ \E c \in {"pauseAll", "resumeAll"} : QueueForAll(c)
    \/ SetMasterSFXVolume \/ ToggleSoundOff \/ ToggleSoundOn \/ StopThread

(* The steps that follow from a call *)
Continue ==
    \/ AddToList \/ Signal \/ MasterVolumeOfOne \/ StopNotLooped
    \/ ResumeInMain \/ LockAgain \/ OnSoundEnabledBack \/ Destroy

Audio ==
    \/ Take \/ BeginInit \/ EndInit \/ Execute \/ ExecuteDelete \/ Erase
    \/ ExecuteForAll \/ BeginUpdate \/ Scan \/ UpdatePlayingSFX \/ Post
    \/ UpdateAgain

(* The program ends. *)
Ended == main = "end" /\ UNCHANGED vars

Next == Calls \/ Update \/ Continue \/ Audio \/ SpuriousWakeup \/ Ended

(* Both threads are scheduled, and every frame of the game has an update.   *)
Spec == Init /\ [][Next]_vars
             /\ WF_vars(Audio) /\ WF_vars(Continue) /\ SF_vars(Update)

-----------------------------------------------------------------------------
TypeOK ==
    /\ m_sfx \in BOOLEAN /\ stopping \in BOOLEAN
    /\ m_sfx_commands \in Seq(Command)
    /\ m_all_sfx \in Seq(Sounds)
    /\ sound \in [Sounds -> SoundState]
    /\ main \in {"free", "list", "signal", "volume", "off", "on", "relock",
                 "back", "end"}
    /\ main = "list" => at \in Sounds
    /\ main = "off" => at \in Nat
    /\ main \in {"volume", "back"} => at \in 1..(Len(m_all_sfx) + 1)
    /\ pc \in {"top", "wait", "exec", "init", "effect", "erase", "scan", "upd",
               "post", "yield", "done"}
    /\ current \in Command \cup {None}
    /\ pc \in {"exec", "init", "effect", "erase"} => current # None
    /\ pc \in {"init", "effect", "erase"} => current.s \in Sounds
    /\ index \in Nat
    /\ pc = "scan" => index \in 1..(Len(m_all_sfx) + 1)
    /\ pc = "upd" => index \in 1..Len(m_all_sfx)

\* assert(m_status==SFX_PLAYING) in updatePlayingSFX holds, though the status
\* was tested by the loop before, and the main thread changes it as well.
UpdatedWhilePlaying ==
    pc = "upd" => sound[m_all_sfx[index]].status = "playing"

\* No command is executed for a sound that was freed: deleteSFX() only queues
\* the deletion, behind all that was queued for the sound.
UsedWhileAlive ==
    pc \in {"exec", "init", "effect", "erase"} /\ current.s \in Sounds
        => sound[current.s].life # "freed"

\* Once all commands for a sound are executed, its status is what OpenAL does
\* with it, though the main thread sets the status ahead of the command and
\* init() overwrites it.  (Without a source, or after an init() that failed,
\* a sound does nothing.)
Pending(s) ==
    \/ current # None
    \/ \E i \in 1..Len(m_sfx_commands) : m_sfx_commands[i].s \in {s, None}
StatusMatchesSource ==
    \A s \in Sounds :
        /\ sound[s].life = "live" /\ ~Pending(s)
        /\ sound[s].source # "none" /\ sound[s].status # "unknown"
      => sound[s].source = sound[s].status

\* The program ends once it has called stopThread(): the thread wakes up, and
\* the destructor that waits for it returns.
QuitEnds == stopping ~> main = "end"

\* A sound whose owner has called deleteSFX() is freed, also with sounds off.
DeletedIsFreed ==
    \A s \in Sounds : sound[s].life = "deleted" ~> sound[s].life = "freed"
=============================================================================
