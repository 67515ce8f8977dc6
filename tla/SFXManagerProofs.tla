-------------------------- MODULE SFXManagerProofs --------------------------
(* Proofs about the queue of sound commands, for any set of sounds, any    *)
(* operations and any lengths of the queue: types, the assertion of        *)
(* updatePlayingSFX, that a sound is alive when a command for it is        *)
(* executed, and that its status is what OpenAL does with it, as long as   *)
(* the game does not touch the options (nor, for the last, loops a sound). *)
EXTENDS SFXManager, SequenceTheorems, TLAPS

(* What the sound thread does to a sound gives a sound. *)
LEMMA SoundOps ==
    ASSUME NEW r \in SoundState, NEW ok \in BOOLEAN, m_sfx \in BOOLEAN
    PROVE  /\ Initialised(r, ok) \in SoundState
           /\ ReallyPlayNow(r) \in SoundState
           /\ ReallyStopNow(r) \in SoundState
           /\ ReallyPauseNow(r) \in SoundState
           /\ ReallyResumeNow(r) \in SoundState
           /\ Ready(r, ok) \in SoundState
           /\ Finished(r) \in SoundState
           /\ NewSound("live") \in SoundState
           /\ NewSound("none") \in SoundState
  <1> USE DEF SoundState, Life, Status, Source
  <1>1. Initialised(r, ok) \in SoundState
    BY DEF Initialised
  <1>2. ReallyPlayNow(r) \in SoundState
    BY DEF ReallyPlayNow
  <1>3. ReallyStopNow(r) \in SoundState
    BY DEF ReallyStopNow
  <1>4. ReallyPauseNow(r) \in SoundState
    BY DEF ReallyPauseNow
  <1>5. Finished(r) \in SoundState
    BY DEF Finished
  <1>6. NewSound("live") \in SoundState /\ NewSound("none") \in SoundState
    BY DEF NewSound
  <1> HIDE DEF SoundState, Life, Status, Source
  <1> QED BY <1>1, <1>2, <1>3, <1>4, <1>5, <1>6 DEF ReallyResumeNow, Ready

LEMMA StatusSet ==
    ASSUME NEW r \in SoundState, NEW st \in Status
    PROVE  [r EXCEPT !.status = st] \in SoundState
  BY DEF SoundState

LEMMA Commands ==
    ASSUME NEW s \in Sounds, NEW c \in OnSound, NEW d \in OnAll,
           NEW on \in BOOLEAN
    PROVE  /\ Cmd(c, s) \in Command
           /\ Cmd(d, None) \in Command
           /\ [c |-> c, s |-> s, on |-> on] \in Command
  BY DEF Cmd, Command

(* A command is appended, or dropped: the queue stays one of commands.      *)
LEMMA QueuedType ==
    ASSUME NEW q \in Seq(Command), NEW cmd \in Command
    PROVE  /\ Queued(q, cmd) \in Seq(Command)
           /\ Queued(q, cmd) \in {q, Append(q, cmd)}
  BY DEF Queued

LEMMA MasterType ==
    ASSUME TypeOK, NEW s \in Sounds, SetMasterVolume(s)
    PROVE  m_sfx_commands' \in Seq(Command)
  <1>1. Cmd("master", s) \in Command
    BY DEF Cmd, Command, OnSound
  <1> QED BY <1>1, QueuedType DEF SetMasterVolume, QueueCommand, TypeOK

LEMMA RemoveAtType ==
    ASSUME NEW S, NEW q \in Seq(S), NEW i \in 1..Len(q)
    PROVE  RemoveAt(q, i) \in Seq(S)
  <1>1. SubSeq(q, 1, i - 1) \in Seq(S)
    OBVIOUS
  <1>2. SubSeq(q, i + 1, Len(q)) \in Seq(S)
    OBVIOUS
  <1> QED BY <1>1, <1>2 DEF RemoveAt

LEMMA InitType == ASSUME SFXAssumption, Init PROVE TypeOK
  <1>1. sound \in [Sounds -> SoundState]
    BY DEF Init, SoundState, NewSound, Life, Status, Source
  <1>2. <<>> \in Seq(Command) /\ <<>> \in Seq(Sounds)
    OBVIOUS
  <1> QED BY <1>1, <1>2 DEF Init, TypeOK

(* The calls of the game *)
LEMMA CallsType == ASSUME SFXAssumption, TypeOK, Calls PROVE TypeOK'
  <1> USE DEF TypeOK, vars, mainVars, audioVars, MayCall, Live, QueueCommand
  <1>1. ASSUME NEW s \in Sounds, CreateSoundSource(s) PROVE TypeOK'
    <2>1. Cmd("create", s) \in Command
      BY Commands DEF OnSound, OnAll
    <2>2. m_sfx_commands' \in Seq(Command)
      BY <1>1, <2>1, QueuedType DEF CreateSoundSource
    <2> QED BY <1>1, <2>2, SoundOps DEF CreateSoundSource
  <1>2. ASSUME NEW s \in Sounds, Play(s) PROVE TypeOK'
    <2>1. m_sfx_commands' \in Seq(Command)
      BY <1>2, Commands, QueuedType DEF Play, OnSound, OnAll
    <2>2. sound' \in [Sounds -> SoundState]
      BY <1>2 DEF Play, SoundState, Status
    <2> QED BY <1>2, <2>1, <2>2 DEF Play
  <1>3. ASSUME NEW s \in Sounds, Stop(s) PROVE TypeOK'
    <2>1. m_sfx_commands' \in Seq(Command)
      BY <1>3, Commands, QueuedType DEF Stop, OnSound, OnAll
    <2> QED BY <1>3, <2>1 DEF Stop
  <1>4. ASSUME NEW s \in Sounds, Pause(s) PROVE TypeOK'
    <2>1. m_sfx_commands' \in Seq(Command)
      BY <1>4, Commands, QueuedType DEF Pause, OnSound, OnAll
    <2> QED BY <1>4, <2>1 DEF Pause
  <1>5. ASSUME NEW s \in Sounds, DeleteSFX(s) PROVE TypeOK'
    <2>1. m_sfx_commands' \in Seq(Command)
      BY <1>5, Commands, QueuedType DEF DeleteSFX, OnSound, OnAll
    <2>2. sound' \in [Sounds -> SoundState]
      BY <1>5 DEF DeleteSFX, SoundState, Life
    <2> QED BY <1>5, <2>1, <2>2 DEF DeleteSFX
  <1>6. ASSUME NEW s \in Sounds, NEW on \in BOOLEAN, SetLoop(s, on) PROVE TypeOK'
    <2>1. [c |-> "loop", s |-> s, on |-> on] \in Command
      BY Commands DEF OnSound, OnAll
    <2>2. m_sfx_commands' \in Seq(Command)
      BY <1>6, <2>1, QueuedType DEF SetLoop
    <2>3. sound' \in [Sounds -> SoundState]
      BY <1>6 DEF SetLoop, SoundState
    <2> QED BY <1>6, <2>2, <2>3 DEF SetLoop
  <1>7. ASSUME NEW s \in Sounds, NEW c \in {"resume", "position"}, QueueFor(s, c)
        PROVE  TypeOK'
    <2>1. m_sfx_commands' \in Seq(Command)
      BY <1>7, Commands, QueuedType DEF QueueFor, OnSound, OnAll
    <2> QED BY <1>7, <2>1 DEF QueueFor
  <1>8. ASSUME NEW c \in {"pauseAll", "resumeAll"}, QueueForAll(c) PROVE TypeOK'
    <2>1. Cmd(c, None) \in Command
      BY DEF Cmd, Command, OnAll
    <2>2. m_sfx_commands' \in Seq(Command)
      BY <1>8, <2>1, QueuedType DEF QueueForAll
    <2> QED BY <1>8, <2>2 DEF QueueForAll
  <1>9. CASE SetMasterSFXVolume
    BY <1>9 DEF SetMasterSFXVolume
  <1>10. CASE ToggleSoundOff
    BY <1>10, LenProperties DEF ToggleSoundOff, MainHolds
  <1>11. CASE ToggleSoundOn
    BY <1>11 DEF ToggleSoundOn
  <1>12. CASE StopThread
    <2>1. Cmd("exit", None) \in Command
      BY DEF Cmd, Command, OnAll
    <2>2. m_sfx_commands' \in Seq(Command)
      BY <1>12, <2>1, QueuedType DEF StopThread
    <2> QED BY <1>12, <2>2 DEF StopThread
  <1> QED
    BY <1>1, <1>2, <1>3, <1>4, <1>5, <1>6, <1>7, <1>8, <1>9, <1>10, <1>11, <1>12
    DEF Calls

(* The frame of the game, and the steps that follow from a call *)
LEMMA MainType == ASSUME SFXAssumption, TypeOK, Update \/ Continue PROVE TypeOK'
  <1> USE DEF TypeOK, vars, mainVars, audioVars, QueueCommand
  <1>1. CASE Update
    <2>1. Cmd("update", None) \in Command
      BY DEF Cmd, Command, OnAll
    <2>2. m_sfx_commands' \in Seq(Command)
      BY <1>1, <2>1, QueuedType DEF Update
    <2> QED BY <1>1, <2>2 DEF Update
  <1>2. CASE AddToList
    <2>1. m_sfx_commands' \in Seq(Command)
      BY <1>2, MasterType DEF AddToList
    <2> QED BY <1>2, <2>1 DEF AddToList, AudioHolds
  <1>3. CASE Signal
    BY <1>3 DEF Signal, Wake
  <1>4. CASE MasterVolumeOfOne
    <2>1. m_sfx_commands' \in Seq(Command)
      <3>1. CASE at > Len(m_all_sfx)
        BY <1>4, <3>1 DEF MasterVolumeOfOne
      <3>2. CASE at <= Len(m_all_sfx)
        <4>1. m_all_sfx[at] \in Sounds
          BY <1>4, <3>2 DEF MasterVolumeOfOne
        <4> QED BY <1>4, <3>2, <4>1, MasterType DEF MasterVolumeOfOne
      <3> QED BY <1>4, <3>1, <3>2 DEF MasterVolumeOfOne
    <2> QED BY <1>4, <2>1 DEF MasterVolumeOfOne
  <1>5. CASE StopNotLooped
    <2>1. Cmd("pauseAll", None) \in Command
      BY DEF Cmd, Command, OnAll
    <2>2. m_sfx_commands' \in Seq(Command)
      BY <1>5, <2>1, QueuedType DEF StopNotLooped
    <2>3. sound' \in [Sounds -> SoundState]
      BY <1>5, SoundOps DEF StopNotLooped, ForAll
    <2> QED BY <1>5, <2>2, <2>3 DEF StopNotLooped
  <1>6. CASE ResumeInMain
    <2>1. sound' \in [Sounds -> SoundState]
      BY <1>6, SoundOps DEF ResumeInMain, ForAll
    <2> QED BY <1>6, <2>1 DEF ResumeInMain
  <1>7. CASE LockAgain
    BY <1>7 DEF LockAgain
  <1>8. CASE OnSoundEnabledBack
    <2>1. ASSUME at <= Len(m_all_sfx)
          PROVE  /\ m_sfx_commands' \in Seq(Command)
                 /\ sound' \in [Sounds -> SoundState]
      <3> DEFINE s == m_all_sfx[at]
      <3>1. s \in Sounds
        BY <1>8, <2>1 DEF OnSoundEnabledBack
      <3>2. Cmd("play", s) \in Command /\ Cmd("pause", s) \in Command
        BY <3>1, Commands DEF OnSound, OnAll
      <3>4. <<Cmd("play", s), Cmd("pause", s)>> \in Seq(Command)
        BY <3>2
      <3>5. m_sfx_commands \o <<Cmd("play", s), Cmd("pause", s)>> \in Seq(Command)
        BY <3>4
      <3>6. [sound EXCEPT ![s].status = "playing"] \in [Sounds -> SoundState]
        BY <3>1 DEF SoundState, Status
      <3>7. ~(at > Len(m_all_sfx))
        BY <1>8, <2>1 DEF OnSoundEnabledBack
      <3>8. \/ /\ sound' = [sound EXCEPT ![s].status = "playing"]
               /\ m_sfx_commands' = m_sfx_commands
                     \o <<Cmd("play", s), Cmd("pause", s)>>
            \/ UNCHANGED <<m_sfx_commands, sound>>
        BY <1>8, <3>7 DEF OnSoundEnabledBack
      <3> QED BY <3>5, <3>6, <3>8
    <2> QED BY <1>8, <2>1 DEF OnSoundEnabledBack
  <1>9. CASE Destroy
    <2>1. sound' \in [Sounds -> SoundState]
      BY <1>9 DEF Destroy, ForAll, SoundState, Life
    <2> QED BY <1>9, <2>1 DEF Destroy
  <1> QED
    BY <1>1, <1>2, <1>3, <1>4, <1>5, <1>6, <1>7, <1>8, <1>9 DEF Continue

(* The sound thread *)
LEMMA AudioType ==
    ASSUME SFXAssumption, TypeOK, Audio \/ SpuriousWakeup PROVE TypeOK'
  <1> USE DEF TypeOK, vars, mainVars, audioVars, QueueCommand
  <1>1. CASE Take
    <2>1. CASE m_sfx_commands = <<>>
      BY <1>1, <2>1 DEF Take
    <2>2. CASE m_sfx_commands # <<>>
      <3>1. /\ Head(m_sfx_commands) \in Command
            /\ Tail(m_sfx_commands) \in Seq(Command)
            /\ <<>> \in Seq(Command)
        BY <2>2
      <3>2. CASE Head(m_sfx_commands).c = "exit"
        BY <1>1, <2>2, <3>1, <3>2 DEF Take
      <3>3. CASE Head(m_sfx_commands).c # "exit"
        BY <1>1, <2>2, <3>1, <3>3 DEF Take, SFXAssumption
      <3> QED BY <3>2, <3>3
    <2> QED BY <2>1, <2>2
  <1>2. CASE BeginInit
    <2>1. current.s \in Sounds
      BY <1>2 DEF BeginInit, NeedsInit, Command, OnAll, SFXAssumption
    <2>2. [sound[current.s] EXCEPT !.status = "unknown"] \in SoundState
      BY <2>1, StatusSet DEF Status
    <2> QED BY <1>2, <2>1, <2>2 DEF BeginInit
  <1>3. CASE EndInit
    <2>1. PICK ok \in BOOLEAN :
                 sound' = [sound EXCEPT ![current.s] = Initialised(@, ok)]
      BY <1>3 DEF EndInit
    <2>2. \A r \in SoundState : Initialised(r, ok) \in SoundState
      BY SoundOps
    <2>3. sound' \in [Sounds -> SoundState]
      BY <2>1, <2>2
    <2> QED BY <1>3, <2>3 DEF EndInit
  <1>4. CASE Execute
    <2>1. current.s \in Sounds
      BY <1>4 DEF Execute, Command, OnAll, OnSound, SFXAssumption
    <2>2. \A r \in SoundState : Effect(r) \in SoundState
      <3>1. TAKE r \in SoundState
      <3>2. current.on \in BOOLEAN
        <4>1. current \in [c : OnSound, s : Sounds, on : BOOLEAN]
          BY <1>4, <2>1 DEF Execute, Command, OnAll, SFXAssumption
        <4> QED BY <4>1
      <3> QED BY <3>2, SoundOps DEF Effect, SoundState
    <2> QED BY <1>4, <2>1, <2>2 DEF Execute
  <1>5. CASE ExecuteDelete
    <2>1. current.s \in Sounds
      BY <1>5 DEF ExecuteDelete, Command, OnAll
    <2> QED BY <1>5, <2>1, SoundOps DEF ExecuteDelete
  <1>6. CASE Erase
    <2>1. m_all_sfx' \in Seq(Sounds)
      <3>1. CASE current.s \in Listed
        <4>1. PICK i \in 1..Len(m_all_sfx) : m_all_sfx' = RemoveAt(m_all_sfx, i)
          BY <1>6, <3>1 DEF Erase
        <4> QED BY <4>1, RemoveAtType
      <3>2. CASE current.s \notin Listed
        BY <1>6, <3>2 DEF Erase
      <3> QED BY <3>1, <3>2
    <2>2. sound' \in [Sounds -> SoundState]
      <3>1. current.s \in Sounds
        BY <1>6 DEF Erase
      <3>2. \A r \in SoundState : [r EXCEPT !.life = "freed"] \in SoundState
        BY DEF SoundState, Life
      <3> QED BY <1>6, <3>1, <3>2 DEF Erase
    <2> QED BY <1>6, <2>1, <2>2 DEF Erase, MainHolds
  <1>7. CASE ExecuteForAll
    <2>1. sound' \in [Sounds -> SoundState]
      BY <1>7, SoundOps DEF ExecuteForAll, ForAll
    <2> QED BY <1>7, <2>1 DEF ExecuteForAll
  <1>8. CASE BeginUpdate
    BY <1>8 DEF BeginUpdate
  <1>9. CASE Scan
    BY <1>9 DEF Scan
  <1>10. CASE UpdatePlayingSFX
    <2>1. m_all_sfx[index] \in Sounds
      BY <1>10 DEF UpdatePlayingSFX
    <2>2. sound' \in [Sounds -> SoundState]
      BY <1>10, <2>1, SoundOps DEF UpdatePlayingSFX
    <2> QED BY <1>10, <2>2 DEF UpdatePlayingSFX
  <1>11. CASE Post
    BY <1>11 DEF Post
  <1>12. CASE UpdateAgain
    <2>1. Cmd("update", None) \in Command
      BY DEF Cmd, Command, OnAll
    <2>2. m_sfx_commands' \in Seq(Command)
      BY <1>12, <2>1, QueuedType DEF UpdateAgain
    <2> QED BY <1>12, <2>2 DEF UpdateAgain
  <1>13. CASE SpuriousWakeup
    BY <1>13 DEF SpuriousWakeup
  <1> QED
    BY <1>1, <1>2, <1>3, <1>4, <1>5, <1>6, <1>7, <1>8, <1>9, <1>10, <1>11, <1>12,
       <1>13
    DEF Audio

(* Every variable keeps its type: positions in the list of sounds are valid *)
(* while a thread is in a loop over it.                                     *)
THEOREM TypeCorrect == ASSUME SFXAssumption PROVE Spec => []TypeOK
  <1>1. Init => TypeOK
    BY InitType
  <1>2. TypeOK /\ [Next]_vars => TypeOK'
    <2>1. CASE UNCHANGED vars
      BY <2>1 DEF TypeOK, vars, mainVars, audioVars
    <2> QED BY <2>1, CallsType, MainType, AudioType DEF Next, Ended
  <1> QED BY <1>1, <1>2, PTL DEF Spec

-----------------------------------------------------------------------------
(* The assertion of updatePlayingSFX.  The main thread sets the status of a *)
(* sound only to playing, but for new sounds, which are not in the list yet,*)
(* and with the list locked.                                                *)

(* Nothing of what is done to a sound changes whether it is alive. *)
LEMMA SoundLife ==
    ASSUME NEW r \in SoundState, NEW ok \in BOOLEAN
    PROVE  /\ Initialised(r, ok).life = r.life
           /\ ReallyPlayNow(r).life = r.life
           /\ ReallyStopNow(r).life = r.life
           /\ ReallyPauseNow(r).life = r.life
           /\ ReallyResumeNow(r).life = r.life
           /\ ReallyResumeNow(Ready(r, ok)).life = r.life
           /\ Finished(r).life = r.life
           /\ Effect(r).life = r.life
  BY DEF SoundState, Initialised, ReallyPlayNow, ReallyStopNow, ReallyPauseNow,
         ReallyResumeNow, Ready, Finished, Effect

(* The sounds of the list, and the one to be added, were created. *)
Created ==
    /\ \A i \in 1..Len(m_all_sfx) : sound[m_all_sfx[i]].life # "none"
    /\ main = "list" => sound[at].life # "none"

(* What a step may do to the life of a sound.                               *)
LEMMA LifeStep ==
    ASSUME SFXAssumption, TypeOK, [Next]_vars, NEW s \in Sounds
    PROVE  \/ sound'[s].life = sound[s].life
           \/ CreateSoundSource(s) \/ DeleteSFX(s)
           \/ Erase /\ s = current.s /\ sound'[s].life = "freed"
           \/ Destroy /\ sound'[s].life = "freed"
  <1> USE DEF TypeOK
  <1> DEFINE r == sound[s]
  <1>a. r \in SoundState
    OBVIOUS
  <1>b. /\ ReallyStopNow(r).life = r.life
        /\ ReallyPauseNow(r).life = r.life
        /\ Finished(r).life = r.life
        /\ Effect(r).life = r.life
        /\ \A ok \in BOOLEAN : /\ Initialised(r, ok).life = r.life
                               /\ ReallyResumeNow(Ready(r, ok)).life = r.life
    BY <1>a, SoundLife
  <1>c. /\ \A st : [r EXCEPT !.status = st].life = r.life
        /\ \A on : [r EXCEPT !.loop = on].life = r.life
        /\ \A l : [r EXCEPT !.life = l].life = l
    BY <1>a DEF SoundState
  <1> HIDE DEF r
  <1>1. CASE UNCHANGED sound
    BY <1>1 DEF r
  <1>2. ASSUME NEW t \in Sounds, CreateSoundSource(t) \/ Play(t) \/ DeleteSFX(t)
                  \/ \E on \in BOOLEAN : SetLoop(t, on)
        PROVE  sound'[s].life = sound[s].life \/ CreateSoundSource(s) \/ DeleteSFX(s)
    <2>1. CASE s = t
      <3>1. CASE Play(t)
        <4>1. sound'[s] = [r EXCEPT !.status = "playing"]
          BY <2>1, <3>1 DEF Play, r
        <4> QED BY <4>1, <1>c DEF r
      <3>2. ASSUME NEW on \in BOOLEAN, SetLoop(t, on)
            PROVE  sound'[s].life = sound[s].life
        <4>1. sound'[s] = [r EXCEPT !.loop = on]
          BY <2>1, <3>2 DEF SetLoop, r
        <4> QED BY <4>1, <1>c DEF r
      <3> QED BY <1>2, <2>1, <3>1, <3>2
    <2>2. CASE s # t
      BY <1>2, <2>2 DEF CreateSoundSource, Play, DeleteSFX, SetLoop
    <2> QED BY <2>1, <2>2
  <1>3. CASE StopNotLooped \/ ResumeInMain \/ ExecuteForAll
    <2>1. CASE StopNotLooped
      <3>1. sound'[s] \in {r, ReallyStopNow(r)}
        BY <2>1 DEF StopNotLooped, ForAll, r
      <3> QED BY <3>1, <1>b DEF r
    <2>2. CASE ResumeInMain
      <3>1. \E ok \in BOOLEAN : sound'[s] \in {r, ReallyResumeNow(Ready(r, ok))}
        BY <2>2 DEF ResumeInMain, ForAll, r
      <3> QED BY <3>1, <1>b DEF r
    <2>3. CASE ExecuteForAll
      <3>1. \/ sound'[s] \in {r, ReallyPauseNow(r)}
            \/ \E ok \in BOOLEAN : sound'[s] \in {r, ReallyResumeNow(Ready(r, ok))}
        BY <2>3 DEF ExecuteForAll, ForAll, r
      <3> QED BY <3>1, <1>b DEF r
    <2> QED BY <1>3, <2>1, <2>2, <2>3
  <1>4. CASE OnSoundEnabledBack
    <2>1. sound'[s] \in {r, [r EXCEPT !.status = "playing"]}
      BY <1>4 DEF OnSoundEnabledBack, r
    <2> QED BY <2>1, <1>c DEF r
  <1>5. CASE Destroy
    <2>1. sound'[s] \in {r, [r EXCEPT !.life = "freed"]}
      BY <1>5 DEF Destroy, ForAll, r
    <2> QED BY <2>1, <1>5, <1>c DEF r
  <1>6. CASE BeginInit \/ EndInit \/ Execute \/ ExecuteDelete
    <2>1. \/ sound'[s] \in {r, [r EXCEPT !.status = "unknown"], Effect(r),
                           ReallyStopNow(r)}
          \/ \E ok \in BOOLEAN : sound'[s] = Initialised(r, ok)
      BY <1>6 DEF BeginInit, EndInit, Execute, ExecuteDelete, r
    <2>2. CASE \E ok \in BOOLEAN : sound'[s] = Initialised(r, ok)
      <3>1. PICK ok \in BOOLEAN : sound'[s] = Initialised(r, ok)
        BY <2>2
      <3> QED BY <3>1, <1>b DEF r
    <2>3. CASE sound'[s] = [r EXCEPT !.status = "unknown"]
      BY <2>3, <1>c DEF r
    <2>4. CASE sound'[s] \in {r, Effect(r), ReallyStopNow(r)}
      BY <2>4, <1>b DEF r
    <2> QED BY <2>1, <2>2, <2>3, <2>4
  <1>7. CASE Erase
    <2>1. \/ sound'[s] = r
          \/ s = current.s /\ sound'[s] = [r EXCEPT !.life = "freed"]
      BY <1>7 DEF Erase, r
    <2> QED BY <2>1, <1>7, <1>c DEF r
  <1>8. CASE UpdatePlayingSFX
    <2>1. sound'[s] \in {r, Finished(r)}
      BY <1>8 DEF UpdatePlayingSFX, r
    <2> QED BY <2>1, <1>b DEF r
  <1>9. UNCHANGED sound \/ StopNotLooped \/ ResumeInMain \/ ExecuteForAll
           \/ OnSoundEnabledBack \/ Destroy \/ BeginInit \/ EndInit \/ Execute
           \/ ExecuteDelete \/ Erase \/ UpdatePlayingSFX
           \/ \E t \in Sounds : \/ CreateSoundSource(t) \/ Play(t) \/ DeleteSFX(t)
                              \/ \E on \in BOOLEAN : SetLoop(t, on)
    BY DEF Next, Calls, Continue, Audio, Update, SpuriousWakeup, Ended, vars,
       Stop, Pause, QueueFor, QueueForAll, SetMasterSFXVolume, ToggleSoundOff,
       ToggleSoundOn, StopThread, AddToList, Signal, MasterVolumeOfOne,
       LockAgain, Take, BeginUpdate, Scan, Post, UpdateAgain
  <1> QED BY <1>1, <1>2, <1>3, <1>4, <1>5, <1>6, <1>7, <1>8, <1>9

LEMMA RemoveAtElems ==
    ASSUME NEW S, NEW q \in Seq(S), NEW i \in 1..Len(q),
           NEW j \in 1..Len(RemoveAt(q, i))
    PROVE  \E k \in 1..Len(q) : RemoveAt(q, i)[j] = q[k]
  <1> DEFINE p == SubSeq(q, 1, i - 1)
             t == SubSeq(q, i + 1, Len(q))
  <1>1. /\ p \in Seq(S) /\ Len(p) = i - 1
        /\ \A k \in 1..(i - 1) : p[k] = q[k]
    OBVIOUS
  <1>2. /\ t \in Seq(S) /\ Len(t) = Len(q) - i
        /\ \A k \in 1..(Len(q) - i) : t[k] = q[i + k]
    OBVIOUS
  <1>3. RemoveAt(q, i) = p \o t
    BY DEF RemoveAt
  <1>4. CASE j <= i - 1
    BY <1>1, <1>2, <1>3, <1>4
  <1>5. CASE j > i - 1
    <2> HIDE DEF p, t
    <2>1. Len(p \o t) = Len(q) - 1 /\ j \in 1..(Len(q) - 1)
      <3>1. Len(p \o t) = Len(p) + Len(t)
        BY <1>1, <1>2, ConcatProperties
      <3>2. Len(q) \in Nat
        OBVIOUS
      <3>3. Len(p \o t) = Len(q) - 1
        BY <3>1, <3>2, <1>1, <1>2
      <3> QED BY <3>3, <1>3
    <2>2. (p \o t)[j] = t[j - (i - 1)]
      BY <1>1, <1>2, <1>5, <2>1
    <2>3. j - (i - 1) \in 1..(Len(q) - i) /\ i + (j - (i - 1)) = j + 1
      BY <1>5, <2>1
    <2>4. t[j - (i - 1)] = q[j + 1]
      BY <1>2, <2>3
    <2> QED BY <1>3, <2>1, <2>2, <2>4
  <1> QED BY <1>4, <1>5

(* A step that makes a sound exist was not about one that existed before.   *)
LEMMA LifeKept ==
    ASSUME SFXAssumption, TypeOK, [Next]_vars, NEW s \in Sounds,
           sound[s].life # "none"
    PROVE  sound'[s].life # "none"
  <1>1. ~CreateSoundSource(s)
    BY DEF CreateSoundSource
  <1>2. CASE DeleteSFX(s)
    <2>1. sound'[s] = [sound[s] EXCEPT !.life = "deleted"]
      BY <1>2 DEF DeleteSFX, TypeOK
    <2>2. sound[s] \in SoundState
      BY DEF TypeOK
    <2> QED BY <2>1, <2>2 DEF SoundState
  <1> QED BY <1>1, <1>2, LifeStep

(* The steps that change the list of sounds *)
LEMMA ListStep ==
    ASSUME [Next]_vars
    PROVE  /\ UNCHANGED m_all_sfx \/ AddToList \/ Erase \/ Destroy
           /\ main' = "list" => \/ main = "list" /\ at' = at /\ ~AddToList
                               \/ \E s \in Sounds : CreateSoundSource(s)
  BY DEF Next, Calls, Continue, Audio, Update, SpuriousWakeup, Ended, vars,
     mainVars, audioVars, CreateSoundSource, Play, Stop, Pause, DeleteSFX, SetLoop,
     QueueFor, QueueForAll, SetMasterSFXVolume, ToggleSoundOff, ToggleSoundOn,
     StopThread, Signal, MasterVolumeOfOne, StopNotLooped, ResumeInMain,
     LockAgain, OnSoundEnabledBack, Take, BeginInit, EndInit, Execute,
     ExecuteDelete, ExecuteForAll, BeginUpdate, Scan, UpdatePlayingSFX, Post,
     UpdateAgain, AddToList, Erase, Destroy

LEMMA CreatedInv == ASSUME SFXAssumption PROVE Spec => []Created
  <1>1. Init => Created
    BY DEF Init, Created
  <1>2. TypeOK /\ Created /\ [Next]_vars => Created'
    <2> SUFFICES ASSUME TypeOK, Created, [Next]_vars PROVE Created'
      OBVIOUS
    <2>1. \A i \in 1..Len(m_all_sfx) : /\ m_all_sfx[i] \in Sounds
                                      /\ sound'[m_all_sfx[i]].life # "none"
      <3>1. \A i \in 1..Len(m_all_sfx) : m_all_sfx[i] \in Sounds
        BY DEF TypeOK
      <3> QED BY <3>1, LifeKept DEF Created
    <2>2. \A i \in 1..Len(m_all_sfx') : sound'[m_all_sfx'[i]].life # "none"
      <3>1. CASE UNCHANGED m_all_sfx
        BY <2>1, <3>1
      <3>2. CASE AddToList
        <4>1. at \in Sounds /\ sound'[at].life # "none"
          BY <3>2, LifeKept DEF AddToList, TypeOK, Created
        <4>2. /\ Len(m_all_sfx') = Len(m_all_sfx) + 1
              /\ \A i \in 1..Len(m_all_sfx) : m_all_sfx'[i] = m_all_sfx[i]
              /\ m_all_sfx'[Len(m_all_sfx) + 1] = at
          BY <3>2, <4>1 DEF AddToList, TypeOK
        <4> QED BY <2>1, <4>1, <4>2 DEF TypeOK
      <3>3. CASE Erase
        <4>1. CASE UNCHANGED m_all_sfx
          BY <2>1, <4>1
        <4>2. CASE \E j \in 1..Len(m_all_sfx) : m_all_sfx' = RemoveAt(m_all_sfx, j)
          <5>1. PICK j \in 1..Len(m_all_sfx) : m_all_sfx' = RemoveAt(m_all_sfx, j)
            BY <4>2
          <5>2. \A i \in 1..Len(m_all_sfx') : \E k \in 1..Len(m_all_sfx) :
                   m_all_sfx'[i] = m_all_sfx[k]
            BY <5>1, RemoveAtElems DEF TypeOK
          <5> QED BY <2>1, <5>2
        <4> QED BY <3>3, <4>1, <4>2 DEF Erase
      <3>4. CASE Destroy
        BY <3>4 DEF Destroy
      <3> QED BY <3>1, <3>2, <3>3, <3>4, ListStep
    <2>3. main' = "list" => sound'[at'].life # "none"
      <3>1. CASE main = "list" /\ at' = at
        BY <3>1, LifeKept DEF TypeOK, Created
      <3>2. ASSUME NEW s \in Sounds, CreateSoundSource(s)
            PROVE  sound'[at'].life # "none"
        BY <3>2 DEF CreateSoundSource, NewSound, TypeOK
      <3> QED BY <3>1, <3>2, ListStep
    <2> QED BY <2>2, <2>3 DEF Created
  <1> QED BY <1>1, <1>2, TypeCorrect, PTL DEF Spec

(* For updatePlayingSFX the list is locked, the main thread may only start  *)
(* a sound meanwhile, and the sound was playing when the loop has tested it. *)
THEOREM AssertionHolds ==
    ASSUME SFXAssumption PROVE Spec => []UpdatedWhilePlaying
  <1>1. Init => UpdatedWhilePlaying
    BY DEF Init, UpdatedWhilePlaying
  <1>2. TypeOK /\ Created /\ UpdatedWhilePlaying /\ [Next]_vars
           => UpdatedWhilePlaying'
    <2> SUFFICES ASSUME TypeOK, Created, UpdatedWhilePlaying, [Next]_vars,
                        pc' = "upd"
                 PROVE  sound'[m_all_sfx'[index']].status = "playing"
      BY DEF UpdatedWhilePlaying
    <2>1. CASE Scan
      BY <2>1 DEF Scan
    <2>2. CASE ~Scan
      <3> DEFINE t == m_all_sfx[index]
      <3>1. /\ pc = "upd" /\ UNCHANGED <<m_all_sfx, index>>
            /\ \/ UNCHANGED sound
               \/ OnSoundEnabledBack
               \/ \E s \in Sounds : \/ CreateSoundSource(s) \/ Play(s)
                                  \/ DeleteSFX(s)
                                  \/ \E on \in BOOLEAN : SetLoop(s, on)
        BY <2>2 DEF Next, Calls, Continue, Audio, Update, SpuriousWakeup, Ended,
           vars, mainVars, audioVars, CreateSoundSource, Play, Stop, Pause,
           DeleteSFX, SetLoop, QueueFor, QueueForAll, SetMasterSFXVolume,
           ToggleSoundOff, ToggleSoundOn, StopThread, Signal, Wake,
           MasterVolumeOfOne, StopNotLooped, ResumeInMain, LockAgain,
           OnSoundEnabledBack, Take, BeginInit, EndInit, Execute, ExecuteDelete,
           ExecuteForAll, BeginUpdate, UpdatePlayingSFX, Post, UpdateAgain, AddToList,
           Erase, Destroy, AudioHolds
      <3>2. /\ t \in Sounds /\ sound[t] \in SoundState
            /\ sound[t].status = "playing" /\ sound[t].life # "none"
        BY <3>1 DEF TypeOK, UpdatedWhilePlaying, Created
      <3>3. /\ \A on : [sound[t] EXCEPT !.loop = on].status = "playing"
            /\ \A l : [sound[t] EXCEPT !.life = l].status = "playing"
            /\ \A st : [sound[t] EXCEPT !.status = st].status = st
        BY <3>2 DEF SoundState
      <3>4. \/ sound'[t] = sound[t]
            \/ sound'[t] = [sound[t] EXCEPT !.status = "playing"]
            \/ \E on \in BOOLEAN : sound'[t] = [sound[t] EXCEPT !.loop = on]
            \/ sound'[t] = [sound[t] EXCEPT !.life = "deleted"]
        <4>1. CASE UNCHANGED sound
          BY <4>1
        <4>2. CASE OnSoundEnabledBack
          BY <4>2, <3>2 DEF OnSoundEnabledBack, TypeOK
        <4>3. ASSUME NEW s \in Sounds, CreateSoundSource(s)
              PROVE  sound'[t] = sound[t]
          BY <4>3, <3>2 DEF CreateSoundSource, TypeOK
        <4>4. ASSUME NEW s \in Sounds, Play(s) \/ DeleteSFX(s)
                        \/ \E on \in BOOLEAN : SetLoop(s, on)
              PROVE  \/ sound'[t] = sound[t]
                     \/ sound'[t] = [sound[t] EXCEPT !.status = "playing"]
                     \/ \E on \in BOOLEAN : sound'[t] = [sound[t] EXCEPT !.loop = on]
                     \/ sound'[t] = [sound[t] EXCEPT !.life = "deleted"]
          BY <4>4, <3>2 DEF Play, DeleteSFX, SetLoop, TypeOK
        <4> QED BY <3>1, <4>1, <4>2, <4>3, <4>4
      <3>5. sound'[t].status = "playing"
        BY <3>2, <3>3, <3>4
      <3> QED BY <3>1, <3>5
    <2> QED BY <2>1, <2>2
  <1> QED BY <1>1, <1>2, TypeCorrect, CreatedInv, PTL DEF Spec

-----------------------------------------------------------------------------
(* A command is executed only for a sound that is alive, in a game that     *)
(* leaves the options alone: there the owners of sounds are the only ones   *)
(* that queue commands for them, and they do not once a sound is deleted.   *)

GameOnly == Ops \cap {"volume", "toggle"} = {}

Dead(s) == sound[s].life \in {"deleted", "freed"}

Executing == {"exec", "init", "effect", "erase"}

(* No command for a sound is behind the one that deletes it.                *)
Ordered ==
    \A i, j \in 1..Len(m_sfx_commands) :
        i < j /\ m_sfx_commands[i].c = "delete"
            => m_sfx_commands[j].s # m_sfx_commands[i].s

Deleting == pc \in {"exec", "erase"} /\ current.c = "delete"

AliveInv ==
    /\ main \notin {"volume", "off", "on", "relock", "back"}
    /\ main = "list" => Live(at)
    /\ Ordered
    /\ pc = "erase" => current.c = "delete"
    /\ pc \in {"init", "effect"} => current.c # "delete"
    /\ Deleting => /\ Dead(current.s)
                   /\ \A i \in 1..Len(m_sfx_commands) :
                         m_sfx_commands[i].s # current.s
    /\ \A i \in 1..Len(m_sfx_commands) :
          /\ m_sfx_commands[i].c = "delete" => Dead(m_sfx_commands[i].s)
          /\ pc # "done" /\ m_sfx_commands[i].s \in Sounds
                => sound[m_sfx_commands[i].s].life # "freed"
    /\ UsedWhileAlive

(* The queue grows: by commands for sounds nobody has deleted, of which     *)
(* only the last may be one that deletes.                                   *)
Grows ==
    /\ Len(m_sfx_commands) <= Len(m_sfx_commands')
    /\ \A i \in 1..Len(m_sfx_commands) : m_sfx_commands'[i] = m_sfx_commands[i]
    /\ \A i \in (Len(m_sfx_commands) + 1)..Len(m_sfx_commands') :
          /\ m_sfx_commands'[i].s \in Sounds => ~Dead(m_sfx_commands'[i].s)
          /\ m_sfx_commands'[i].c = "delete" =>
                /\ i = Len(m_sfx_commands')
                /\ sound'[m_sfx_commands'[i].s].life \in {"deleted", "freed"}

LEMMA GrowsByOne ==
    ASSUME TypeOK, NEW cmd \in Command,
           m_sfx_commands' \in {m_sfx_commands, Append(m_sfx_commands, cmd)},
           cmd.s \in Sounds => ~Dead(cmd.s),
           cmd.c # "delete"
    PROVE  Grows
  <1>1. CASE m_sfx_commands' = m_sfx_commands
    BY <1>1 DEF Grows, TypeOK
  <1>2. CASE m_sfx_commands' = Append(m_sfx_commands, cmd)
    <2>1. /\ Len(m_sfx_commands') = Len(m_sfx_commands) + 1
          /\ \A i \in 1..Len(m_sfx_commands) : m_sfx_commands'[i] = m_sfx_commands[i]
          /\ m_sfx_commands'[Len(m_sfx_commands) + 1] = cmd
          /\ Len(m_sfx_commands) \in Nat
      BY <1>2 DEF TypeOK
    <2> QED BY <2>1 DEF Grows
  <1> QED BY <1>1, <1>2

(* The calls, by the sound and command they queue *)
LEMMA CallsGrow ==
    ASSUME SFXAssumption, GameOnly, TypeOK, Calls
    PROVE  Grows
  <1> USE DEF QueueCommand, MayCall, Live
  <1>1. ASSUME NEW s \in Sounds, CreateSoundSource(s) PROVE Grows
    <2>1. /\ Cmd("create", s) \in Command
          /\ Cmd("create", s).s = s /\ Cmd("create", s).c = "create" /\ ~Dead(s)
      BY <1>1, Commands DEF CreateSoundSource, OnSound, OnAll, Cmd, Dead
    <2> QED BY <1>1, <2>1, QueuedType, GrowsByOne DEF CreateSoundSource, TypeOK
  <1>2. ASSUME NEW s \in Sounds, Play(s) PROVE Grows
    <2>1. Cmd("play", s) \in Command /\ Cmd("play", s).s = s /\ ~Dead(s)
      BY <1>2, Commands DEF Play, OnSound, OnAll, Cmd, Dead
    <2> QED BY <1>2, <2>1, QueuedType, GrowsByOne DEF Play, TypeOK, Cmd
  <1>3. ASSUME NEW s \in Sounds, Stop(s) PROVE Grows
    <2>1. Cmd("stop", s) \in Command /\ Cmd("stop", s).s = s /\ ~Dead(s)
      BY <1>3, Commands DEF Stop, OnSound, OnAll, Cmd, Dead
    <2> QED BY <1>3, <2>1, QueuedType, GrowsByOne DEF Stop, TypeOK, Cmd
  <1>4. ASSUME NEW s \in Sounds, Pause(s) PROVE Grows
    <2>1. Cmd("pause", s) \in Command /\ Cmd("pause", s).s = s /\ ~Dead(s)
      BY <1>4, Commands DEF Pause, OnSound, OnAll, Cmd, Dead
    <2> QED BY <1>4, <2>1, QueuedType, GrowsByOne DEF Pause, TypeOK, Cmd
  <1>5. ASSUME NEW s \in Sounds, DeleteSFX(s) PROVE Grows
    <2> DEFINE q == m_sfx_commands
    <2>1. Cmd("delete", s).s = s /\ Cmd("delete", s).c = "delete" /\ ~Dead(s)
      BY <1>5 DEF DeleteSFX, Cmd, Dead
    <2>2. q' = Append(q, Cmd("delete", s))
      BY <1>5, <2>1 DEF DeleteSFX, Queued
    <2>3. /\ Len(q) \in Nat /\ Len(q') = Len(q) + 1
          /\ \A i \in 1..Len(q) : q'[i] = q[i]
          /\ q'[Len(q) + 1] = Cmd("delete", s)
      BY <2>2 DEF TypeOK
    <2>4. sound'[s].life = "deleted"
      <3>1. sound[s] \in SoundState
        BY DEF TypeOK
      <3>2. sound'[s] = [sound[s] EXCEPT !.life = "deleted"]
        BY <1>5 DEF DeleteSFX, TypeOK
      <3> QED BY <3>1, <3>2 DEF SoundState
    <2> QED BY <2>1, <2>3, <2>4 DEF Grows
  <1>6. ASSUME NEW s \in Sounds, NEW on \in BOOLEAN, SetLoop(s, on) PROVE Grows
    <2> DEFINE cmd == [c |-> "loop", s |-> s, on |-> on]
    <2>1. cmd \in Command /\ cmd.s = s /\ cmd.c # "delete" /\ ~Dead(s)
      BY <1>6, Commands DEF SetLoop, OnSound, OnAll, Dead
    <2>2. m_sfx_commands' \in {m_sfx_commands, Append(m_sfx_commands, cmd)}
      BY <1>6, <2>1, QueuedType DEF SetLoop, TypeOK
    <2> QED BY <2>1, <2>2, GrowsByOne
  <1>7. ASSUME NEW s \in Sounds, NEW c \in {"resume", "position"}, QueueFor(s, c)
        PROVE  Grows
    <2>1. Cmd(c, s) \in Command /\ Cmd(c, s).s = s /\ ~Dead(s)
      BY <1>7, Commands DEF QueueFor, OnSound, OnAll, Cmd, Dead
    <2> QED BY <1>7, <2>1, QueuedType, GrowsByOne DEF QueueFor, TypeOK, Cmd
  <1>8. ASSUME NEW c \in {"pauseAll", "resumeAll", "exit"},
               QueueForAll(c) \/ (c = "exit" /\ StopThread)
        PROVE  Grows
    <2>1. Cmd(c, None) \in Command /\ Cmd(c, None).s \notin Sounds
      BY DEF Cmd, Command, OnAll, SFXAssumption
    <2> QED BY <1>8, <2>1, QueuedType, GrowsByOne
            DEF QueueForAll, StopThread, TypeOK, Cmd
  <1>9. ~SetMasterSFXVolume /\ ~ToggleSoundOff /\ ~ToggleSoundOn
    BY DEF GameOnly, SetMasterSFXVolume, ToggleSoundOff, ToggleSoundOn
  <1>10. ASSUME NEW s \in Sounds,
                CreateSoundSource(s) \/ Play(s) \/ Stop(s) \/ Pause(s)
                  \/ DeleteSFX(s) \/ (\E on \in BOOLEAN : SetLoop(s, on))
                  \/ (\E c \in {"resume", "position"} : QueueFor(s, c))
         PROVE  Grows
    <2> HIDE DEF QueueCommand, MayCall, Live
    <2> QED BY <1>1, <1>2, <1>3, <1>4, <1>5, <1>6, <1>7, <1>10
  <1>11. ASSUME (\E c \in {"pauseAll", "resumeAll"} : QueueForAll(c)) \/ StopThread
         PROVE  Grows
    <2> HIDE DEF QueueCommand, MayCall, Live
    <2> QED BY <1>8, <1>11
  <1> HIDE DEF QueueCommand, MayCall, Live
  <1> QED BY <1>9, <1>10, <1>11 DEF Calls

(* What the other steps queue: updates, and the volume of a new sound.      *)
LEMMA OthersGrow ==
    ASSUME SFXAssumption, TypeOK, AliveInv, [Next]_vars, ~Calls, ~Take
    PROVE  Grows
  <1>1. /\ Cmd("update", None) \in Command
        /\ Cmd("update", None).s \notin Sounds
        /\ Cmd("update", None).c # "delete"
    BY DEF Cmd, Command, OnAll, SFXAssumption
  <1>2. CASE AddToList
    <2>1. at \in Sounds /\ ~Dead(at)
      BY <1>2 DEF AddToList, AliveInv, TypeOK, Live, Dead
    <2>2. /\ Cmd("master", at) \in Command
          /\ Cmd("master", at).s = at /\ Cmd("master", at).c = "master"
      BY <2>1 DEF Cmd, Command, OnSound
    <2>3. m_sfx_commands' \in {m_sfx_commands, Queued(m_sfx_commands, Cmd("master", at))}
      BY <1>2 DEF AddToList, SetMasterVolume, QueueCommand
    <2> QED BY <2>1, <2>2, <2>3, QueuedType, GrowsByOne DEF TypeOK
  <1>3. CASE ~AddToList
    <2>1. m_sfx_commands' \in {m_sfx_commands, Queued(m_sfx_commands, Cmd("update", None))}
      BY <1>3 DEF AliveInv, Next, Continue, Audio, Update, SpuriousWakeup, Ended,
         vars, mainVars, audioVars, Signal, MasterVolumeOfOne, StopNotLooped,
         ResumeInMain, LockAgain, OnSoundEnabledBack, Destroy, BeginInit, EndInit,
         Execute, ExecuteDelete, Erase, ExecuteForAll, BeginUpdate, Scan,
         UpdatePlayingSFX, Post, UpdateAgain, QueueCommand
    <2> QED BY <1>1, <2>1, QueuedType, GrowsByOne DEF TypeOK
  <1> QED BY <1>2, <1>3

(* The two threads' places *)
LEMMA PlaceStep ==
    ASSUME GameOnly, AliveInv, [Next]_vars
    PROVE  /\ main' \notin {"volume", "off", "on", "relock", "back"}
           /\ pc' # "done" => pc # "done"
           /\ ~Take /\ pc' \in Executing =>
                 /\ pc \in Executing /\ current' = current
                 /\ pc' = "exec" => pc = "exec"
                 /\ pc' = "erase" =>
                       (pc = "erase" \/ (pc = "exec" /\ current.c = "delete"))
                 /\ pc' \in {"init", "effect"} => current.c # "delete"
  BY DEF GameOnly, AliveInv, Executing, NeedsInit, Next, Calls, Continue, Audio,
     Update, SpuriousWakeup, Ended, vars, mainVars, audioVars, CreateSoundSource,
     Play, Stop, Pause, DeleteSFX, SetLoop, QueueFor, QueueForAll, MayCall,
     SetMasterSFXVolume, ToggleSoundOff, ToggleSoundOn, StopThread, Signal, Wake,
     MasterVolumeOfOne, StopNotLooped, ResumeInMain, LockAgain,
     OnSoundEnabledBack, Take, BeginInit, EndInit, Execute, ExecuteDelete,
     ExecuteForAll, BeginUpdate, Scan, UpdatePlayingSFX, Post, UpdateAgain,
     AddToList, Erase, Destroy

(* A sound that is about to be added to the list is alive. *)
LEMMA NewStep ==
    ASSUME SFXAssumption, TypeOK, AliveInv, [Next]_vars, main' = "list"
    PROVE  sound'[at'].life = "live"
  <1>1. CASE main = "list" /\ at' = at
    <2>1. at \in Sounds /\ sound[at].life = "live"
      BY <1>1 DEF TypeOK, AliveInv, Live
    <2>2. ~CreateSoundSource(at) /\ ~DeleteSFX(at) /\ ~Destroy
      BY <1>1 DEF CreateSoundSource, DeleteSFX, Destroy, MayCall
    <2>3. ~(Erase /\ at = current.s)
      BY <2>1 DEF Erase, AliveInv, Deleting, Dead
    <2> QED BY <1>1, <2>1, <2>2, <2>3, LifeStep
  <1>2. ASSUME NEW s \in Sounds, CreateSoundSource(s)
        PROVE  sound'[at'].life = "live"
    BY <1>2 DEF CreateSoundSource, NewSound, TypeOK
  <1> QED BY <1>1, <1>2, ListStep

(* A sound that was deleted stays so, and is freed by two steps only.       *)
LEMMA DeadStep ==
    ASSUME SFXAssumption, TypeOK, [Next]_vars, NEW s \in Sounds
    PROVE  /\ Dead(s) => sound'[s].life \in {"deleted", "freed"}
           /\ sound[s].life # "freed" /\ sound'[s].life = "freed" =>
                 \/ pc = "erase" /\ pc' = "post" /\ s = current.s
                 \/ pc = "done" /\ pc' = "done"
  <1>1. CASE CreateSoundSource(s) \/ DeleteSFX(s)
    <2>1. \/ sound[s].life = "none" /\ sound'[s] = NewSound("live")
          \/ sound[s].life = "live" /\ sound'[s] = [sound[s] EXCEPT !.life = "deleted"]
      BY <1>1 DEF CreateSoundSource, DeleteSFX, Live, TypeOK
    <2>2. NewSound("live").life = "live"
      BY DEF NewSound
    <2>3. [sound[s] EXCEPT !.life = "deleted"].life = "deleted"
      BY DEF TypeOK, SoundState
    <2> QED BY <2>1, <2>2, <2>3 DEF Dead
  <1>2. CASE sound'[s].life = sound[s].life
    BY <1>2 DEF Dead
  <1>3. CASE Erase /\ s = current.s /\ sound'[s].life = "freed"
    BY <1>3 DEF Dead, Erase
  <1>4. CASE Destroy /\ sound'[s].life = "freed"
    BY <1>4 DEF Dead, Destroy, audioVars
  <1> QED BY <1>1, <1>2, <1>3, <1>4, LifeStep

(* A step that lets the queue grow *)
LEMMA GrowthKeeps ==
    ASSUME SFXAssumption, GameOnly, TypeOK, TypeOK', AliveInv, [Next]_vars,
           ~Take, Grows
    PROVE  AliveInv'
  <1> DEFINE q == m_sfx_commands
  <1>1. /\ Len(q) \in Nat /\ Len(q') \in Nat /\ Len(q) <= Len(q')
        /\ \A i \in 1..Len(q) : q[i] \in Command /\ q'[i] = q[i]
        /\ \A i \in 1..Len(q') : q'[i] \in Command
    BY DEF Grows, TypeOK
  <1>2. \A cmd \in Command : cmd.c = "delete" => cmd.s \in Sounds
    BY DEF Command, OnSound, OnAll
  <1>3. pc' \in Executing =>
            current' = current /\ pc \in Executing /\ current \in Command
    BY PlaceStep DEF TypeOK, Executing
  <1>4. Ordered'
    <2> SUFFICES ASSUME NEW i \in 1..Len(q'), NEW j \in 1..Len(q'),
                        i < j, q'[i].c = "delete", q'[j].s = q'[i].s
                 PROVE  FALSE
      BY DEF Ordered
    <2>1. q'[i].s \in Sounds
      BY <1>1, <1>2
    <2>2. i \in 1..Len(q)
      BY <1>1 DEF Grows
    <2>3. Dead(q[i].s) /\ q[i].c = "delete" /\ q[i].s = q'[i].s
      BY <1>1, <2>2 DEF AliveInv
    <2>4. CASE j \in 1..Len(q)
      BY <1>1, <2>2, <2>3, <2>4 DEF AliveInv, Ordered
    <2>5. CASE j \in (Len(q) + 1)..Len(q')
      BY <2>1, <2>3, <2>5 DEF Grows
    <2> QED BY <1>1, <2>4, <2>5
  <1>5. /\ pc' = "erase" => current'.c = "delete"
        /\ pc' \in {"init", "effect"} => current'.c # "delete"
    BY <1>3, PlaceStep DEF AliveInv, Executing
  <1>6. Deleting' => /\ Dead(current.s)'
                     /\ \A i \in 1..Len(q') : q'[i].s # current'.s
    <2> SUFFICES ASSUME Deleting'
                 PROVE  /\ sound'[current'.s].life \in {"deleted", "freed"}
                        /\ \A i \in 1..Len(q') : q'[i].s # current'.s
      BY DEF Dead
    <2>1. current' = current /\ Deleting /\ current.s \in Sounds
      BY <1>2, <1>3, PlaceStep DEF Deleting, Executing
    <2>2. /\ Dead(current.s)
          /\ \A i \in 1..Len(q) : q[i].s # current.s
      BY <2>1 DEF AliveInv
    <2>3. \A i \in (Len(q) + 1)..Len(q') : q'[i].s # current.s
      BY <2>1, <2>2 DEF Grows
    <2> QED BY <1>1, <2>1, <2>2, <2>3, DeadStep
  <1>7. ASSUME NEW i \in 1..Len(q')
        PROVE  /\ q'[i].c = "delete" =>
                     sound'[q'[i].s].life \in {"deleted", "freed"}
               /\ pc' # "done" /\ q'[i].s \in Sounds
                     => sound'[q'[i].s].life # "freed"
    <2>1. q'[i].c = "delete" => sound'[q'[i].s].life \in {"deleted", "freed"}
      <3>1. CASE i \in 1..Len(q)
        BY <1>1, <1>2, <3>1, DeadStep DEF AliveInv
      <3>2. CASE i \in (Len(q) + 1)..Len(q')
        BY <3>2 DEF Grows
      <3> QED BY <1>1, <3>1, <3>2
    <2>2. ASSUME pc' # "done", q'[i].s \in Sounds, sound'[q'[i].s].life = "freed"
          PROVE  FALSE
      <3>1. pc # "done"
        BY <2>2, PlaceStep
      <3>2. CASE i \in 1..Len(q)
        <4>1. /\ q'[i].s = q[i].s /\ sound[q[i].s].life # "freed"
              /\ Deleting => q[i].s # current.s
          BY <1>1, <2>2, <3>1, <3>2 DEF AliveInv
        <4>2. pc = "erase" /\ q[i].s = current.s
          BY <2>2, <3>1, <4>1, DeadStep
        <4> QED BY <4>1, <4>2 DEF AliveInv, Deleting
      <3>3. CASE i \in (Len(q) + 1)..Len(q')
        <4>1. ~Dead(q'[i].s)
          BY <2>2, <3>3 DEF Grows
        <4>2. pc = "erase" /\ q'[i].s = current.s
          BY <2>2, <3>1, <4>1, DeadStep DEF Dead
        <4> QED BY <4>1, <4>2 DEF AliveInv, Deleting
      <3> QED BY <1>1, <3>2, <3>3
    <2> QED BY <2>1, <2>2
  <1>8. UsedWhileAlive'
    <2> SUFFICES ASSUME pc' \in Executing, current'.s \in Sounds,
                        sound'[current'.s].life = "freed"
                 PROVE  FALSE
      BY DEF UsedWhileAlive, Executing
    <2>1. pc \in Executing /\ sound[current.s].life # "freed" /\ current' = current
      BY <1>3 DEF AliveInv, UsedWhileAlive, Executing
    <2> QED BY <2>1, DeadStep DEF Executing
  <1> HIDE DEF q
  <1> QED
    BY <1>4, <1>5, <1>6, <1>7, <1>8, PlaceStep, NewStep DEF AliveInv, Live, Dead, q

(* The sound thread takes a command. *)
LEMMA TakeKeeps ==
    ASSUME SFXAssumption, TypeOK, AliveInv, Take
    PROVE  AliveInv'
  <1> DEFINE q == m_sfx_commands
  <1>1. /\ pc = "top" /\ sound' = sound /\ main' = main
        /\ main' = "list" => Live(at)'
    BY DEF Take, mainVars, AliveInv, Live
  <1>2. CASE pc' = "wait"
    <2>1. q' = q
      BY <1>2 DEF Take
    <2>2. Ordered'
      BY <2>1 DEF Ordered, AliveInv
    <2> QED BY <1>1, <1>2, <2>1, <2>2 DEF AliveInv, Deleting, UsedWhileAlive, Dead
  <1>3. CASE pc' = "done"
    <2>1. q' = <<>>
      BY <1>3 DEF Take
    <2>2. Ordered' /\ Len(q') = 0
      BY <2>1 DEF Ordered
    <2> QED BY <1>1, <1>3, <2>2 DEF AliveInv, Deleting, UsedWhileAlive
  <1>4. CASE pc' = "exec"
    <2>1. /\ q # <<>> /\ q \in Seq(Command)
          /\ current' = Head(q) /\ q' = Tail(q)
      BY <1>4 DEF Take, TypeOK
    <2>2. /\ Len(q) \in Nat \ {0} /\ Len(q') = Len(q) - 1
          /\ current' = q[1]
          /\ \A i \in 1..Len(q') : q'[i] = q[i + 1] /\ i + 1 \in 1..Len(q)
      BY <2>1
    <2>3. Ordered'
      BY <2>2 DEF AliveInv, Ordered
    <2>4. Deleting' => /\ Dead(current.s)'
                       /\ \A i \in 1..Len(q') : q'[i].s # current'.s
      BY <1>1, <2>2 DEF AliveInv, Ordered, Deleting, Dead
    <2>5. \A i \in 1..Len(q') :
             /\ q'[i].c = "delete" => sound'[q'[i].s].life \in {"deleted", "freed"}
             /\ q'[i].s \in Sounds => sound'[q'[i].s].life # "freed"
      BY <1>1, <2>2 DEF AliveInv, Dead
    <2>6. UsedWhileAlive'
      BY <1>1, <2>2 DEF AliveInv, UsedWhileAlive
    <2> QED BY <1>1, <1>4, <2>3, <2>4, <2>5, <2>6 DEF AliveInv, Dead
  <1> QED BY <1>2, <1>3, <1>4 DEF Take

\* No command is executed for a sound that was freed, however the game and the
\* sound thread take turns, if the game leaves the options alone: deleteSFX()
\* queues the deletion behind all that its owner has queued for the sound.
THEOREM AliveWhenUsed ==
    ASSUME SFXAssumption, GameOnly
    PROVE  Spec => []UsedWhileAlive
  <1>1. Init => AliveInv
    <2> SUFFICES ASSUME Init PROVE AliveInv
      OBVIOUS
    <2>1. Len(m_sfx_commands) = 0
      BY DEF Init
    <2> QED BY <2>1 DEF Init, AliveInv, Ordered, Deleting, UsedWhileAlive
  <1>2. TypeOK /\ TypeOK' /\ AliveInv /\ [Next]_vars => AliveInv'
    <2> SUFFICES ASSUME TypeOK, TypeOK', AliveInv, [Next]_vars PROVE AliveInv'
      OBVIOUS
    <2>1. CASE Take
      BY <2>1, TakeKeeps
    <2>2. CASE ~Take
      BY <2>2, CallsGrow, OthersGrow, GrowthKeeps
    <2> QED BY <2>1, <2>2
  <1>3. AliveInv => UsedWhileAlive
    BY DEF AliveInv
  <1> QED BY <1>1, <1>2, <1>3, TypeCorrect, PTL DEF Spec

-----------------------------------------------------------------------------
(* The status of a sound is what OpenAL does with it, once all commands for *)
(* it are executed, in a game that neither loops a sound nor touches the    *)
(* options.  (A loop that is switched off is known to the program before    *)
(* OpenAL is told, and the thread may end the sound in between.)            *)

RaceOnly == Ops \cap {"loop", "volume", "toggle"} = {}

(* play() has set the status of s ahead of a command that is still to come. *)
PlayPending(s) ==
    \/ pc \in {"exec", "init", "effect"} /\ current.c = "play" /\ current.s = s
    \/ \E i \in 1..Len(m_sfx_commands) :
          m_sfx_commands[i].c = "play" /\ m_sfx_commands[i].s = s

Unlooped(r) == r.loop = FALSE /\ r.looping = FALSE

Agrees(r) == r.source # "none" /\ r.status # "unknown" => r.source = r.status

(* exit, which drops the rest of the queue, drops no play.                  *)
CommandsFit ==
    \A i \in 1..Len(m_sfx_commands) :
        /\ m_sfx_commands[i].c # "loop"
        /\ m_sfx_commands[i].c = "play" => m_sfx
        /\ m_sfx_commands[i].c = "exit" =>
              /\ stopping
              /\ \A j \in (i + 1)..Len(m_sfx_commands) :
                    m_sfx_commands[j].c # "play"

MatchInv ==
    /\ main \notin {"volume", "off", "on", "relock", "back"}
    /\ CommandsFit
    /\ current # None => current.c # "loop" /\ (current.c = "play" => m_sfx)
    /\ \A s \in Sounds : /\ Unlooped(sound[s])
                         /\ Agrees(sound[s]) \/ PlayPending(s)

(* What the sound thread does to a sound lets status and source agree.      *)
LEMMA AgreeOps ==
    ASSUME NEW r \in SoundState, Unlooped(r), NEW ok \in BOOLEAN
    PROVE  /\ Agrees(Initialised(r, ok)) /\ Unlooped(Initialised(r, ok))
           /\ Agrees(ReallyPlayNow(r)) /\ Unlooped(ReallyPlayNow(r))
           /\ Agrees(Finished(r)) /\ Unlooped(Finished(r))
           /\ Agrees([r EXCEPT !.status = "unknown"])
           /\ Unlooped(NewSound("live")) /\ Agrees(NewSound("live"))
           /\ \A st : Unlooped([r EXCEPT !.status = st])
           /\ \A l : Unlooped([r EXCEPT !.life = l])
           /\ Agrees(r) => /\ \A l : Agrees([r EXCEPT !.life = l])
                           /\ Agrees(ReallyStopNow(r))
                           /\ Agrees(ReallyPauseNow(r))
                           /\ Agrees(ReallyResumeNow(Ready(r, ok)))
           /\ Unlooped(ReallyStopNow(r))
           /\ Unlooped(ReallyPauseNow(r))
           /\ Unlooped(ReallyResumeNow(Ready(r, ok)))
           /\ Unlooped(ReallyResumeNow(r))
           /\ Agrees(r) => Agrees(ReallyResumeNow(r))
  BY DEF SoundState, Initialised, ReallyPlayNow, ReallyStopNow, ReallyPauseNow,
         ReallyResumeNow, Ready, Finished, Agrees, Unlooped, NewSound

(* A command that is executed: the effect of play is that they agree.       *)
LEMMA AgreeEffect ==
    ASSUME NEW r \in SoundState, Unlooped(r), current.c # "loop",
           current.c = "play" => m_sfx
    PROVE  /\ Unlooped(Effect(r))
           /\ Agrees(r) \/ current.c = "play" => Agrees(Effect(r))
  <1>1. CASE current.c = "play"
    <2>1. Effect(r) = ReallyPlayNow(r)
      BY <1>1 DEF Effect
    <2> QED BY <2>1, AgreeOps
  <1>2. CASE current.c # "play"
    <2>1. Effect(r) \in {r, ReallyStopNow(r), ReallyPauseNow(r), ReallyResumeNow(r)}
      BY <1>2 DEF Effect
    <2> QED BY <1>2, <2>1, AgreeOps
  <1> QED BY <1>1, <1>2

(* Sounds stay on or off, and nothing is undone.                            *)
LEMMA RaceStep ==
    ASSUME RaceOnly, MatchInv, [Next]_vars
    PROVE  /\ m_sfx' = m_sfx
           /\ stopping => stopping'
           /\ main' \notin {"volume", "off", "on", "relock", "back"}
           /\ ~Take => current' \in {current, None}
           /\ ~Take /\ pc' \in {"exec", "init", "effect"} =>
                 pc \in {"exec", "init", "effect"} /\ current' = current
           /\ ~SetMasterSFXVolume /\ ~ToggleSoundOff /\ ~ToggleSoundOn
           /\ ~StopNotLooped /\ ~ResumeInMain /\ ~OnSoundEnabledBack
           /\ \A s \in Sounds, on \in BOOLEAN : ~SetLoop(s, on)
  <1>1. /\ ~SetMasterSFXVolume /\ ~ToggleSoundOff /\ ~ToggleSoundOn
        /\ ~StopNotLooped /\ ~ResumeInMain /\ ~OnSoundEnabledBack
    BY DEF RaceOnly, MatchInv, SetMasterSFXVolume, ToggleSoundOff, ToggleSoundOn,
           StopNotLooped, ResumeInMain, OnSoundEnabledBack, MayCall
  <1>2. \A s \in Sounds, on \in BOOLEAN : ~SetLoop(s, on)
    BY DEF RaceOnly, SetLoop, MayCall
  <1>3. main \notin {"volume", "off", "on", "relock", "back"}
    BY DEF MatchInv
  <1> USE DEF Next, Calls, Continue, Audio, Update, SpuriousWakeup, Ended, vars,
     mainVars, audioVars, CreateSoundSource, Play, Stop, Pause, DeleteSFX,
     QueueFor, QueueForAll, StopThread, Signal, MasterVolumeOfOne, LockAgain,
     Take, BeginInit, EndInit, Execute, ExecuteDelete, ExecuteForAll,
     BeginUpdate, Scan, UpdatePlayingSFX, Post, UpdateAgain, AddToList, Erase,
     Destroy
  <1>4. m_sfx' = m_sfx
    BY <1>1, <1>2
  <1>8. stopping' \in {stopping, TRUE}
    BY <1>1, <1>2
  <1>5. main' \notin {"volume", "off", "on", "relock", "back"}
    BY <1>1, <1>2, <1>3 DEF MayCall
  <1>6. ~Take => current' \in {current, None}
    BY <1>1, <1>2
  <1>7. ~Take /\ pc' \in {"exec", "init", "effect"} =>
           pc \in {"exec", "init", "effect"} /\ current' = current
    BY <1>1, <1>2 DEF Wake
  <1> HIDE DEF Next, Calls, Continue, Audio, Take, StopThread, SetMasterSFXVolume
  <1>9. stopping => stopping'
    BY <1>8, Zenon
  <1> QED BY <1>1, <1>2, <1>4, <1>5, <1>6, <1>7, <1>9, Zenon

(* What may be queued: no loop, play only with sounds on before stopThread. *)
MayQueue(cmd) ==
    /\ cmd.c # "loop"
    /\ cmd.c = "play" => m_sfx /\ ~stopping
    /\ cmd.c = "exit" => stopping'

Appends(cmd) == m_sfx_commands' \in {m_sfx_commands, Append(m_sfx_commands, cmd)}

LEMMA CallsAppend ==
    ASSUME SFXAssumption, RaceOnly, TypeOK, MatchInv, Calls
    PROVE  \E cmd \in Command : Appends(cmd) /\ MayQueue(cmd)
  <1> USE DEF QueueCommand, MayCall
  <1>1. ASSUME NEW s \in Sounds, NEW c \in OnSound, c # "loop",
               c = "play" => m_sfx /\ ~stopping,
               m_sfx_commands' \in {m_sfx_commands,
                                    Queued(m_sfx_commands, Cmd(c, s))}
        PROVE  \E cmd \in Command : Appends(cmd) /\ MayQueue(cmd)
    <2>1. Cmd(c, s) \in Command /\ Cmd(c, s).c = c
      BY <1>1 DEF Cmd, Command
    <2>2. Appends(Cmd(c, s))
      BY <1>1, <2>1, QueuedType DEF Appends, TypeOK
    <2>3. MayQueue(Cmd(c, s))
      BY <1>1, <2>1 DEF MayQueue, OnSound
    <2> QED BY <2>1, <2>2, <2>3
  <1>2. ASSUME NEW c \in OnAll, c = "exit" => stopping',
               m_sfx_commands' = Queued(m_sfx_commands, Cmd(c, None))
        PROVE  \E cmd \in Command : Appends(cmd) /\ MayQueue(cmd)
    <2>1. Cmd(c, None) \in Command /\ Cmd(c, None).c = c
      BY <1>2 DEF Cmd, Command
    <2>2. Appends(Cmd(c, None))
      BY <1>2, <2>1, QueuedType DEF Appends, TypeOK
    <2>3. MayQueue(Cmd(c, None))
      BY <1>2, <2>1 DEF MayQueue, OnAll
    <2> QED BY <2>1, <2>2, <2>3
  <1>3. ASSUME NEW s \in Sounds,
               CreateSoundSource(s) \/ Play(s) \/ Stop(s) \/ Pause(s)
                  \/ DeleteSFX(s)
                  \/ (\E c \in {"resume", "position"} : QueueFor(s, c))
        PROVE  \E cmd \in Command : Appends(cmd) /\ MayQueue(cmd)
    BY <1>1, <1>3 DEF CreateSoundSource, Play, Stop, Pause, DeleteSFX, QueueFor,
                      OnSound
  <1>4. ASSUME (\E c \in {"pauseAll", "resumeAll"} : QueueForAll(c)) \/ StopThread
        PROVE  \E cmd \in Command : Appends(cmd) /\ MayQueue(cmd)
    BY <1>2, <1>4 DEF QueueForAll, StopThread, OnAll
  <1> HIDE DEF QueueCommand, MayCall
  <1>5. /\ ~SetMasterSFXVolume /\ ~ToggleSoundOff /\ ~ToggleSoundOn
        /\ \A s \in Sounds, on \in BOOLEAN : ~SetLoop(s, on)
    BY DEF RaceOnly, SetMasterSFXVolume, ToggleSoundOff, ToggleSoundOn, SetLoop,
           MayCall
  <1> QED BY <1>3, <1>4, <1>5 DEF Calls

LEMMA OthersAppend ==
    ASSUME SFXAssumption, RaceOnly, TypeOK, MatchInv, [Next]_vars, ~Calls, ~Take
    PROVE  \E cmd \in Command : Appends(cmd) /\ MayQueue(cmd)
  <1> DEFINE cmd == IF AddToList THEN Cmd("master", at) ELSE Cmd("update", None)
  <1>1. cmd \in Command /\ cmd.c \in {"master", "update"}
    BY DEF AddToList, TypeOK, Cmd, Command, OnSound, OnAll
  <1>2. m_sfx_commands' \in {m_sfx_commands, Queued(m_sfx_commands, cmd)}
    <2>1. CASE AddToList
      BY <2>1 DEF AddToList, SetMasterVolume, QueueCommand
    <2>2. CASE ~AddToList
      BY <2>2 DEF MatchInv, Next, Continue, Audio, Update, SpuriousWakeup, Ended,
         vars, mainVars, audioVars, Signal, MasterVolumeOfOne, StopNotLooped,
         ResumeInMain, LockAgain, OnSoundEnabledBack, Destroy, BeginInit, EndInit,
         Execute, ExecuteDelete, Erase, ExecuteForAll, BeginUpdate, Scan,
         UpdatePlayingSFX, Post, UpdateAgain, QueueCommand
    <2> QED BY <2>1, <2>2
  <1> HIDE DEF cmd
  <1>3. Appends(cmd)
    BY <1>1, <1>2, QueuedType DEF Appends, TypeOK
  <1>4. MayQueue(cmd)
    BY <1>1 DEF MayQueue
  <1> QED BY <1>1, <1>3, <1>4

(* A step of another kind than Take keeps the queue fit, and what is in it. *)
LEMMA AppendFits ==
    ASSUME SFXAssumption, RaceOnly, TypeOK, MatchInv, [Next]_vars, ~Take
    PROVE  /\ CommandsFit'
           /\ \A i \in 1..Len(m_sfx_commands) :
                 /\ i \in 1..Len(m_sfx_commands')
                 /\ m_sfx_commands'[i] = m_sfx_commands[i]
  <1> DEFINE q == m_sfx_commands
  <1>1. PICK cmd \in Command : Appends(cmd) /\ MayQueue(cmd)
    BY CallsAppend, OthersAppend
  <1>2. m_sfx' = m_sfx /\ (stopping => stopping')
    BY RaceStep
  <1>3. CASE q' = q
    BY <1>2, <1>3 DEF MatchInv, CommandsFit
  <1>4. CASE q' = Append(q, cmd)
    <2>1. /\ Len(q) \in Nat /\ Len(q') = Len(q) + 1 /\ q'[Len(q) + 1] = cmd
          /\ \A i \in 1..Len(q) : q'[i] = q[i]
      BY <1>4 DEF TypeOK
    <2>2. CommandsFit
      BY DEF MatchInv
    <2> HIDE DEF q
    <2>3. ASSUME NEW i \in 1..Len(q')
          PROVE  /\ q'[i].c # "loop"
                 /\ q'[i].c = "play" => m_sfx'
                 /\ q'[i].c = "exit" => stopping'
      BY <1>1, <1>2, <2>1, <2>2 DEF CommandsFit, MayQueue, q
    <2>4. ASSUME NEW i \in 1..Len(q'), q'[i].c = "exit",
                 NEW j \in (i + 1)..Len(q')
          PROVE  q'[j].c # "play"
      <3>1. i \in 1..Len(q) /\ q[i].c = "exit" /\ stopping
        BY <2>1, <2>2, <2>4 DEF CommandsFit, q
      <3>2. CASE j \in 1..Len(q)
        BY <3>1, <3>2, <2>1, <2>2 DEF CommandsFit, q
      <3>3. CASE j = Len(q) + 1
        BY <3>1, <3>3, <2>1, <1>1 DEF MayQueue
      <3> QED BY <3>2, <3>3, <2>1
    <2> QED BY <2>1, <2>3, <2>4 DEF CommandsFit, q
  <1> QED BY <1>1, <1>3, <1>4 DEF Appends

(* What a step does to a sound: it stays as it is, or play() is called, or  *)
(* status and source agree after it if they did before, and anyway if the   *)
(* step ends the execution of play.                                         *)
LEMMA AgreeStep ==
    ASSUME SFXAssumption, RaceOnly, TypeOK, MatchInv, [Next]_vars,
           NEW s \in Sounds
    PROVE  /\ Unlooped(sound'[s])
           /\ \/ Play(s)
              \/ Agrees(sound[s]) => Agrees(sound'[s])
           /\ pc \in {"exec", "init", "effect"} /\ current.c = "play"
                 /\ current.s = s =>
              \/ pc' \in {"exec", "init", "effect"} /\ current' = current
              \/ Agrees(sound'[s])
  <1> DEFINE r == sound[s]
  <1>1. r \in SoundState /\ Unlooped(r)
    BY DEF TypeOK, MatchInv
  <1>2. /\ pc \in {"exec", "init", "effect"} /\ current.c = "play" =>
             \/ pc' \in {"exec", "init", "effect"} /\ current' = current
             \/ EndInit \/ Execute
    BY DEF Next, Calls, Continue, Audio, Take,
     Update, SpuriousWakeup, Ended, vars, mainVars, audioVars, CreateSoundSource,
     Play, Stop, Pause, DeleteSFX, SetLoop, QueueFor, QueueForAll,
     SetMasterSFXVolume, ToggleSoundOff, ToggleSoundOn, StopThread, Signal, Wake,
     MasterVolumeOfOne, StopNotLooped, ResumeInMain, LockAgain,
     OnSoundEnabledBack, BeginInit, ExecuteDelete,
     ExecuteForAll, BeginUpdate, Scan, UpdatePlayingSFX, Post, UpdateAgain,
     AddToList, Erase, Destroy
  <1>3. /\ UNCHANGED sound \/ ExecuteForAll \/ Destroy \/ BeginInit \/ EndInit
              \/ Execute \/ ExecuteDelete \/ Erase \/ UpdatePlayingSFX
              \/ \E t \in Sounds : CreateSoundSource(t) \/ Play(t) \/ DeleteSFX(t)
    BY RaceStep DEF Next, Calls, Continue, Audio, Update, SpuriousWakeup, Ended,
       vars, Stop, Pause, QueueFor, QueueForAll, SetMasterSFXVolume,
       ToggleSoundOff, ToggleSoundOn, StopThread, AddToList, Signal,
       MasterVolumeOfOne, LockAgain, Take, BeginUpdate, Scan, Post, UpdateAgain
  <1>a. /\ Unlooped(ReallyStopNow(r)) /\ Unlooped(ReallyPauseNow(r))
        /\ Unlooped(NewSound("live")) /\ Agrees(NewSound("live"))
        /\ Unlooped(Finished(r)) /\ Agrees(Finished(r))
        /\ Agrees([r EXCEPT !.status = "unknown"])
        /\ \A st : Unlooped([r EXCEPT !.status = st])
        /\ \A l : Unlooped([r EXCEPT !.life = l])
        /\ Agrees(r) => /\ \A l : Agrees([r EXCEPT !.life = l])
                        /\ Agrees(ReallyStopNow(r)) /\ Agrees(ReallyPauseNow(r))
        /\ \A ok \in BOOLEAN :
              /\ Agrees(Initialised(r, ok)) /\ Unlooped(Initialised(r, ok))
              /\ Unlooped(ReallyResumeNow(Ready(r, ok)))
              /\ Agrees(r) => Agrees(ReallyResumeNow(Ready(r, ok)))
    BY <1>1, AgreeOps
  <1>4. sound \in [Sounds -> SoundState]
    BY DEF TypeOK
  <1>5. CASE EndInit
    <2>1. CASE current.s = s
      <3>1. PICK ok \in BOOLEAN : sound'[s] = Initialised(r, ok)
        BY <1>4, <1>5, <2>1 DEF EndInit, r
      <3> QED BY <3>1, <1>a
    <2>2. CASE current.s # s
      BY <1>1, <1>4, <1>5, <2>2 DEF EndInit, r
    <2> QED BY <2>1, <2>2
  <1>6. CASE Execute
    <2>1. current.c # "loop" /\ (current.c = "play" => m_sfx)
      BY <1>6, SFXAssumption DEF Execute, MatchInv, TypeOK
    <2>2. CASE current.s = s
      <3>1. sound'[s] = Effect(r)
        BY <1>4, <1>6, <2>2 DEF Execute, r
      <3> QED BY <3>1, <2>1, <1>1, AgreeEffect DEF r
    <2>3. CASE current.s # s
      BY <1>1, <1>4, <1>6, <2>3 DEF Execute, r
    <2> QED BY <2>2, <2>3
  <1>7. ASSUME ~EndInit, ~Execute
        PROVE  Unlooped(sound'[s]) /\ (Play(s) \/ (Agrees(r) => Agrees(sound'[s])))
    <2>1. CASE UNCHANGED sound
      BY <1>1, <2>1 DEF r
    <2>2. CASE ExecuteForAll
      <3>1. \/ sound'[s] \in {r, ReallyPauseNow(r)}
            \/ \E ok \in BOOLEAN : sound'[s] \in {r, ReallyResumeNow(Ready(r, ok))}
        BY <1>4, <2>2 DEF ExecuteForAll, ForAll, r
      <3> QED BY <3>1, <1>1, <1>a
    <2>3. CASE Destroy
      <3>1. sound'[s] \in {r, [r EXCEPT !.life = "freed"]}
        BY <1>4, <2>3 DEF Destroy, ForAll, r
      <3> QED BY <3>1, <1>1, <1>a
    <2>4. CASE BeginInit \/ ExecuteDelete \/ Erase \/ UpdatePlayingSFX
      <3>1. sound'[s] \in {r, [r EXCEPT !.status = "unknown"], ReallyStopNow(r),
                           [r EXCEPT !.life = "freed"], Finished(r)}
        BY <1>4, <2>4 DEF BeginInit, ExecuteDelete, Erase, UpdatePlayingSFX, r
      <3> QED BY <3>1, <1>1, <1>a
    <2>5. ASSUME NEW t \in Sounds, CreateSoundSource(t) \/ Play(t) \/ DeleteSFX(t)
          PROVE  Unlooped(sound'[s]) /\ (Play(s) \/ (Agrees(r) => Agrees(sound'[s])))
      <3>1. CASE s = t
        <4>1. \/ Play(s) /\ sound'[s] = [r EXCEPT !.status = "playing"]
              \/ sound'[s] \in {NewSound("live"), [r EXCEPT !.life = "deleted"]}
          BY <1>4, <2>5, <3>1 DEF CreateSoundSource, Play, DeleteSFX, r
        <4> QED BY <4>1, <1>a
      <3>2. CASE s # t
        <4>1. sound'[s] = r
          BY <1>4, <2>5, <3>2 DEF CreateSoundSource, Play, DeleteSFX, r
        <4> QED BY <4>1, <1>1
      <3> QED BY <3>1, <3>2
    <2> QED BY <1>3, <1>7, <2>1, <2>2, <2>3, <2>4, <2>5
  <1> QED BY <1>2, <1>5, <1>6, <1>7 DEF r

(* Whatever is to be played after a step was queued, or is being executed.  *)
LEMMA PendingStep ==
    ASSUME SFXAssumption, RaceOnly, TypeOK, MatchInv, [Next]_vars,
           NEW s \in Sounds, PlayPending(s)
    PROVE  PlayPending(s)' \/ Agrees(sound'[s])
  <1> DEFINE q == m_sfx_commands
  <1>1. CASE pc \in {"exec", "init", "effect"} /\ current.c = "play"
               /\ current.s = s
    BY <1>1, AgreeStep DEF PlayPending
  <1>2. ASSUME NEW i \in 1..Len(q), q[i].c = "play", q[i].s = s
        PROVE  PlayPending(s)'
    <2>1. CASE ~Take
      <3>1. i \in 1..Len(q') /\ q'[i] = q[i]
        BY <2>1, AppendFits
      <3> QED BY <1>2, <3>1 DEF PlayPending
    <2>2. CASE Take
      <3>1. /\ q # <<>> /\ Len(q) \in Nat \ {0} /\ Head(q) = q[1]
            /\ Len(Tail(q)) = Len(q) - 1
            /\ \A j \in 1..Len(Tail(q)) : Tail(q)[j] = q[j + 1]
        BY <1>2 DEF TypeOK
      <3>2. q[1].c # "exit"
        BY <1>2, <3>1 DEF MatchInv, CommandsFit
      <3>3. pc' = "exec" /\ current' = q[1] /\ q' = Tail(q)
        BY <2>2, <3>1, <3>2 DEF Take
      <3>4. CASE i = 1
        BY <1>2, <3>3, <3>4 DEF PlayPending
      <3>5. CASE i > 1
        <4>1. i - 1 \in 1..Len(q') /\ q'[i - 1] = q[i]
          BY <3>1, <3>3, <3>5
        <4> QED BY <1>2, <4>1 DEF PlayPending
      <3> QED BY <3>4, <3>5
    <2> QED BY <2>1, <2>2
  <1> QED BY <1>1, <1>2 DEF PlayPending

(* The sound thread takes a command: what is left in the queue still fits.  *)
LEMMA TakeFits ==
    ASSUME SFXAssumption, TypeOK, MatchInv, Take
    PROVE  /\ CommandsFit'
           /\ current' # None =>
                 current'.c # "loop" /\ (current'.c = "play" => m_sfx')
  <1> DEFINE q == m_sfx_commands
  <1>1. m_sfx' = m_sfx /\ stopping' = stopping
    BY DEF Take, mainVars
  <1>2. CASE q' = q /\ current' = current
    BY <1>1, <1>2 DEF MatchInv, CommandsFit
  <1>3. CASE q' = <<>> /\ current' = current
    <2>1. Len(q') = 0
      BY <1>3
    <2> QED BY <1>1, <1>3, <2>1 DEF MatchInv, CommandsFit
  <1>4. CASE q # <<>> /\ current' = Head(q) /\ q' = Tail(q)
    <2>1. /\ Len(q) \in Nat \ {0} /\ Len(q') = Len(q) - 1 /\ current' = q[1]
          /\ \A i \in 1..Len(q') : q'[i] = q[i + 1] /\ i + 1 \in 1..Len(q)
      BY <1>4 DEF TypeOK
    <2> HIDE DEF q
    <2>2. CommandsFit
      BY DEF MatchInv
    <2> QED BY <1>1, <2>1, <2>2 DEF CommandsFit, q
  <1> QED BY <1>2, <1>3, <1>4 DEF Take

\* In a game that neither loops a sound nor touches the options, the status of a
\* sound is what OpenAL does with it whenever no command for it is left: also if
\* play() set it while the thread was in init(), paused all, or took exit.
THEOREM StatusCorrect ==
    ASSUME SFXAssumption, RaceOnly
    PROVE  Spec => []StatusMatchesSource
  <1>1. Init => MatchInv
    <2> SUFFICES ASSUME Init PROVE MatchInv
      OBVIOUS
    <2>1. Len(m_sfx_commands) = 0
      BY DEF Init
    <2> QED BY <2>1 DEF Init, MatchInv, CommandsFit, Unlooped, Agrees, NewSound
  <1>2. TypeOK /\ MatchInv /\ [Next]_vars => MatchInv'
    <2> SUFFICES ASSUME TypeOK, MatchInv, [Next]_vars PROVE MatchInv'
      OBVIOUS
    <2>1. CommandsFit'
      BY AppendFits, TakeFits
    <2>2. current' # None =>
             current'.c # "loop" /\ (current'.c = "play" => m_sfx')
      BY RaceStep, TakeFits DEF MatchInv
    <2>3. ASSUME NEW s \in Sounds
          PROVE  Unlooped(sound'[s]) /\ (Agrees(sound'[s]) \/ PlayPending(s)')
      <3>1. CASE Play(s)
        <4>1. m_sfx_commands' = Append(m_sfx_commands, Cmd("play", s))
          BY <3>1 DEF Play, QueueCommand, Queued, Cmd
        <4>2. /\ Len(m_sfx_commands) + 1 \in 1..Len(m_sfx_commands')
              /\ m_sfx_commands'[Len(m_sfx_commands) + 1] = Cmd("play", s)
          BY <4>1 DEF TypeOK
        <4> QED BY <4>2, AgreeStep DEF PlayPending, Cmd
      <3>2. CASE ~Play(s)
        BY <3>2, AgreeStep, PendingStep DEF MatchInv
      <3> QED BY <3>1, <3>2
    <2> QED BY <2>1, <2>2, <2>3, RaceStep DEF MatchInv
  <1>3. TypeOK /\ MatchInv => StatusMatchesSource
    <2> SUFFICES ASSUME TypeOK, MatchInv, NEW s \in Sounds, ~Pending(s),
                        sound[s].source # "none", sound[s].status # "unknown"
                 PROVE  sound[s].source = sound[s].status
      BY DEF StatusMatchesSource
    <2>1. ~PlayPending(s)
      BY DEF Pending, PlayPending, TypeOK
    <2> QED BY <2>1 DEF MatchInv, Agrees
  <1> QED BY <1>1, <1>2, <1>3, TypeCorrect, PTL DEF Spec

=============================================================================
