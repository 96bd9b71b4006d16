--------------------------- MODULE SessionHandler ---------------------------
(***************************************************************************)
(* The server's sessions (src/src/session/session_handler.cc).             *)
(*                                                                         *)
(* One thread evaluates commands one after the other; CLEANUP is a command *)
(* too, sent by the watch dog.  Commands of several clients arrive in any  *)
(* order, the clock moves between them, forwards or backwards, and the     *)
(* loader thread of DataLoader, which this module extends, runs at the     *)
(* same time: new data becomes the engine's in CreateSession.              *)
(*                                                                         *)
(* The session map is the sequence of its keys, most recently used first,  *)
(* which is what LruCache promises.                                        *)
(***************************************************************************)
EXTENDS DataLoader, Integers, SequencesExt

CONSTANTS
  SessionIds,      \* ids that CreateNewSessionID may draw
  Configs,         \* configurations
  Keymap,          \* Keymap[c]: what KeyMapManager makes of configuration c
  ClientRequests,  \* values of commands::Request
  MaxSessions,     \* max_session_size_
  MinInterval,     \* --create_session_min_interval
  Interval,        \* SessionWatchDog::interval()
  CreateTimeout,   \* --last_create_session_timeout
  CommandTimeout,  \* --last_command_timeout
  Timeout,         \* --timeout; 0: no timeout
  MaxUndo,         \* kMultipleUndoMaxSize
  ClockGoesBack,   \* may the user set the clock back?
  MaxTime          \* bound on the clock

ASSUME HandlerAssumption ==
  /\ Configs # {} /\ ClientRequests # {} /\ SessionIds # {}
  /\ MaxSessions \in Nat \ {0, 1} /\ MaxUndo \in Nat \ {0}
  /\ {MinInterval, Interval, CreateTimeout, CommandTimeout, Timeout, MaxTime} \subseteq Nat
  /\ ClockGoesBack \in BOOLEAN

VARIABLES
  now,          \* Clock::GetAbslTime()
  status,       \* is_available_, and what made it false
  lru,          \* the keys of session_map_, head first
  sessions,     \* the values of session_map_
  emptyTime,    \* last_session_empty_time_
  cleanupTime,  \* last_cleanup_time_
  createTime,   \* last_create_session_time_
  config,       \* config_
  request,      \* request_
  keymap        \* key_map_manager_

timeVars == <<emptyTime, cleanupTime, createTime>>
settingVars == <<config, request, keymap>>
mapVars == <<lru, sessions>>
vars == <<loaderVars, now, status, mapVars, timeVars, settingVars>>

Past == -1   \* absl::InfinitePast()

Times == 0..MaxTime

Keymaps == {Keymap[c] : c \in Configs}

\* What UNDO brings back of an ImeContext, as far as the handler looks at it.
Contexts ==
  [lastCommand : Times, config : Configs, request : ClientRequests, keymap : Keymaps]

\* used is a history: the time of the session's creation or latest command.
Sessions ==
  [created : Times, lastCommand : Times \cup {Past}, alive : BOOLEAN,
   config : Configs, request : ClientRequests, keymap : Keymaps,
   data : Requests \cup {Null}, undo : Seq(Contexts), used : Times]

TypeOK ==
  /\ LoaderTypeOK
  /\ now \in Times
  /\ status \in {"available", "shutdown", "timeout"}
  /\ lru \in Seq(SessionIds) /\ IsInjective(lru) /\ Len(lru) <= MaxSessions
  /\ sessions \in [ToSet(lru) -> Sessions]
  /\ \A id \in ToSet(lru) : Len(sessions[id].undo) <= MaxUndo
  /\ {emptyTime, cleanupTime, createTime} \subseteq Times \cup {Past}
  /\ config \in Configs /\ request \in ClientRequests /\ keymap \in Keymaps

Init ==
  /\ LoaderInit
  /\ now = 0 /\ status = "available"
  /\ lru = <<>> /\ sessions = <<>>
  /\ emptyTime = now /\ cleanupTime = Past /\ createTime = Past
  /\ config \in Configs /\ request \in ClientRequests
  /\ keymap = Keymap[config]

-----------------------------------------------------------------------------
(* Helpers *)

\* At least d has passed since t: since InfinitePast, any duration has.
Elapsed(t, d) == t = Past \/ now - t >= d

\* The server thread takes the next command.
Ready == status = "available" /\ serverPc = "idle"

\* LruCache::MutableLookup.
Touched(id) == <<id>> \o RemoveAt(lru, CHOOSE i \in DOMAIN lru : lru[i] = id)

\* LruCache::Erase of several keys: the list of the others, in their order.
Without(ids) ==
  {l \in SeqOf(ToSet(lru) \ ids, Len(lru)) :
     /\ ToSet(l) = ToSet(lru) \ ids
     /\ \A a, b \in DOMAIN l : a < b =>
          \E i, j \in DOMAIN lru : i < j /\ l[a] = lru[i] /\ l[b] = lru[j]}

\* Mutant: the undo stack is kept.
UpdateSessionsKeepsUndo(ss, cfg, req) ==
  /\ config' = cfg /\ request' = req
  /\ keymap' = IF Keymap[cfg] = Keymap[config] THEN keymap ELSE Keymap[cfg]
  /\ sessions' = [id \in DOMAIN ss |->
       [ss[id] EXCEPT !.config = cfg, !.request = req, !.keymap = keymap']]

\* SessionHandler::UpdateSessions over the sessions ss.  Session::SetConfig,
\* SetRequest and SetTable clear the undo stack.
UpdateSessions(ss, cfg, req) ==
  /\ config' = cfg /\ request' = req
  /\ keymap' = IF Keymap[cfg] = Keymap[config] THEN keymap ELSE Keymap[cfg]
  /\ sessions' = [id \in DOMAIN ss |->
       [ss[id] EXCEPT !.config = cfg, !.request = req, !.keymap = keymap', !.undo = <<>>]]

\* Mutant: the idle time is not started when the last session goes.
DeleteSessionIDsUntimed(ids) ==
  /\ lru' \in Without(ids)
  /\ sessions' = [id \in DOMAIN sessions \ ids |-> sessions[id]]
  /\ UNCHANGED emptyTime

\* DeleteSessionID of every session in ids, all of which are in the map.
DeleteSessionIDs(ids) ==
  /\ lru' \in Without(ids)
  /\ sessions' = [id \in DOMAIN sessions \ ids |-> sessions[id]]
  /\ emptyTime' = IF emptyTime = Past /\ lru' = <<>> THEN now ELSE emptyTime

-----------------------------------------------------------------------------
(* Commands *)

\* SessionHandler::NewSession, after the engine's data is settled.
NewSession ==
  [created |-> now, lastCommand |-> Past, alive |-> TRUE, config |-> config,
   request |-> request, keymap |-> keymap, data |-> data', undo |-> <<>>, used |-> now]

\* Mutant: new data is taken over whether or not there are sessions.
CreateSessionReloads(id) ==
  LET kept == IF Len(lru) >= MaxSessions THEN Front(lru) ELSE lru
  IN
  /\ Ready
  /\ id \notin ToSet(kept)
  /\ createTime' = now
  /\ MaybeReloadEngine
  /\ lru' = <<id>> \o kept
  /\ UpdateSessions([i \in ToSet(lru') |-> IF i = id THEN NewSession ELSE sessions[i]],
                    config, request)
  /\ emptyTime' = Past
  /\ UNCHANGED <<mutexVars, highNotified, loaderPc, taken, serverPc, asked, now, status,
                 cleanupTime>>

\* A session that comes too soon after the last one is refused.  A full map
\* loses its least recently used session.  Only an empty map lets new data in.
CreateSession(id) ==
  LET kept == IF Len(lru) >= MaxSessions THEN Front(lru) ELSE lru
  IN
  /\ Ready
  /\ id \notin ToSet(kept)
  /\ ~(createTime # Past /\ now - createTime \in 0..(MinInterval - 1))
  /\ createTime' = now
  /\ IF kept = <<>> THEN MaybeReloadEngine ELSE UNCHANGED <<data, response>>
  /\ lru' = <<id>> \o kept
  /\ UpdateSessions([i \in ToSet(lru') |-> IF i = id THEN NewSession ELSE sessions[i]],
                    config, request)
  /\ emptyTime' = Past
  /\ UNCHANGED <<mutexVars, highNotified, loaderPc, taken, serverPc, asked, now, status,
                 cleanupTime>>

\* DELETE_SESSION; an unknown id is no error.
DeleteSession(id) ==
  /\ Ready
  /\ DeleteSessionIDs({id} \cap ToSet(lru))
  /\ UNCHANGED <<loaderVars, now, status, cleanupTime, createTime, settingVars>>

\* The session after a command at this time: it may clear its undo stack, or
\* push its context, whose time of the last command is already now.
Used(s) ==
  LET t == [s EXCEPT !.lastCommand = now, !.used = now]
      copy == [lastCommand |-> now, config |-> s.config, request |-> s.request,
               keymap |-> s.keymap]
      pushed == Append(s.undo, copy)
  IN {[t EXCEPT !.undo = u] :
        u \in {s.undo, <<>>, IF Len(pushed) > MaxUndo THEN Tail(pushed) ELSE pushed}}

\* SEND_KEY, SEND_COMMAND and TEST_SEND_KEY (which never pushes), answered
\* without a configuration.
SendKey(id) ==
  /\ Ready
  /\ id \in ToSet(lru)
  /\ lru' = Touched(id)
  /\ \E s \in Used(sessions[id]) : sessions' = [sessions EXCEPT ![id] = s]
  /\ UNCHANGED <<loaderVars, now, status, timeVars, settingVars>>

\* SEND_COMMAND with UNDO: the context on top of the stack replaces the current
\* one, with its time of the last command and its settings.
Undo(id) ==
  LET s == sessions[id]
      c == Last(s.undo)
  IN
  /\ Ready
  /\ id \in ToSet(lru) /\ s.undo # <<>>
  /\ lru' = Touched(id)
  /\ sessions' = [sessions EXCEPT ![id] =
       [s EXCEPT !.lastCommand = c.lastCommand, !.config = c.config,
                 !.request = c.request, !.keymap = c.keymap,
                 !.undo = Front(@), !.used = now]]
  /\ UNCHANGED <<loaderVars, now, status, timeVars, settingVars>>

\* SEND_KEY or SEND_COMMAND, when the session answers with a configuration:
\* MaybeUpdateConfig.
SendKeyWithConfig(id, cfg) ==
  /\ Ready
  /\ id \in ToSet(lru)
  /\ lru' = Touched(id)
  /\ UpdateSessions([sessions EXCEPT ![id].lastCommand = now, ![id].used = now], cfg, request)
  /\ UNCHANGED <<loaderVars, now, status, timeVars>>

\* SET_CONFIG, through MaybeUpdateConfig and Reload; with the configuration that
\* is set already, RELOAD and RELOAD_AND_WAIT.
SetConfig(cfg) ==
  /\ Ready
  /\ UpdateSessions(sessions, cfg, request)
  /\ UNCHANGED <<loaderVars, now, status, lru, timeVars>>

\* SET_REQUEST.
SetRequest(req) ==
  /\ Ready
  /\ UpdateSessions(sessions, config, req)
  /\ UNCHANGED <<loaderVars, now, status, lru, timeVars>>

\* SEND_ENGINE_RELOAD_REQUEST.
SendEngineReloadRequest(r) ==
  /\ Ready
  /\ StartNewDataBuildTask(r)
  /\ UNCHANGED <<now, status, mapVars, timeVars, settingVars>>

\* SHUTDOWN.
Shutdown ==
  /\ Ready
  /\ status' = "shutdown"
  /\ UNCHANGED <<loaderVars, now, mapVars, timeVars, settingVars>>

\* The time that the computer seems to have been suspended.
SuspendTime ==
  IF cleanupTime # Past /\ now - cleanupTime > 2 * Interval
    THEN now - cleanupTime - Interval
    ELSE 0

\* The sessions that Cleanup removes.
Expired(s) ==
  \/ ~s.alive
  \/ s.lastCommand = Past /\ Elapsed(s.created, SuspendTime + CreateTimeout)
  \/ s.lastCommand # Past /\ Elapsed(s.lastCommand, SuspendTime + CommandTimeout)

\* CLEANUP.
Cleanup ==
  /\ Ready
  /\ DeleteSessionIDs({id \in ToSet(lru) : Expired(sessions[id])})
  /\ status' = IF Timeout > 0 /\ Elapsed(emptyTime', SuspendTime + Timeout)
                 THEN "timeout" ELSE status
  /\ cleanupTime' = now
  /\ UNCHANGED <<loaderVars, now, createTime, settingVars>>

-----------------------------------------------------------------------------
(* The rest of the world *)

Tick ==
  /\ now' \in Times
  /\ now' = now + 1 \/ (ClockGoesBack /\ now' < now)
  /\ UNCHANGED <<loaderVars, status, mapVars, timeVars, settingVars>>

\* The application of a session terminates without a word.
ApplicationDies(id) ==
  /\ id \in ToSet(lru) /\ sessions[id].alive
  /\ sessions' = [sessions EXCEPT ![id].alive = FALSE]
  /\ UNCHANGED <<loaderVars, now, status, lru, timeVars, settingVars>>

Loading ==
  /\ LoaderStep \/ ServerStep
  /\ UNCHANGED <<now, status, mapVars, timeVars, settingVars>>

Next ==
  \/ \E id \in SessionIds :
       \/ CreateSession(id) \/ DeleteSession(id) \/ SendKey(id) \/ Undo(id)
       \/ ApplicationDies(id)
       \/ \E cfg \in Configs : SendKeyWithConfig(id, cfg)
  \/ \E cfg \in Configs : SetConfig(cfg)
  \/ \E req \in ClientRequests : SetRequest(req)
  \/ \E r \in Requests : SendEngineReloadRequest(r)
  \/ Shutdown \/ Cleanup \/ Tick \/ Loading

Spec == Init /\ [][Next]_vars

-----------------------------------------------------------------------------
(* Properties *)

\* The engine's data is never exchanged under a session: every session works
\* with the data it was created with (Session refers to the engine's modules).
EngineStable == \A id \in DOMAIN sessions : sessions[id].data = data

\* Whatever the order of SetConfig, SetRequest, configurations that sessions
\* set themselves, new sessions and UNDO: all sessions agree with the handler,
\* and the key map is the one of the configuration.  With it the types: among
\* them that a full session map makes room before the new session is in.
SettingsAgree ==
  /\ TypeOK
  /\ keymap = Keymap[config]
  /\ \A id \in DOMAIN sessions :
       LET s == sessions[id] IN <<s.config, s.request, s.keymap>> = <<config, request, keymap>>

\* The idle time is counted exactly while there is no session.
EmptyTimeExact == emptyTime = Past <=> lru # <<>>

\* "remove session if it is not accessed for" last_command_timeout seconds
\* (src/src/session/session_handler.cc): what Cleanup would take of sessions
\* whose application is alive has had no command for that long.
CleanupSparesActive ==
  \A id \in DOMAIN sessions :
    LET s == sessions[id] IN
    s.alive /\ s.lastCommand # Past /\ Expired(s) => now - s.used >= CommandTimeout

\* "shutdown server if there is no active session"
\* (src/src/session/session_handler.cc, above Cleanup).
TimeoutOnlyWhenEmpty == status = "timeout" => lru = <<>>
=============================================================================
