------------------------------ MODULE GuildSync -----------------------------
(***************************************************************************)
(* The commands that lay out the guild: /rolesync (syncLaunchRoles),       *)
(* /automodsync (syncAutoMod) and /guildsync (syncLaunchGuild), and the    *)
(* channel cache of the bot (refreshChannels), which /guildsync and every  *)
(* Ready event of the gateway fill.                                        *)
(*                                                                         *)
(* Each command lists what the guild has, then creates what is missing,    *)
(* one REST call after the other.  discordgo runs every event on a         *)
(* goroutine of its own and nothing excludes two commands, a command and a *)
(* refresh, or a command and the people who edit the same guild by hand.   *)
(*                                                                         *)
(* Roles, rules, categories and channels are kept by name with the number  *)
(* of copies the guild has.  The bot holds ids: it knows a copy, and the   *)
(* copy it knows may be gone.                                              *)
(***************************************************************************)
EXTENDS LaunchPlan

CONSTANTS
    Names,      \* the part of the tables an instance looks at
    Handlers,   \* the handlers that may run at once
    MaxCopies,  \* bound: copies of one name
    MaxEdits    \* bound: edits people make by hand

ASSUME ConstantsAssumption ==
    /\ Names \subseteq UNION {ToSet(FullPlan(c)) : c \in {"rolesync", "automodsync", "guildsync"}}
    /\ MaxCopies \in Nat /\ MaxEdits \in Nat

Commands == {"rolesync", "automodsync", "guildsync"}

Planned(cmd) == ToSet(FullPlan(cmd)) \cap Names

Cached == channelKeys \cap Names

VARIABLES
    guild,    \* copies of each name the guild has
    cache,    \* Bot.channelIDs: whether the bot knows a channel
    handler,  \* the handlers
    edits     \* edits made by hand so far

guildVars == <<guild, cache, handler, edits>>

(* The id of a copy: not known, of a copy that exists, of one deleted. *)
Ids == {"", "live", "gone"}

Steps == {"idle", "list", "create", "refresh", "store", "reply"}

(* The fields below the line are history: what a reader of the reply would *)
(* want to know and the code does not record.                              *)
Handler == [cmd     : Commands \cup {"ready", ""},
            step    : Steps,
            have    : SUBSET Names,    \* names it need not create
            refused : SUBSET Names,    \* rules Discord refused
            ids     : [Names -> Ids],  \* category and channel ids it holds
            ok      : BOOLEAN,         \* the reply reports no error
            \* ----
            lost    : SUBSET Names,    \* planned names deleted since the command began
            rival   : BOOLEAN,         \* planned names it does not know of were created since it listed
            blind   : BOOLEAN]         \* the refresh failed, or another one overwrote it

Nothing == [name \in Names |-> ""]

Idle == [cmd |-> "", step |-> "idle", have |-> {}, refused |-> {}, ids |-> Nothing,
         ok |-> FALSE, lost |-> {}, rival |-> FALSE, blind |-> FALSE]

Present(names) == {name \in names : guild[name] > 0}

(* The names of the plan the handler has neither seen nor tried ... *)
Missing(h) == Planned(h.cmd) \ (h.have \cup h.refused)

(* ... and the first of them. *)
NextMissing(h) ==
    LET plan == FullPlan(h.cmd)
        missing == Missing(h)
        left == {i \in DOMAIN plan : plan[i] \in missing}
    IN  IF missing = {} THEN "" ELSE plan[Min(left)]

Replied(h, ok) == [h EXCEPT !.step = "reply", !.ok = ok]

-----------------------------------------------------------------------------
GuildInit ==
    /\ guild = [name \in Names |-> 0]
    /\ cache = [name \in Cached |-> ""]
    /\ handler = [h \in Handlers |-> Idle]
    /\ edits = 0

(* The handler goes on; nothing outside it changes. *)
Continue(h, next) ==
    /\ handler' = [handler EXCEPT ![h] = next]
    /\ UNCHANGED <<guild, cache, edits>>

(* An admin issues a command, or the gateway says it is ready. *)
Start(h, cmd) ==
    /\ handler[h].step = "idle"
    /\ Continue(h, [Idle EXCEPT !.cmd = cmd, !.step = IF cmd = "ready" THEN "refresh" ELSE "list"])

(* GuildRoles, AutoModerationRules or GuildChannels. *)
List(h) ==
    LET cmd == handler[h].cmd
    IN  /\ handler[h].step = "list"
        /\ \/ Continue(h, Replied(handler[h], FALSE))
           \/ Continue(h, [handler[h] EXCEPT
                             !.step = "create",
                             !.have = Present(Planned(cmd)),
                             !.ids = [name \in Names |->
                                IF name \in Present(Planned(cmd) \cap Categories)
                                THEN "live" ELSE ""]])

(* Mutant: a created name is not remembered; a retry makes another copy. *)
RememberNothing(h, name) == h

(* The name just created is had, and a category's id is its parent's. *)
Remember(h, name) ==
    [h EXCEPT !.have = @ \cup {name},
              !.ids[name] = IF name \in Categories THEN "live" ELSE @]

(* History: the handlers that have listed without this new copy of a name. *)
CreatedBehind(name) ==
    [g \in Handlers |->
        [handler[g] EXCEPT !.rival =
            @ \/ (handler[g].step = "create" /\ name \in Planned(handler[g].cmd))]]

(* A channel is created under its category, which must still exist. *)
HasParent(h, name) ==
    name \in ToSet(LayoutOrder) \ Categories /\ ParentOf(name) \in Names =>
        handler[h].ids[ParentOf(name)] = "live"

Create(h) ==
    LET name == NextMissing(handler[h])
    IN  /\ handler[h].step = "create"
        /\ name # ""
        /\ HasParent(h, name)
        /\ guild[name] < MaxCopies
        /\ guild' = [guild EXCEPT ![name] = @ + 1]
        /\ handler' = [CreatedBehind(name) EXCEPT ![h] = Remember(handler[h], name)]
        /\ UNCHANGED <<cache, edits>>

(* Discord creates it and the answer is lost.  The client calls again, as  *)
(* discordgo does after "bad gateway", or gives up (CreateFails).          *)
CreateLost(h) ==
    LET name == NextMissing(handler[h])
    IN  /\ handler[h].step = "create"
        /\ name # ""
        /\ HasParent(h, name)
        /\ guild[name] < MaxCopies
        /\ guild' = [guild EXCEPT ![name] = @ + 1]
        /\ handler' = CreatedBehind(name)
        /\ UNCHANGED <<cache, edits>>

(* Mutant: any call that fails is passed over, as if the name were there. *)
CreateFailsSilent(h) ==
    LET name == NextMissing(handler[h])
    IN  /\ handler[h].step = "create"
        /\ name # ""
        /\ \/ Continue(h, [handler[h] EXCEPT !.have = @ \cup {name}])
           \/ Continue(h, Replied(handler[h], FALSE))

(* Mutant: the error is dropped and the command reports success. *)
CreateFailsUnreported(h) ==
    LET name == NextMissing(handler[h])
    IN  /\ handler[h].step = "create"
        /\ name # ""
        /\ \/ /\ name \in RuleNames
              /\ Continue(h, [handler[h] EXCEPT !.refused = @ \cup {name}])
           \/ Continue(h, Replied(handler[h], TRUE))

(* The call fails: the command stops where it is and says so, except that  *)
(* a rule refused with "missing access" is noted and passed over.          *)
CreateFails(h) ==
    LET name == NextMissing(handler[h])
    IN  /\ handler[h].step = "create"
        /\ name # ""
        /\ \/ /\ name \in RuleNames
              /\ Continue(h, [handler[h] EXCEPT !.refused = @ \cup {name}])
           \/ Continue(h, Replied(handler[h], FALSE))

(* Mutant: the cache is left as it is. *)
AllCreatedNoRefresh(h) ==
    /\ handler[h].step = "create"
    /\ NextMissing(handler[h]) = ""
    /\ Continue(h, Replied(handler[h], TRUE))

(* Nothing is missing any more; /guildsync refreshes the cache. *)
AllCreated(h) ==
    /\ handler[h].step = "create"
    /\ NextMissing(handler[h]) = ""
    /\ Continue(h, IF handler[h].cmd = "guildsync"
                   THEN [handler[h] EXCEPT !.step = "refresh", !.ids = Nothing]
                   ELSE Replied(handler[h], TRUE))

(* refreshChannels: Guild and GuildChannels, either of which may fail ... *)
RefreshList(h) ==
    /\ handler[h].step = "refresh"
    /\ \/ Continue(h, Replied([handler[h] EXCEPT !.blind = TRUE], TRUE))
       \/ Continue(h, [handler[h] EXCEPT !.step = "store",
             !.ids = [name \in Names |-> IF name \in Present(Cached) THEN "live" ELSE ""]])

(* ... and the assignment of the new map, which no lock protects. *)
RefreshStore(h) ==
    /\ handler[h].step = "store"
    /\ cache' = [name \in Cached |-> handler[h].ids[name]]
    /\ handler' = [g \in Handlers |->
                     IF g = h THEN Replied(handler[g], TRUE)
                     ELSE [handler[g] EXCEPT !.blind = @ \/ handler[g].step = "reply"]]
    /\ UNCHANGED <<guild, edits>>

Finish(h) ==
    /\ handler[h].step = "reply"
    /\ Continue(h, Idle)

HandlerStep(h) ==
    \/ List(h)
    \/ Create(h)
    \/ CreateLost(h)
    \/ CreateFails(h)
    \/ AllCreated(h)
    \/ RefreshList(h)
    \/ RefreshStore(h)
    \/ Finish(h)

-----------------------------------------------------------------------------
(* The people who own the guild. *)

CreateByHand(name) ==
    /\ edits < MaxEdits
    /\ guild[name] < MaxCopies
    /\ guild' = [guild EXCEPT ![name] = @ + 1]
    /\ handler' = CreatedBehind(name)
    /\ edits' = edits + 1
    /\ UNCHANGED cache

(* Of several copies it may or may not be the one an id is of. *)
IdAfterDelete(id, last) == IF id = "live" THEN IF last THEN {"gone"} ELSE {"live", "gone"} ELSE {id}

DeleteByHand(name) ==
    LET last == guild[name] = 1
    IN  /\ edits < MaxEdits
        /\ guild[name] > 0
        /\ guild' = [guild EXCEPT ![name] = @ - 1]
        /\ IF name \in Cached
           THEN \E id \in IdAfterDelete(cache[name], last) : cache' = [cache EXCEPT ![name] = id]
           ELSE UNCHANGED cache
        /\ \E ids \in [Handlers -> Ids] :
              /\ \A g \in Handlers : ids[g] \in IdAfterDelete(handler[g].ids[name], last)
              /\ handler' = [g \in Handlers |->
                    IF handler[g].step = "idle" THEN handler[g]
                    ELSE [handler[g] EXCEPT !.ids[name] = ids[g], !.lost = @ \cup {name}]]
        /\ edits' = edits + 1

(* The process restarts: the cache and the handlers are gone. *)
Restart ==
    /\ cache' = [name \in Cached |-> ""]
    /\ handler' = [h \in Handlers |-> Idle]
    /\ UNCHANGED <<guild, edits>>

GuildNext ==
    \/ \E h \in Handlers :
          \/ \E cmd \in Commands \cup {"ready"} : Start(h, cmd)
          \/ HandlerStep(h)
    \/ \E name \in Names : CreateByHand(name) \/ DeleteByHand(name)
    \/ Restart

GuildSpec == GuildInit /\ [][GuildNext]_guildVars

-----------------------------------------------------------------------------
GuildTypeOK ==
    /\ guild \in [Names -> 0..MaxCopies]
    /\ cache \in [Cached -> Ids]
    /\ handler \in [Handlers -> Handler]
    /\ edits \in 0..MaxEdits

(* Every variable is well formed, and what a handler takes for existing    *)
(* exists or has been deleted since the command began: nothing it created, *)
(* and nothing Discord refused, is counted that is not there.              *)
GuildInv ==
    /\ GuildTypeOK
    /\ \A h \in Handlers :
          /\ handler[h].have \subseteq Present(Names) \cup handler[h].lost
          /\ handler[h].refused \subseteq RuleNames \ handler[h].have

(* "Unsupported names the rules Discord refused; the caller reports them   *)
(* instead of silently claiming success": when a command replies without   *)
(* an error, everything it is for exists, except the rules it names and    *)
(* what somebody has deleted since it began.                               *)
SyncedIsComplete ==
    \A h \in Handlers :
        handler[h].step = "reply" /\ handler[h].ok /\ handler[h].cmd \in Commands =>
            Planned(handler[h].cmd) \subseteq
                Present(Names) \cup handler[h].refused \cup handler[h].lost

(* A second copy of a name (which makes findRole find no role at all, so   *)
(* that no tier can be granted) is made by hand, or by a command that      *)
(* listed before the first was created by somebody else or by a call of    *)
(* its own whose answer was lost: a command that fails half way and is     *)
(* issued again duplicates nothing.                                        *)
DuplicateNeedsRival ==
    [][\A name \in Names :
          guild'[name] > guild[name] /\ guild[name] > 0 =>
              \/ edits' > edits
              \/ \E h \in Handlers : handler[h].rival /\ NextMissing(handler[h]) = name]_guildVars

(* When /guildsync has replied, the bot knows a living copy of each of the *)
(* channels it posts to: its messages do not silently go nowhere, unless   *)
(* the refresh failed or an older one was stored over it, or somebody      *)
(* deleted the channel.                                                    *)
SyncedIsCached ==
    \A h \in Handlers :
        /\ handler[h].step = "reply" /\ handler[h].ok
        /\ handler[h].cmd = "guildsync" /\ ~handler[h].blind
        => \A name \in Cached \ handler[h].lost : cache[name] = "live"

-----------------------------------------------------------------------------
(* The inductive invariant. *)

(* A command that is past its creations has or was refused all of its plan. *)
PlanIsThrough(h) == h.step \in {"refresh", "store"} \/ (h.step = "reply" /\ h.ok)

(* What a handler remembers, by how far it has come: while it creates, it  *)
(* has whatever of its plan exists, unless there is a rival; the ids it is *)
(* about to store are of channels that exist.                              *)
Remembers(h) ==
    /\ h.step = "idle" => h = Idle
    /\ h.step \in {"list", "create"} => h.cmd \in Commands
    /\ h.step = "list" => h.refused = {}
    /\ h.step = "create" /\ ~h.rival => Present(Planned(h.cmd)) \subseteq h.have
    /\ h.cmd \in Commands /\ PlanIsThrough(h) => Planned(h.cmd) \subseteq h.have \cup h.refused
    /\ h.step = "store" /\ h.cmd = "guildsync" =>
          \A name \in Cached \ h.lost : h.ids[name] = "live"

LaunchInv ==
    /\ GuildInv
    /\ \A h \in Handlers : Remembers(handler[h])
    /\ SyncedIsCached

=============================================================================
