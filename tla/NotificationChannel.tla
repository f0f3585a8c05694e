------------------------- MODULE NotificationChannel -------------------------
(***************************************************************************)
(* The notification channel (internal/service/notification.go,             *)
(* internal/notify/config.go).  An administrator replaces or patches it;   *)
(* a request reads the stored configuration, twice when it is a patch, and *)
(* saves what it made of it later: no lock spans the steps of a request.   *)
(***************************************************************************)
EXTENDS Integers, FiniteSets

CONSTANTS Requests,  \* requests of administrators
          Plugins,   \* installed notification plugins
          Values     \* values of a credential

VARIABLES stored,    \* the setting "notification"
          request,   \* per request: its configuration and how far it is
          elsewhere

channelVars == <<stored, request>>

None == "none"
Unset == "unset" \* no channel named
Blank == <<>>    \* no value given
Plain == {<<v>> : v \in Values}

\* A secret is marked with what it was submitted for.
Secrets(owner) == {Blank} \cup {<<owner, v>> : v \in Values}
AllSecrets == UNION {Secrets(o) : o \in Plugins \cup {"telegram"}}

Configs == [channel : {None, "webhook", "telegram", "plugin"}, hook : {Blank} \cup Plain,
            token : AllSecrets, chat : {Blank} \cup Plain,
            plugin : Plugins \cup {None}, secret : AllSecrets]

Config(c, h, t, chat, p, s) ==
    [channel |-> c, hook |-> h, token |-> t, chat |-> chat, plugin |-> p, secret |-> s]
Hook(c, h) == Config(c, h, Blank, Blank, None, Blank)
Telegram(c, t, chat) == Config(c, Blank, t, chat, None, Blank)
Plugin(c, p, s) == Config(c, Blank, Blank, Blank, p, s)

Empty == Hook(None, Blank)

ChannelTypeOK ==
    /\ stored \in Configs
    /\ \A r \in Requests :
         /\ request[r].pc \in {"new", "resolved", "checked", "done"}
         /\ request[r].pc \in {"resolved", "checked"} =>
              [request[r].config EXCEPT !.channel = None] \in Configs

ChannelInit ==
    /\ stored = Empty
    /\ request = [r \in Requests |-> [pc |-> "new"]]

HookForms == {Hook(c, h) : c \in {Unset, "webhook"}, h \in {Blank} \cup Plain}
TelegramForms == {Telegram(c, t, h) :
    c \in {Unset, "telegram"}, t \in Secrets("telegram"), h \in {Blank} \cup Plain}
FormsOf(p) == {Plugin(c, p, s) : c \in {Unset, "plugin"}, s \in Secrets(p)}
PluginForms == UNION {FormsOf(p) : p \in Plugins}

\* What a form may carry: at most the fields of one channel, some of them blank;
\* a blank channel is left to the server.
Forms == HookForms \cup TelegramForms \cup PluginForms \cup {Empty, Plugin("plugin", None, Blank)}

\* Config.IsZero
Nothing == Hook(Unset, Blank)

Or(value, other) == IF value = Blank THEN other ELSE value

\* resolveNotificationPatch: the channel of a patch that names none.
PatchedChannel(patch, current) ==
    IF patch.channel # Unset THEN patch.channel
    ELSE IF patch.plugin \notin {None, current.plugin} THEN "plugin"
    ELSE IF current.channel # None THEN current.channel
    ELSE IF patch.token # Blank \/ patch.chat # Blank THEN "telegram"
    ELSE IF patch.plugin # None THEN "plugin" ELSE "webhook"

\* What is not given stays, within the same channel and the same plugin.
Resolved(patch, current) ==
    LET c == PatchedChannel(patch, current)
        p == IF c = "plugin" /\ current.channel = c /\ patch.plugin = None
             THEN current.plugin ELSE patch.plugin
        same == current.channel = c
    IN Config(c, IF c = "webhook" /\ same THEN Or(patch.hook, current.hook) ELSE patch.hook,
              patch.token,
              IF c = "telegram" /\ same THEN Or(patch.chat, current.chat) ELSE patch.chat, p,
              IF c = "plugin" /\ same /\ p = current.plugin
              THEN Or(patch.secret, current.secret) ELSE patch.secret)

\* Mutant: the secrets of the plugin before it are kept.
KeptOfAny(config, current) ==
    Or(config.secret, IF current.channel = "plugin" THEN current.secret ELSE Blank)

\* pluginSettings: a blank secret keeps the stored one of the same plugin.
KeptSecret(config, current) ==
    Or(config.secret,
       IF current.channel = "plugin" /\ current.plugin = config.plugin
       THEN current.secret ELSE Blank)

\* normalizeNotification up to the checks: the credentials of other channels go.
Normalized(config, current) ==
    LET c == IF config.channel = Unset THEN IF config.hook = Blank THEN None ELSE "webhook"
             ELSE config.channel
    IN CASE c = "telegram" -> Telegram(c, Or(config.token, current.token), config.chat)
         [] c = "webhook" -> Hook(c, config.hook)
         [] c = "plugin" -> Plugin(c, config.plugin, KeptSecret(config, current))
         [] c = None -> Empty

\* Config.Validate, and CheckSettings of a plugin that needs its secret.
Complete(config) ==
    CASE config.channel = "telegram" -> config.token # Blank /\ config.chat # Blank
      [] config.channel = "webhook" -> config.hook # Blank
      [] config.channel = "plugin" -> config.plugin # None /\ config.secret # Blank
      [] OTHER -> TRUE

\* PatchNotification, its first read
Resolve(r, patch) ==
    /\ request[r].pc = "new" /\ patch # Nothing
    /\ request' = [request EXCEPT ![r] = [pc |-> "resolved", config |-> Resolved(patch, stored)]]
    /\ UNCHANGED <<stored, elsewhere>>

Check(r, config) ==
    /\ request' = [request EXCEPT ![r] =
          IF Complete(Normalized(config, stored))
          THEN [pc |-> "checked", config |-> Normalized(config, stored)]
          ELSE [pc |-> "done"]]
    /\ UNCHANGED <<stored, elsewhere>>

\* normalizeNotification, the second read of a patch
Normalize(r) == request[r].pc = "resolved" /\ Check(r, request[r].config)

\* Mutant: what a form says is saved as it is.
ReplaceRaw(r, form) ==
    /\ request[r].pc = "new"
    /\ request' = [request EXCEPT ![r] = [pc |-> "checked", config |-> form]]
    /\ UNCHANGED <<stored, elsewhere>>

\* ReplaceNotification
Replace(r, form) == request[r].pc = "new" /\ Check(r, form)

SaveNotification(r) ==
    /\ request[r].pc = "checked"
    /\ stored' = request[r].config
    /\ request' = [request EXCEPT ![r] = [pc |-> "done"]]
    /\ UNCHANGED elsewhere

\* Whatever requests cross each other, a credential is only ever stored for the
\* service it was submitted for, and a configuration in force is complete
\* (notification.go:61-65, 102-104).
SecretsStayHome ==
    /\ stored.token # Blank => stored.channel = "telegram" /\ stored.token[1] = "telegram"
    /\ stored.secret # Blank => stored.channel = "plugin" /\ stored.secret[1] = stored.plugin
    /\ Complete(stored)

=============================================================================
