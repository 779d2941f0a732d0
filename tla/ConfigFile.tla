------------------------------ MODULE ConfigFile ------------------------------
(***************************************************************************)
(* egopulse.config.yaml and everything that writes it: the commands        *)
(* /provider and /model of every chat, PUT /api/config, and the setup      *)
(* wizard, which is a process of its own. A command reads the file, waits  *)
(* its turn and writes the whole file back; the environment's tokens are   *)
(* laid over what the file says and must not be written into it.           *)
(*                                                                         *)
(* Names, models, addresses and keys are members of small sets. Of a       *)
(* provider its address, key and default model are kept, of a channel its  *)
(* switch, token and override; labels, model lists, ports and limits are   *)
(* copied through and left out. Ids are trimmed and lowered when read.     *)
(***************************************************************************)
EXTENDS Naturals, FiniteSets, Functions

CONSTANTS
  Presets,      \* the wizard's providers: id -> [url, model]
  Models, Keys, \* the models and API keys that are ever chosen or typed
  FileTokens,   \* the tokens somebody wrote into the file or into the wizard
  Envs,         \* the environments the host may be started with
  FirstFile,    \* the file before the first step
  Writers,      \* the commands and requests, each served by a task of its own
  Asked,        \* what the writers may ask for
  None,         \* an absent setting
  MaxStarts     \* bound: starts of the host and of the wizard

ASSUME ConfigConstants ==
  /\ FirstFile # None => {"provider", "model", "providers", "channels"} \subseteq DOMAIN FirstFile
  /\ \A ask \in Asked : ask.kind \in {"provider", "provider reset", "model", "model reset", "put"}
  /\ \A ask \in Asked : ask.kind = "provider" => ask.id # None
  /\ \A ask \in Asked : ask.kind = "model" => ask.model # None

VARIABLES
  file,         \* the file on disk
  env,          \* the environment of the host
  host,         \* the host process: "down" or "up"
  writer,       \* the command each writer is serving
  wizard,       \* the setup wizard
  starts

configVars == <<file, env, host, writer, wizard, starts>>

Ids == DOMAIN Presets
Channels == {"web", "discord", "telegram"}
Scopes == Channels \cup {"global"}
Absent == [enabled |-> FALSE, token |-> None, provider |-> None, model |-> None]

Option(setting, otherwise) == IF setting = None THEN otherwise ELSE setting
Put(f, x, value) == [y \in {x} \cup DOMAIN f |-> IF y = x THEN value ELSE f[y]]

(* read_file_config, normalize_channels and the env overrides: a channel   *)
(* only the environment names exists too, and every channel remembers the  *)
(* token that stood in the file.                                           *)
Overridden(channels, e) ==
  LET named == DOMAIN channels \cup {c \in Channels : e.token[c] # None}
                 \cup (IF e.enabled = None THEN {} ELSE {"web"})
      FromFile(c) == IF c \in DOMAIN channels THEN channels[c] ELSE Absent
  IN [c \in named |->
       [enabled  |-> IF c = "web" THEN Option(e.enabled, FromFile(c).enabled) ELSE FromFile(c).enabled,
        token    |-> Option(e.token[c], FromFile(c).token),
        file     |-> FromFile(c).token,
        provider |-> FromFile(c).provider,
        model    |-> FromFile(c).model]]

Loaded(f, e) == [f EXCEPT !.channels = Overridden(f.channels, e)]

(* build_config: a remote provider may lack its key only where the caller  *)
(* edits the configuration or starts the host (`lenient`).                 *)
Loads(f, e, lenient) ==
  /\ f # None
  /\ f.provider \in DOMAIN f.providers
  /\ \A p \in DOMAIN f.providers :
       /\ f.providers[p].url # "bad"
       /\ lenient \/ f.providers[p].key # None \/ f.providers[p].url = "local"
  /\ \A c \in DOMAIN f.channels : f.channels[c].provider \in DOMAIN f.providers \cup {None}
  /\ LET channels == Overridden(f.channels, e)
     IN "web" \in DOMAIN channels /\ channels["web"].enabled => channels["web"].token # None

(* Mutant: the tokens that came with the environment are written as well.  *)
Saved_Effective(config) ==
  [config EXCEPT !.channels =
     [c \in DOMAIN config.channels |->
        [enabled  |-> config.channels[c].enabled,
         token    |-> config.channels[c].token,
         provider |-> config.channels[c].provider,
         model    |-> config.channels[c].model]]]

(* What save_yaml writes: of the two tokens of a channel, the file's.      *)
Saved(config) ==
  [config EXCEPT !.channels =
     [c \in DOMAIN config.channels |->
        [enabled  |-> config.channels[c].enabled,
         token    |-> config.channels[c].file,
         provider |-> config.channels[c].provider,
         model    |-> config.channels[c].model]]]

(* resolve_global_llm and resolve_llm_for_channel.                         *)
ResolveGlobal(config) ==
  [provider |-> config.provider, model |-> Option(config.model, config.providers[config.provider].model)]

(* Mutant: the global model goes before the channel's.                     *)
Resolve_GlobalFirst(config, scope) ==
  LET known == scope \in DOMAIN config.channels
      provider == IF known THEN Option(config.channels[scope].provider, config.provider) ELSE config.provider
      default == config.providers[provider].model
  IN IF scope = "global" THEN ResolveGlobal(config)
     ELSE [provider |-> provider,
           model |-> Option(config.model, IF known THEN Option(config.channels[scope].model, default) ELSE default)]

Resolve(config, scope) ==
  LET known == scope \in DOMAIN config.channels
      provider == IF known THEN Option(config.channels[scope].provider, config.provider) ELSE config.provider
      default == Option(config.model, config.providers[provider].model)
  IN IF scope = "global" THEN ResolveGlobal(config)
     ELSE [provider |-> provider,
           model |-> IF known THEN Option(config.channels[scope].model, default) ELSE default]
-----------------------------------------------------------------------------
(* What a command makes of the configuration.                              *)
Entry(config, scope) ==
  IF scope \in DOMAIN config.channels THEN config.channels[scope] ELSE Put(Absent, "file", None)
WithEntry(config, scope, entry) == [config EXCEPT !.channels = Put(@, scope, entry)]

SwitchProvider(config, scope, id) ==
  IF scope = "global" THEN [config EXCEPT !.provider = id, !.model = None]
  ELSE WithEntry(config, scope, [Entry(config, scope) EXCEPT !.provider = id, !.model = None])
ResetProvider(config, scope) ==
  IF scope \notin DOMAIN config.channels THEN config
  ELSE WithEntry(config, scope, [Entry(config, scope) EXCEPT !.provider = None, !.model = None])
SwitchModel(config, scope, model) ==
  IF scope = "global" THEN [config EXCEPT !.model = model]
  ELSE WithEntry(config, scope, [Entry(config, scope) EXCEPT !.model = model])
ResetModel(config, scope) ==
  IF scope = "global" THEN [config EXCEPT !.model = None]
  ELSE IF scope \notin DOMAIN config.channels THEN config
  ELSE WithEntry(config, scope, [Entry(config, scope) EXCEPT !.model = None])

(* apply_provider_updates: an entry that is known is changed where the     *)
(* request says so, a new one needs an address and a model.                *)
UpdateKey(current, update) ==
  CASE update = None -> current [] update = "*CLEAR*" -> None [] OTHER -> update
UpdateProvider(providers, id, update) ==
  IF id \in DOMAIN providers
  THEN [providers EXCEPT ![id] = [url |-> Option(update.url, @.url), key |-> UpdateKey(@.key, update.key),
                                  model |-> Option(update.model, @.model)]]
  ELSE IF None \in {update.url, update.model} THEN providers
  ELSE Put(providers, id, [url |-> update.url, key |-> UpdateKey(None, update.key), model |-> update.model])

(* api_put_config: an unknown default provider is passed over in silence.  *)
PutConfig(config, request) ==
  LET providers == IF request.update = None THEN config.providers
                   ELSE UpdateProvider(config.providers, request.id, request.update)
      base == [config EXCEPT !.model = request.model, !.providers = providers,
                             !.provider = IF request.provider \in DOMAIN providers THEN request.provider ELSE @]
      web == WithEntry(base, "web", [Entry(base, "web") EXCEPT !.enabled = request.enabled])
  IN IF request.override = None THEN web
     ELSE WithEntry(web, "discord", [Entry(web, "discord") EXCEPT !.provider = request.override])
PutIsRejected(config, request) ==
  /\ request.override # None
  /\ request.override \notin DOMAIN UpdateProvider(config.providers, request.id, request.update)

Changed(config, ask) ==
  CASE ask.kind = "provider"       -> SwitchProvider(config, ask.scope, ask.id)
    [] ask.kind = "provider reset" -> ResetProvider(config, ask.scope)
    [] ask.kind = "model"          -> SwitchModel(config, ask.scope, ask.model)
    [] ask.kind = "model reset"    -> ResetModel(config, ask.scope)
    [] ask.kind = "put"            -> PutConfig(config, ask)
-----------------------------------------------------------------------------
Idle == [at |-> "idle"]
Answered(w, reply) == writer' = [writer EXCEPT ![w] = [at |-> "answered", reply |-> reply]]
Failed(w) == writer' = [writer EXCEPT ![w] = [at |-> "failed"]]

(* The command's first reading of the file, and the answers that need no   *)
(* writing. A PUT has no such reading.                                     *)
Refused(config, ask) ==
  \/ ask.kind = "provider" /\ ask.id \notin DOMAIN config.providers
  \/ ask.kind = "provider reset" /\ ask.scope = "global"
Receive(w) ==
  /\ host = "up" /\ writer[w].at = "idle"
  /\ \E ask \in Asked :
       IF ask.kind # "put" /\ ~Loads(file, env, TRUE) THEN Failed(w)
       ELSE IF ask.kind # "put" /\ Refused(Loaded(file, env), ask) THEN Answered(w, None)
       ELSE writer' = [writer EXCEPT ![w] = [at |-> "checked", ask |-> ask]]
  /\ UNCHANGED <<file, env, host, wizard, starts>>

(* The second reading, and the change made to what was read.               *)
Change(w) ==
  /\ writer[w].at = "checked"
  /\ LET ask == writer[w].ask
         config == Loaded(file, env)
     IN IF ~Loads(file, env, TRUE) \/ (ask.kind = "put" /\ PutIsRejected(config, ask)) THEN Failed(w)
        ELSE writer' = [writer EXCEPT ![w] = [at |-> "changed", ask |-> ask, config |-> Changed(config, ask)]]
  /\ UNCHANGED <<file, env, host, wizard, starts>>

(* save_yaml under the lock of the process and of the file: the rename     *)
(* puts the whole new file in the old one's place.                         *)
Save(w) ==
  /\ writer[w].at = "changed"
  /\ file' = Saved(writer[w].config)
  /\ writer' = [writer EXCEPT ![w].at = "saved"]
  /\ UNCHANGED <<env, host, wizard, starts>>

(* The answer tells what a third reading resolves to; /model reset for all *)
(* channels answers from what it has saved.                                *)
Report(w) ==
  /\ writer[w].at = "saved"
  /\ LET ask    == writer[w].ask
         scope  == IF ask.kind = "put" THEN "global" ELSE ask.scope
         asSaved == ask.kind = "model reset" /\ scope = "global"
         config == IF asSaved THEN writer[w].config ELSE Loaded(file, env)
         llm    == Resolve(config, scope)
     IN IF ~asSaved /\ ~Loads(file, env, TRUE) THEN Failed(w)
        ELSE Answered(w, [kind |-> ask.kind, llm |-> llm,
                          default |-> config.providers[llm.provider].model])
  /\ UNCHANGED <<file, env, host, wizard, starts>>
-----------------------------------------------------------------------------
(* run_foreground and start_channels: a file that does not load, or leaves *)
(* no channel to start, ends the process at once.                          *)
HasToken(config, c) == config.channels[c].token # None
ActiveChannels(config) ==
  {c \in DOMAIN config.channels : config.channels[c].enabled /\ (c = "web" \/ HasToken(config, c))}
StartHost ==
  /\ host = "down" /\ starts < MaxStarts
  /\ \E e \in Envs :
       /\ env' = e
       /\ host' = IF Loads(file, e, TRUE) /\ ActiveChannels(Loaded(file, e)) # {} THEN "up" ELSE "down"
  /\ starts' = starts + 1
  /\ UNCHANGED <<file, writer, wizard>>
StopHost ==
  /\ host = "up"
  /\ host' = "down"
  /\ writer' = [w \in Writers |-> IF writer[w].at \in {"idle", "answered"} THEN writer[w] ELSE [at |-> "failed"]]
  /\ UNCHANGED <<file, env, wizard, starts>>
-----------------------------------------------------------------------------
(* load_existing_config: with a model of its own at the top level the file *)
(* is not asked for the provider's address and key.                        *)
ExistingFields ==
  LET channel(c) == IF file # None /\ c \in DOMAIN file.channels THEN file.channels[c] ELSE Absent
      bots == [c \in Channels \ {"web"} |-> [enabled |-> channel(c).enabled, token |-> channel(c).token]]
      id == IF file = None THEN CHOOSE p \in Ids : TRUE ELSE file.provider
      known == file # None /\ file.model = None /\ id \in DOMAIN file.providers
      preset == IF id \in Ids THEN Presets[id] ELSE [url |-> None, model |-> None]
  IN [provider |-> id,
      model |-> IF file # None /\ file.model # None THEN file.model
                ELSE IF known THEN file.providers[id].model ELSE preset.model,
      url   |-> IF known THEN file.providers[id].url ELSE preset.url,
      key   |-> IF known THEN file.providers[id].key ELSE None,
      bots  |-> bots]

OpenWizard ==
  /\ wizard.at = "closed" /\ starts < MaxStarts
  /\ starts' = starts + 1
  /\ wizard' = [at |-> "open", fields |-> ExistingFields, original |-> file]
  /\ UNCHANGED <<file, env, host, writer>>

(* A provider is picked from the presets and brings its model and address; *)
(* the other fields are typed.                                             *)
PickProvider ==
  /\ wizard.at = "open"
  /\ \E id \in Ids :
       wizard' = [wizard EXCEPT !.fields.provider = id, !.fields.model = Presets[id].model,
                                !.fields.url = Presets[id].url]
  /\ UNCHANGED <<file, env, host, writer, starts>>
EditField ==
  /\ wizard.at = "open"
  /\ \/ \E key \in Keys : wizard' = [wizard EXCEPT !.fields.key = key]
     \/ \E model \in Models : wizard' = [wizard EXCEPT !.fields.model = model]
     \/ \E token \in FileTokens :
          wizard' = [wizard EXCEPT !.fields.bots["discord"] = [enabled |-> TRUE, token |-> token]]
  /\ UNCHANGED <<file, env, host, writer, starts>>

FieldsAreValid(fields) ==
  /\ fields.url \in {"remote", "local"}
  /\ fields.model # None
  /\ fields.key # None \/ fields.url = "local"
  /\ \A c \in DOMAIN fields.bots : fields.bots[c].enabled => fields.bots[c].token # None

(* build_channel_configs: of the old channels only the token of the web    *)
(* page is looked up; `file` stays empty.                                  *)
SetupChannels(fields, original) ==
  LET web == IF original # None /\ "web" \in DOMAIN original.channels
             THEN original.channels["web"].token ELSE None
      enabled == {c \in DOMAIN fields.bots : fields.bots[c].enabled}
      Channel(token) == [Absent EXCEPT !.enabled = TRUE, !.token = token]
  IN [c \in enabled \cup {"web"} |->
        Put(Channel(IF c = "web" THEN Option(web, "generated") ELSE fields.bots[c].token), "file", None)]
SetupConfig(fields, original) ==
  [provider |-> fields.provider, model |-> fields.model,
   providers |-> [id \in {fields.provider} |->
     [url |-> fields.url, key |-> fields.key,
      model |-> IF id \in Ids THEN Presets[id].model ELSE fields.model]],
   channels |-> SetupChannels(fields, original)]

SaveSetup ==
  /\ wizard.at = "open" /\ FieldsAreValid(wizard.fields)
  /\ file' = Saved(SetupConfig(wizard.fields, wizard.original))
  /\ wizard' = [at |-> "closed"]
  /\ UNCHANGED <<env, host, writer, starts>>
CancelWizard ==
  /\ wizard.at = "open"
  /\ wizard' = [at |-> "closed"]
  /\ UNCHANGED <<file, env, host, writer, starts>>
-----------------------------------------------------------------------------
ConfigInit ==
  /\ file = FirstFile
  /\ env \in Envs
  /\ host = "down"
  /\ writer = [w \in Writers |-> Idle]
  /\ wizard = [at |-> "closed"]
  /\ starts = 0

ConfigNext ==
  \/ \E w \in Writers : Receive(w) \/ Change(w) \/ Save(w) \/ Report(w)
  \/ StartHost \/ StopHost
  \/ OpenWizard \/ PickProvider \/ EditField \/ SaveSetup \/ CancelWizard

ConfigSpec == ConfigInit /\ [][ConfigNext]_configVars
-----------------------------------------------------------------------------
TokensIn(f) == IF f = None THEN {} ELSE {f.channels[c].token : c \in DOMAIN f.channels} \ {None}

(* A token that came with the environment is never written to the file,    *)
(* whatever a command changes while the token is laid over the file's own. *)
EnvTokensStayOut == TokensIn(file) \subseteq FileTokens \cup TokensIn(FirstFile)

(* What a command was told holds for its scope when it answers, as long as *)
(* the file is the one it wrote: nothing of the change is lost on the way  *)
(* through the file and the environment.                                   *)
TakesEffect(ask, llm) ==
  CASE ask.kind = "provider" -> llm.provider = ask.id
    [] ask.kind = "model"    -> llm.model = ask.model
    [] OTHER                 -> TRUE
AnswersComeTrue ==
  [][\A w \in Writers :
       writer[w].at = "saved" /\ file = Saved(writer[w].config) /\ writer[w]'.at = "answered"
         => TakesEffect(writer[w].ask, writer[w]'.reply.llm)]_configVars

(* docs/30.egopulse/config.md, 7.2: running the wizard again keeps an      *)
(* existing auth_token, and generates one where there is none.             *)
SetupKeepsTokens ==
  [][ wizard.at = "open" /\ wizard'.at = "closed" /\ file' # file
        => LET old == wizard.original.channels["web"].token IN
           file'.channels["web"].token = Option(old, "generated") ]_configVars
===============================================================================
