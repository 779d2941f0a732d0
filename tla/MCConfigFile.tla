----------------------------- MODULE MCConfigFile -----------------------------
(***************************************************************************)
(* ConfigFile for TLC on its own: a file with one provider and the page's  *)
(* token, an environment with no tokens, one command and the wizard.       *)
(***************************************************************************)
EXTENDS ConfigFile

MCPresets == [openai |-> [url |-> "remote", model |-> "gpt"]]
MCEnvs ==
  {[enabled |-> None, token |-> [web |-> None, discord |-> None, telegram |-> None]]}
MCFirstFile ==
  [provider |-> "openai", model |-> None,
   providers |-> [openai |-> [url |-> "remote", key |-> "k1", model |-> "gpt"]],
   channels |-> [web |-> [enabled |-> TRUE, token |-> "t1", provider |-> None, model |-> None]]]
MCAsked == [kind: {"model"}, scope: {"global"}, model: {"llama"}]
===============================================================================
