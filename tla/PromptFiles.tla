----------------------------- MODULE PromptFiles ------------------------------
(***************************************************************************)
(* The skills that EgoPulse reads from the user's files: their catalogue   *)
(* in the system prompt of a turn (skills.rs, turn.rs build_system_prompt) *)
(* and a skill's instructions when the model asks for them (tools/mod.rs   *)
(* ActivateSkillTool). Nothing is cached: every read sees the files of     *)
(* that moment, which the user edits meanwhile. A scan of the directories  *)
(* is taken as one step.                                                   *)
(***************************************************************************)
EXTENDS Naturals, Sequences, FiniteSets, Functions

CONSTANTS
  SkillDirs,   \* the directories that may hold a SKILL.md, as [place, id]
  SkillFiles,  \* what the user may write there: [name, usable, version]
  MaxItems,    \* MAX_SKILLS_CATALOG_ITEMS
  MaxEdits     \* bounds the model: edits by the user

(* In the order discover_skill_dirs collects them.                         *)
SkillPlaces == <<"user", "workspace", "builtin">>
NoFile == [none |-> TRUE]
NotFound == [failed |-> TRUE]

ASSUME PromptConstants ==
  /\ SkillDirs \subseteq [place : Range(SkillPlaces), id : Nat]
  /\ \A f \in SkillFiles : f.usable \in BOOLEAN /\ f \notin {NoFile, NotFound}

VARIABLES
  skills,   \* the SKILL.md of every directory
  userDir,  \* whether workspace/skills exists
  prompt,   \* the catalogue a turn was told, and what was changed since
  skill,    \* the skill being activated: where it was found, what was read,
            \* and what was changed since it was found
  edits

promptVars == <<skills, userDir, prompt, skill, edits>>

NoPrompt == [catalog |-> [n \in {} |-> NoFile], changed |-> {}]
NoSkill == [at |-> "idle", name |-> 0, dir |-> NoFile, read |-> NoFile, changed |-> {}]

PromptInit ==
  /\ skills \in [SkillDirs -> SkillFiles \cup {NoFile}]
  /\ userDir \in BOOLEAN
  /\ \A d \in SkillDirs : d.place = "user" /\ skills[d] # NoFile => userDir
  /\ prompt = NoPrompt /\ skill = NoSkill /\ edits = 0

-------------------------------------------------------------------------------
(* Skills.                                                                 *)

Rank(place) == CHOOSE r \in DOMAIN SkillPlaces : SkillPlaces[r] = place

(* discover_skill_dirs: without the user's directory its path cannot be    *)
(* resolved, and the search ends after the workspace.                      *)
Scanned == IF userDir THEN Range(SkillPlaces) ELSE {"workspace"}

(* skill_is_available: platform and commands fit. A SKILL.md that cannot   *)
(* be parsed is as good as none, for the scan and for the reading after.   *)
Offers(name) ==
  {d \in SkillDirs :
     d.place \in Scanned /\ skills[d] # NoFile /\ skills[d].usable /\ skills[d].name = name}

(* The first one scanned; within a directory the file system's order.      *)
Before(d, e) == Rank(d.place) < Rank(e.place) \/ (d.place = e.place /\ d.id < e.id)

(* Mutant of Best: a later directory replaces the entry of an earlier one. *)
Best_Last(dirs) == CHOOSE d \in dirs : \A e \in dirs \ {d} : Before(e, d)

Best(dirs) == CHOOSE d \in dirs : \A e \in dirs \ {d} : Before(d, e)

Names == {f.name : f \in SkillFiles}
Discovered == [n \in {n \in Names : Offers(n) # {}} |-> Best(Offers(n))]

(* build_skills_catalog: the first names in the alphabet, no more than     *)
(* MaxItems of them.                                                       *)
Catalog ==
  LET all == DOMAIN Discovered
      visible == {n \in all : Cardinality({m \in all : m < n}) < MaxItems}
  IN [n \in visible |-> Discovered[n]]

-------------------------------------------------------------------------------
(* A turn, and the user.                                                   *)

BuildPrompt ==
  /\ prompt' = [catalog |-> Catalog, changed |-> {}]
  /\ UNCHANGED <<skills, userDir, skill, edits>>

(* load_skill_checked finds the skill's directory ...                      *)
FindSkill(name) ==
  /\ skill.at # "found"
  /\ skill' = IF name \in DOMAIN Discovered
              THEN [at |-> "found", name |-> name, dir |-> Discovered[name],
                    read |-> NoFile, changed |-> {}]
              ELSE [at |-> "told", name |-> name, dir |-> NoFile,
                    read |-> NotFound, changed |-> {}]
  /\ UNCHANGED <<skills, userDir, prompt, edits>>

(* ... and reads its file again, for the instructions.                     *)
ReadSkill ==
  /\ skill.at = "found"
  /\ skill' = [skill EXCEPT !.at = "told",
                 !.read = IF skills[skill.dir] = NoFile THEN NotFound ELSE skills[skill.dir]]
  /\ UNCHANGED <<skills, userDir, prompt, edits>>

(* The user changes what these directories offer.                          *)
ChangeSkills(dirs) ==
  /\ edits < MaxEdits /\ edits' = edits + 1
  /\ prompt' = [prompt EXCEPT !.changed = @ \cup dirs]
  /\ skill' = [skill EXCEPT !.changed = @ \cup dirs]

EditSkill(d, content) ==
  /\ d.place = "user" => userDir
  /\ content # skills[d]
  /\ skills' = [skills EXCEPT ![d] = content]
  /\ ChangeSkills({d})
  /\ UNCHANGED userDir

MakeUserDir ==
  /\ ~userDir
  /\ userDir' = TRUE
  /\ ChangeSkills({d \in SkillDirs : d.place # "workspace"})
  /\ UNCHANGED skills

PromptNext ==
  \/ BuildPrompt \/ ReadSkill \/ MakeUserDir
  \/ \E n \in Names : FindSkill(n)
  \/ \E d \in SkillDirs, c \in SkillFiles \cup {NoFile} : EditSkill(d, c)

PromptSpec == PromptInit /\ [][PromptNext]_promptVars

-------------------------------------------------------------------------------
(* Properties.                                                             *)

(* docs/30.egopulse/directory.md and skills.rs: a skill in the user's      *)
(* directory stands before one elsewhere in the workspace, and that before *)
(* a built-in one of the same name.                                        *)
Outranks(d, e) ==
  \/ d.place = "user" /\ e.place # "user"
  \/ d.place = "workspace" /\ e.place = "builtin"

(* Whatever is edited meanwhile: who outranks the skill that was activated *)
(* was put there since it was looked for, and so was whoever has a skill   *)
(* that was not found; its instructions are there and go by its name, and  *)
(* it is the one the prompt's catalogue lists, unless that very directory  *)
(* was changed in between. If it was, the file is read again all the same, *)
(* and what stands there now is given out under the old name.              *)
UserSkillsComeFirst ==
  skill.at = "told" =>
    /\ \A d \in Offers(skill.name) :
         skill.dir = NoFile \/ Outranks(d, skill.dir) => d \in skill.changed
    /\ skill.dir # NoFile /\ skill.dir \notin skill.changed =>
         skill.read # NotFound /\ skill.read.name = skill.name
    /\ skill.name \in DOMAIN prompt.catalog /\ skill.dir # prompt.catalog[skill.name] =>
         {skill.dir, prompt.catalog[skill.name]} \cap (prompt.changed \cup skill.changed) # {}

===============================================================================
