------------------------------- MODULE Profiles -------------------------------
(***************************************************************************)
(* The settings of a model, the profiles that are saved of them and the    *)
(* templates that models share (profiles/).  A dictionary that is sent or   *)
(* stored is [values, odd]: what is set, and what is null or of the wrong   *)
(* type.  Settings are what their dictionary says: what is not set is not   *)
(* in the domain.                                                          *)
(*                                                                          *)
(* The manager holds the records and its lock; it is not here yet.  It saves *)
(* a record under its name, and gives no template a name that another has.  *)
(* Descriptions are carried along, and left out.                           *)
(***************************************************************************)
EXTENDS Naturals

CONSTANTS
    Bodies,      \* dictionaries that are sent
    Names, Displays,
    ValidNames,  \* those that ValidateProfileName lets pass
    NoName,      \* the display name that is empty, and the source that is none
    LastSave     \* bound: records are saved at times before this one

VARIABLES
    settings,    \* of the model
    profiles,    \* per name: [display, created, updated, settings, source: a template]
    templates,   \* per name: [display, created, updated, settings]
    today

profileVars == <<settings, profiles, templates, today>>

-----------------------------------------------------------------------------
(* The fields.                                                             *)

Universal ==
    {"max_context_window", "max_tokens", "temperature", "top_p", "top_k", "min_p",
     "repetition_penalty", "presence_penalty", "force_sampling", "enable_thinking",
     "preserve_thinking", "thinking_budget_enabled", "thinking_budget_tokens",
     "reasoning_parser", "guided_grammar_enabled", "guided_grammar",
     "max_tool_result_tokens", "chat_template_kwargs", "forced_ct_kwargs"}
ModelSpecific ==
    {"turboquant_kv_enabled", "turboquant_kv_bits", "turboquant_skip_last",
     "dflash_enabled", "dflash_draft_model", "dflash_draft_quant_enabled",
     "dflash_draft_quant_weight_bits", "dflash_draft_quant_activation_bits",
     "dflash_draft_quant_group_size", "dflash_max_ctx", "dflash_in_memory_cache",
     "dflash_in_memory_cache_max_entries", "dflash_in_memory_cache_max_bytes",
     "dflash_ssd_cache", "dflash_ssd_cache_max_bytes", "dflash_draft_window_size",
     "dflash_draft_sink_size", "dflash_verify_mode", "mtp_enabled", "vlm_mtp_enabled",
     "vlm_mtp_draft_model", "vlm_mtp_draft_block_size", "specprefill_enabled",
     "specprefill_draft_model", "specprefill_keep_pct", "specprefill_threshold",
     "index_cache_freq"}
Excluded ==
    {"is_pinned", "is_default", "display_name", "description", "model_alias",
     "model_type_override", "active_profile_name", "ttl_seconds", "trust_remote_code"}
Known == Universal \cup ModelSpecific \cup Excluded

\* NewModelSettings: what always has a value, and which (sizes in GiB).
OnByDefault == {"turboquant_skip_last", "dflash_in_memory_cache"}
Sizes == {"turboquant_kv_bits", "dflash_in_memory_cache_max_entries",
          "dflash_in_memory_cache_max_bytes", "dflash_ssd_cache_max_bytes"}
Flags ==
    {"force_sampling", "thinking_budget_enabled", "guided_grammar_enabled",
     "turboquant_kv_enabled", "turboquant_skip_last", "specprefill_enabled",
     "dflash_enabled", "dflash_in_memory_cache", "dflash_ssd_cache", "mtp_enabled",
     "vlm_mtp_enabled", "is_pinned", "is_default", "trust_remote_code"}
Default(f) ==
    CASE f \in Flags -> f \in OnByDefault
      [] f = "dflash_in_memory_cache_max_bytes" -> 8
      [] f = "dflash_ssd_cache_max_bytes" -> 20
      [] OTHER -> 4
Always == Flags \cup Sizes

NewModelSettings == [f \in Always |-> Default(f)]

-----------------------------------------------------------------------------
(* Dictionaries.                                                           *)

Within(dict, fields) == [f \in DOMAIN dict \cap fields |-> dict[f]]
Restricted(body, fields) ==
    [values |-> Within(body.values, fields), odd |-> Within(body.odd, fields)]

FilterUniversalFields(body) == Restricted(body, Universal)
FilterProfileFields(body) == Restricted(body, Universal \cup ModelSpecific)

\* A dictionary on top of settings, with the name of a profile on top of both.
Overlaid(s, body, name) ==
    [values |-> [f \in (DOMAIN s \ DOMAIN body.odd) \cup DOMAIN body.values
                         \cup {"active_profile_name"} |->
                    IF f = "active_profile_name" THEN name
                    ELSE IF f \in DOMAIN body.values THEN body.values[f] ELSE s[f]],
     odd |-> Within(body.odd, DOMAIN body.odd \ {"active_profile_name"})]

\* Two ways to decode speculatively, or one and what it cannot stand.
Validate(s) ==
    /\ ~(s["mtp_enabled"] /\ s["dflash_enabled"])
    /\ ~(s["mtp_enabled"] /\ s["turboquant_kv_enabled"])
    /\ s["vlm_mtp_enabled"] =>
          /\ ~s["dflash_enabled"] /\ ~s["specprefill_enabled"]
          /\ ~s["mtp_enabled"] /\ ~s["turboquant_kv_enabled"]

\* FromModelSettingsDict: a null is as good as nothing, a wrong type is an error, and a
\* field that is not known is ignored.
FromDict(body) ==
    [f \in Always \cup (DOMAIN body.values \cap Known) |->
        IF f \in DOMAIN body.values THEN body.values[f] ELSE Default(f)]
Accepts(body) ==
    /\ \A f \in DOMAIN body.odd \cap Known : body.odd[f] # "wrong"
    /\ Validate(FromDict(body))

-----------------------------------------------------------------------------
(* Records.                                                                *)

Shown(display, name) == IF display = NoName THEN name ELSE display

BuildProfileRecord(name, display, body, source, now) ==
    [display |-> Shown(display, name), created |-> now, updated |-> now,
     settings |-> FilterProfileFields(body), source |-> source]

TemplateRecord(name, display, body, created, now) ==
    [display |-> Shown(display, name), created |-> created, updated |-> now,
     settings |-> FilterUniversalFields(body)]

CreatedAt_Now(name, now) == now
CreatedAt(name, now) == IF name \in DOMAIN templates THEN templates[name].created ELSE now

\* What is optional is a sequence of none or one.
UpdateTemplateRecord(old, display, body, now) ==
    [display |-> IF display = <<>> THEN old.display ELSE display[1],
     created |-> old.created, updated |-> now,
     settings |-> IF body = <<>> THEN old.settings ELSE FilterUniversalFields(body[1])]

Optional(values) == {<<>>} \cup {<<v>> : v \in values}

Filed(records, name, record) ==
    [n \in DOMAIN records \cup {name} |-> IF n = name THEN record ELSE records[n]]
Unfiled(records, name) == Within(records, DOMAIN records \ {name})

-----------------------------------------------------------------------------
Nothing == [n \in {} |-> n]
ProfilesInit ==
    /\ settings = NewModelSettings /\ profiles = Nothing /\ templates = Nothing
    /\ today = 0

EditSettings(body) ==
    /\ Accepts(body) /\ settings' = FromDict(body)
    /\ UNCHANGED <<profiles, templates, today>>

\* A record is saved.
Saves == today < LastSave /\ today' = today + 1

SaveProfile(name, display, body) ==
    /\ Saves /\ name \in ValidNames
    /\ profiles' = Filed(profiles, name, BuildProfileRecord(name, display, body, NoName, today))
    /\ UNCHANGED <<settings, templates>>

ProfileFromTemplate(name, template) ==
    /\ Saves /\ name \in ValidNames /\ template \in DOMAIN templates
    /\ profiles' = Filed(profiles, name,
                        BuildProfileRecord(name, templates[template].display,
                                           templates[template].settings, template, today))
    /\ UNCHANGED <<settings, templates>>

\* BuildTemplateRecord and UpsertTemplateRecord: the manager uses the first where
\* there is no template of that name.
SaveTemplate(name, display, body) ==
    /\ Saves /\ name \in ValidNames
    /\ templates' = Filed(templates, name, TemplateRecord(name, display, body,
                                                         CreatedAt(name, today), today))
    /\ UNCHANGED <<settings, profiles>>

\* (The name that a template has already is not validated again.)
UpdateTemplate(name, newName, display, body) ==
    /\ Saves /\ name \in DOMAIN templates
    /\ newName # name => newName \in ValidNames /\ newName \notin DOMAIN templates
    /\ templates' = Filed(Unfiled(templates, name), newName,
                         UpdateTemplateRecord(templates[name], display, body, today))
    /\ UNCHANGED <<settings, profiles>>

ApplyProfile(name) ==
    /\ name \in DOMAIN profiles
    /\ LET body == Overlaid(settings, profiles[name].settings, name)
       IN Accepts(body) /\ settings' = FromDict(body)
    /\ UNCHANGED <<profiles, templates, today>>

ProfilesNext ==
    \/ \E body \in Bodies : EditSettings(body)
    \/ \E name \in Names, display \in Displays, body \in Bodies :
          SaveProfile(name, display, body) \/ SaveTemplate(name, display, body)
    \/ \E name, template \in Names : ProfileFromTemplate(name, template)
    \/ \E name, newName \in Names, display \in Optional(Displays), body \in Optional(Bodies) :
          UpdateTemplate(name, newName, display, body)
    \/ \E name \in Names : ApplyProfile(name)

ProfilesSpec == ProfilesInit /\ [][ProfilesNext]_profileVars

-----------------------------------------------------------------------------
\* What was saved of a template never makes the settings of a model illegal, whatever
\* they have become: applying it fails for values of the wrong type alone.
TemplatesAlwaysApply ==
    \A name \in DOMAIN profiles :
        LET held == profiles[name].settings IN
        profiles[name].source # NoName /\ (\A f \in DOMAIN held.odd : held.odd[f] # "wrong")
            => Accepts(Overlaid(settings, held, name))

\* A profile changes what it holds and nothing else, and what identifies a model or
\* makes it trusted it does not hold: but for the name of the active profile.
Same(s, t, f) == (f \in DOMAIN s <=> f \in DOMAIN t) /\ (f \in DOMAIN s => s[f] = t[f])
IdentityUntouched ==
    [][\A name \in Names : ApplyProfile(name) =>
          LET held == profiles[name].settings IN
          /\ settings'["active_profile_name"] = name
          /\ \A f \in Known \ {"active_profile_name"} :
                f \in Excluded \/ f \notin DOMAIN held.values \cup DOMAIN held.odd
                    => Same(settings, settings', f)]_profileVars

\* A template is as old as it was, however often it is replaced or updated, and under
\* whichever name; its update is the last that happened to it.
DatesKept ==
    [][/\ \A name \in DOMAIN templates \cap DOMAIN templates' :
             templates'[name].created = templates[name].created
       /\ \A name \in DOMAIN templates \ DOMAIN templates' :
             \E other \in DOMAIN templates' \ DOMAIN templates :
                templates'[other].created = templates[name].created
       /\ \A name \in DOMAIN templates' :
             /\ templates'[name].created <= templates'[name].updated
             /\ name \notin DOMAIN templates \/ templates'[name] # templates[name]
                  => templates'[name].updated = today]_profileVars

\* Settings stay legal and keep their identity, whatever templates and profiles do to
\* them, and templates keep theirs.
SettingsSound == []TemplatesAlwaysApply /\ IdentityUntouched /\ DatesKept
=============================================================================
