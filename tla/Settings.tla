------------------------------- MODULE Settings -------------------------------
(* scripts/configure_*.py: each registers the server in the settings of one   *)
(* agent, in files that the user owns and edits. All read a file, decide,     *)
(* keep the old bytes in a backup, write a temporary file beside it and       *)
(* replace. A file is a sequence of what the decisions tell apart: entries,   *)
(* lines or values, "ours" as registered, "old" under our name and at our     *)
(* address but out of date, "alien" under our name and somebody else's, and   *)
(* those that are none of our business. A run may die or fail anywhere, and   *)
(* the user may edit at any time. The index of droid's entries is left out.   *)
EXTENDS Naturals, Sequences, FiniteSets, SequencesExt, FiniteSetsExt

CONSTANTS Absent, MaxEdits, MaxLength

VARIABLES tool, settings, temporary, saved, configuring, outcome, written, raced, edits
settingsVars == <<tool, settings, temporary, saved, configuring, outcome, written, raced, edits>>

\* The files of a tool, in the order of its main().
FilesOf == [pi |-> <<"models">>, opencode |-> <<"models">>, omp |-> <<"models", "roles">>,
            hermes |-> <<"hermes">>, droid |-> <<"droid">>,
            codex |-> <<"catalog", "profile", "provider">>, qwen |-> <<"qwen">>, claude |-> <<"claude">>]
Files == {"models", "roles", "hermes", "droid", "catalog", "profile", "provider", "qwen", "claude"}

OfEntry == {"ours", "old", "alien"}
Title == {"title auto", "title local", "title other"}
Fast  == {"fast qwasar", "fast other"}
Items(file) ==
    CASE file = "models"   -> OfEntry \cup {"other"}
      [] file = "roles"    -> {"tiny qwasar", "tiny other", "tiny ours", "smol qwasar", "smol ours"}
      [] file = "hermes"   -> OfEntry \cup {"local"} \cup Title
      [] file = "droid"    -> OfEntry \cup {"other", "legacy"}
      [] file = "catalog"  -> OfEntry \cup {"other"}
      [] file = "profile"  -> {"provider ours", "provider other", "model ours", "model other",
                               "catalog ours", "catalog other", "line"}
      [] file = "provider" -> {"ours", "alien", "line"}
      [] file = "qwen"     -> OfEntry \cup {"other", "key"} \cup Fast
      [] file = "claude"   -> {"ours", "old", "alien", "line"}

AllItems == UNION {Items(file) : file \in Files}

\* No content of a file is like no file.
ASSUME SettingsAssumption == Absent \notin Seq(AllItems) /\ MaxLength \in Nat

\* Values of which a file has at most one; only lists name an entry twice.
Single(file) ==
    {Title, Fast, {"tiny qwasar", "tiny other", "tiny ours"}, {"smol qwasar", "smol ours"},
     {"provider ours", "provider other"}, {"model ours", "model other"}, {"catalog ours", "catalog other"}}
    \cup (IF file \in {"droid", "catalog", "qwen"} THEN {} ELSE {OfEntry})
IsDocument(file, d) ==
    /\ IsInjective(d)
    /\ \A group \in Single(file) : Cardinality(ToSet(d) \cap group) <= 1
Documents(file) == {d \in UNION {[1..n -> Items(file)] : n \in 0..MaxLength} : IsDocument(file, d)}

----
(* What a script makes of a file.                                             *)
KeepDoc     == [do |-> "keep", doc |-> <<>>]
RefuseDoc   == [do |-> "refuse", doc |-> <<>>]
WriteDoc(d) == [do |-> "write", doc |-> d]
WriteIfNew(d, new) == IF new = d THEN KeepDoc ELSE WriteDoc(new)

Has(d, item) == item \in ToSet(d)
Picked(x, some, items) == IF x \in items THEN Append(some, x) ELSE some
Only(d, items) ==
    LET only[n \in 0..Len(d)] == IF n = 0 THEN <<>> ELSE Picked(d[n], only[n - 1], items)
    IN  only[Len(d)]
Without(d, items) == Only(d, ToSet(d) \ items)
Swapped(d, old, new) == [i \in DOMAIN d |-> IF d[i] = old THEN new ELSE d[i]]
FirstOwn(d) == LET own == {i \in DOMAIN d : d[i] \in OfEntry} IN IF own = {} THEN "none" ELSE d[Min(own)]

\* Mutant: an entry of another program is added to, not replaced.
RegisteredTwice(d) == IF FirstOwn(d) = "ours" THEN d ELSE Append(d, "ours")

\* The entry takes the place of the one it replaces, or comes last.
Registered(d) == CASE FirstOwn(d) = "none" -> Append(d, "ours")
               [] FirstOwn(d) = "ours" -> d
               [] OTHER -> Swapped(d, FirstOwn(d), "ours")

\* configure_pi, configure_opencode, configure_omp: a mapping of providers.
Models(d) == IF FirstOwn(d) = "alien" THEN RefuseDoc ELSE WriteIfNew(d, Registered(d))

\* _pin_title_off_qwasar
TitlePinned(d) ==
    IF ~Has(d, "local") \/ ToSet(d) \cap {"title local", "title other"} # {} THEN d
    ELSE IF Has(d, "title auto") THEN Swapped(d, "title auto", "title local")
    ELSE Append(d, "title local")
\* configure_hermes
Hermes(d) == IF FirstOwn(d) = "alien" THEN RefuseDoc ELSE WriteIfNew(d, TitlePinned(Registered(d)))

\* _desired_models, _desired_catalog: ours first, and no other entry of its name.
Fronted(d, dropped) ==
    IF FirstOwn(d) = "alien" THEN RefuseDoc
    ELSE WriteIfNew(d, <<"ours">> \o Without(d, OfEntry \cup dropped))

\* _is_legacy_local_qwen: what is left of another server goes too.
Droid(d) == Fronted(d, {"legacy"})
\* configure_catalog
Catalog(d) == Fronted(d, {})

\* configure_roles: a role that is missing or ours goes to another model.
Role(d, mine, other, pinned) ==
    IF Has(d, mine) THEN Swapped(d, mine, pinned)
    ELSE IF ToSet(d) \cap {other, pinned} = {} THEN Append(d, pinned) ELSE d
Roles(d) == WriteIfNew(d, Role(Role(d, "tiny qwasar", "tiny other", "tiny ours"),
                               "smol qwasar", "smol other", "smol ours"))

\* _pin_fast_off_qwasar
FastPinned(d) ==
    IF Has(d, "fast other") \/ ~Has(d, "other") THEN d
    ELSE IF Has(d, "fast qwasar") THEN Swapped(d, "fast qwasar", "fast other")
    ELSE Append(d, "fast other")
\* configure_qwen_code
Qwen(d) ==
    LET keyed == IF Has(d, "key") THEN Registered(d) ELSE Append(Registered(d), "key")
    IN  IF FirstOwn(d) = "alien" THEN RefuseDoc ELSE WriteIfNew(d, FastPinned(keyed))

\* configure_profile
Template == <<"provider ours", "model ours", "catalog ours">>
Chosen == {"provider ours", "provider other", "model ours", "model other"}
Profile(d) ==
    IF ToSet(d) \cap Chosen = {} THEN WriteDoc(Template)
    ELSE IF ~Has(d, "provider ours") \/ ~Has(d, "model ours") THEN RefuseDoc
    ELSE IF Has(d, "catalog other") THEN WriteDoc(Swapped(d, "catalog other", "catalog ours"))
    ELSE IF Has(d, "catalog ours") THEN KeepDoc ELSE WriteDoc(Append(d, "catalog ours"))

\* configure_provider
Provider(d) ==
    IF Has(d, "alien") THEN RefuseDoc ELSE IF Has(d, "ours") THEN KeepDoc ELSE WriteDoc(Append(d, "ours"))

\* configure_claude: the whole file is ours.
Claude(d) ==
    IF d = <<"ours">> THEN KeepDoc
    ELSE IF Has(d, "alien") THEN RefuseDoc ELSE WriteDoc(<<"ours">>)

Decision(file, content) ==
    LET d == IF content = Absent THEN <<>> ELSE content
    IN  CASE file = "models"   -> Models(d)
          [] file = "roles"    -> Roles(d)
          [] file = "hermes"   -> Hermes(d)
          [] file = "droid"    -> Droid(d)
          [] file = "catalog"  -> Catalog(d)
          [] file = "profile"  -> Profile(d)
          [] file = "provider" -> Provider(d)
          [] file = "qwen"     -> Qwen(d)
          [] file = "claude"   -> Claude(d)

----
NotConfiguring == [step |-> "off", at |-> 0, original |-> <<>>, desired |-> <<>>]
MyFiles == ToSet(FilesOf[tool])
File    == FilesOf[tool][configuring.at]
NextFile == [NotConfiguring EXCEPT !.step = "read", !.at = configuring.at + 1]

SettingsInit ==
    /\ tool \in DOMAIN FilesOf
    /\ \E file \in ToSet(FilesOf[tool]) : \E d \in {Absent} \cup Documents(file) :
          settings = [f \in ToSet(FilesOf[tool]) |-> IF f = file THEN d ELSE Absent]
    /\ written = settings                                  \* what the user left in each file
    /\ temporary = Absent /\ saved = [f \in MyFiles |-> {}]
    /\ configuring = NotConfiguring /\ outcome = "none" /\ raced = {} /\ edits = 0

Configure ==
    /\ configuring.step = "off" /\ outcome # "registered"
    /\ configuring' = [NotConfiguring EXCEPT !.step = "read", !.at = 1] /\ outcome' = "running"
    /\ UNCHANGED <<tool, settings, temporary, saved, written, raced, edits>>

\* The last file is done.
LastFile ==
    /\ configuring.step = "read" /\ configuring.at > Len(FilesOf[tool])
    /\ configuring' = NotConfiguring /\ outcome' = IF outcome = "running" THEN "registered" ELSE "none"
    /\ UNCHANGED <<tool, settings, temporary, saved, written, raced, edits>>

ReadSettings ==
    /\ configuring.step = "read" /\ configuring.at <= Len(FilesOf[tool])
    /\ LET d == Decision(File, settings[File]) IN
         \/ d.do = "keep"   /\ configuring' = NextFile /\ UNCHANGED outcome
         \/ d.do = "refuse" /\ configuring' = NotConfiguring /\ outcome' = "ended"
         \/ /\ d.do = "write" /\ UNCHANGED outcome
            /\ configuring' = [configuring EXCEPT !.step = IF settings[File] = Absent THEN "make" ELSE "backup",
                                  !.original = settings[File], !.desired = d.doc]
    /\ UNCHANGED <<tool, settings, temporary, saved, written, raced, edits>>

Backup ==
    /\ configuring.step = "backup"
    /\ saved' = [saved EXCEPT ![File] = @ \cup {configuring.original}] /\ configuring' = [configuring EXCEPT !.step = "make"]
    /\ UNCHANGED <<tool, settings, temporary, outcome, written, raced, edits>>

MakeTemporary ==
    /\ configuring.step = "make" /\ temporary' = <<"cut off">>
    /\ configuring' = [configuring EXCEPT !.step = "fill"]
    /\ UNCHANGED <<tool, settings, saved, outcome, written, raced, edits>>

FillTemporary ==
    /\ configuring.step = "fill" /\ temporary' = configuring.desired /\ configuring' = [configuring EXCEPT !.step = "replace"]
    /\ UNCHANGED <<tool, settings, saved, outcome, written, raced, edits>>

Replace ==
    /\ configuring.step = "replace"
    /\ settings' = [settings EXCEPT ![File] = temporary] /\ temporary' = Absent
    /\ configuring' = NextFile
    /\ UNCHANGED <<tool, saved, outcome, written, raced, edits>>

\* An operation of the file system fails: finally takes the temporary away.
Fail ==
    /\ configuring.step \in {"backup", "make", "fill", "replace"}
    /\ configuring' = NotConfiguring /\ temporary' = Absent /\ outcome' = "ended"
    /\ UNCHANGED <<tool, settings, saved, written, raced, edits>>

\* The process is killed: the temporary stays, under a name that is never used again.
Die ==
    /\ configuring.step # "off" /\ configuring' = NotConfiguring /\ temporary' = Absent /\ outcome' = "ended"
    /\ UNCHANGED <<tool, settings, saved, written, raced, edits>>

\* The user adds something to a file or takes its first item away; `raced` are
\* the files edited after a run had read them. An edit before the first run is
\* another initial state.
UserEdit ==
    /\ edits < MaxEdits /\ (edits = 0 => outcome # "none")
    /\ \E f \in MyFiles :
         /\ settings[f] # Absent
         /\ \E d \in {Append(settings[f], x) : x \in Items(f)}
                     \cup (IF settings[f] = <<>> THEN {} ELSE {Tail(settings[f])}) :
              /\ IsDocument(f, d) /\ Len(d) <= MaxLength + 1
              /\ settings' = [settings EXCEPT ![f] = d] /\ written' = [written EXCEPT ![f] = d]
         /\ raced' = IF configuring.step \notin {"off", "read"} /\ f = File THEN raced \cup {f} ELSE raced \ {f}
    /\ edits' = edits + 1 /\ outcome' = "none"
    /\ UNCHANGED <<tool, temporary, saved, configuring>>

SettingsNext ==
    \/ Configure \/ LastFile \/ ReadSettings \/ Backup \/ MakeTemporary \/ FillTemporary
    \/ Replace \/ Fail \/ Die \/ UserEdit

SettingsSpec == SettingsInit /\ [][SettingsNext]_settingsVars

----
\* What is none of our business: all that no script may change.
Theirs == {"other", "local", "line", "title other", "fast other", "tiny other", "provider other", "model other"}
OfTheUser(file, d) ==
    IF d = Absent \/ file = "claude" \/ (file = "profile" /\ ToSet(d) \cap Chosen = {}) THEN <<>>
    ELSE Only(d, Theirs)

\* What the user left in a file is there or in a backup, and the foreign part of it in place.
KeptOf(f) ==
    /\ written[f] \in {Absent, settings[f]} \cup saved[f]
    /\ LET kept == OfTheUser(f, written[f])
       IN  settings[f] # Absent => Only(settings[f], ToSet(kept)) = kept
Settled == outcome = "registered" => \A f \in MyFiles : Decision(f, settings[f]).do = "keep"

(* However runs are cut short, what the user left in a file is still there or  *)
(* in a backup, and the foreign part of it is in the file, in its order; what  *)
(* a run has registered, another run would leave as it is. Only an edit made   *)
(* between the read and the replace is lost (configure_*.py, `original`).      *)
(* Two files are replaced as a whole and have no foreign part: Claude's        *)
(* environment, and a Codex profile that chooses neither a provider nor a      *)
(* model. What stood in them is in the backup only.                            *)
SettingsKept == (\A f \in MyFiles \ raced : KeptOf(f)) /\ Settled
=============================================================================
