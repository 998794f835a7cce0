-------------------------------- MODULE Themes --------------------------------
(***************************************************************************)
(* config.py, tags.py and config_dialog.py: the themes, from the file of   *)
(* the configuration through its sections and the dictionaries that the    *)
(* dialog changes, and back.  DreamPie starts, shows the dialog, saves,    *)
(* ends, and comes back, perhaps in a newer version with more defaults.    *)
(* The file is text: not all names are read as they were written, and of   *)
(* what is written any beginning is left if DreamPie is stopped meanwhile. *)
(* Of an element of a theme only its foreground is modelled: a colour, or  *)
(* that of the default element.                                            *)
(***************************************************************************)
EXTENDS Naturals, FiniteSets, Functions

CONSTANTS
  Names,              \* bound: the names that themes may have, and their dictionaries
  Bracketed,          \* those with a ']', which ends the header of a section
  Padded, Stripped,   \* those that end in a space or have " ;", and the name as which they are
                      \* all read (bound: one) when they are the value of an option
  Colors, Unset,
  Cut,                \* what is not a colour, a truth value or a theme's name, as its end is missing
  DEFAULT,            \* the element that always has a colour
  Elements,           \* the other elements of a theme
  NewElements,        \* those that the newer version adds
  Dark,               \* the current theme of default_config
  NewThemes,          \* the themes that the newer version's default_config adds
  None

\* All that the theorems ask of the constants.
ConstantsFit ==
  /\ IsFiniteSet(Names) /\ Dark \in Names /\ NewThemes \subseteq Names /\ None \notin Names
  /\ Dark \notin NewThemes /\ ({Dark} \cup NewThemes) \cap (Bracketed \cup Padded) = {}
  /\ Stripped \in Names \ Padded
  /\ Cut \notin Names \cup Colors \cup {Unset, None} /\ Cut \notin BOOLEAN /\ Colors # {}

VARIABLES
  newer,      \* whether it is the newer version
  pc,         \* "off", "starting" or "saving" while the file is written, "running", "dialog"
  file,       \* what the file has, as it was written, or Unreadable
  config,     \* what the parser has: the name of the current theme and the sections, each with
              \* is-active and the options of a theme's elements
  themes,     \* self.themes: the theme dictionaries of the dialog by name; a dictionary is one of Names
  store,      \* what is in them
  rows,       \* self.themes_list
  cursor,     \* the row of the cursor
  cur_theme,
  seen        \* ghost: the themes that the user has, and the current one, or None if they
              \* are not what was read from the file

dialog == <<themes, store, rows, cursor, cur_theme>>
vars == <<newer, pc, file, config, dialog, seen>>

-------------------------------------------------------------------------------
(* config.py and tags.py *)

\* The elements of tag_desc.
tag_desc(new) == {DEFAULT} \cup Elements \cup (IF new THEN NewElements ELSE {})

\* The sections of default_config.
DefaultThemes(new) == {Dark} \cup (IF new THEN NewThemes ELSE {})

DefaultColors(new) == [e \in tag_desc(new) |-> IF e = DEFAULT THEN CHOOSE c \in Colors : TRUE ELSE Unset]

\* f over the defaults of g.
Over(f, g) == [x \in DOMAIN f \cup DOMAIN g |-> IF x \in DOMAIN f THEN f[x] ELSE g[x]]

Empty == [current |-> None, sections |-> <<>>]

\* The parser raises at the last line, which is cut.
Unreadable == [current |-> None, sections |-> [n \in {Cut} |-> [active |-> Cut, options |-> <<>>]]]

default_config(new) ==
  [current |-> Dark,
   sections |-> [n \in DefaultThemes(new) |-> [active |-> TRUE, options |-> DefaultColors(new)]]]

\* What is read from the file is put over the defaults, option by option.
Loaded(new, f) ==
  LET d == default_config(new).sections
      read == DOMAIN f.sections \ Bracketed
      Section(n) == IF n \notin read THEN d[n]
                    ELSE IF n \notin DOMAIN d THEN f.sections[n]
                    ELSE [active |-> f.sections[n].active,
                          options |-> Over(f.sections[n].options, d[n].options)]
  IN  [current |-> IF f.current = None THEN Dark ELSE IF f.current \in Padded THEN Stripped ELSE f.current,
       sections |-> [n \in DOMAIN d \cup read |-> Section(n)]]

get_theme_names(c) == {n \in DOMAIN c.sections : c.sections[n].active = TRUE}

\* What may be left of a section at the end of the file: its header, or some of its options, of
\* which one may be cut.  (With no options at all is-active is missing, and cannot be got unless
\* it is of the defaults: then it is as if there was no section.)
Beginning(section, some, last, color) ==
  [active |-> section.active,
   options |-> [e \in some |-> IF e = last THEN color ELSE section.options[e]]]

Beginnings(section) ==
  {[active |-> Cut, options |-> <<>>]}
  \cup UNION {{Beginning(section, some, last, color) :
                  some \in SUBSET DOMAIN section.options, color \in Colors \cup {Cut}} :
                 last \in {None} \cup DOMAIN section.options}

\* What may be left of the file: some sections, and of the last one the beginning. (The order
\* of the sections is not modelled.)
Prefix(c, whole, last, beginning) ==
  [current |-> c.current,
   sections |-> [n \in whole \cup {last} |-> IF n = last THEN beginning ELSE c.sections[n]]]

Prefixes(c) ==
  {Empty, Unreadable, c}
  \cup {[current |-> name, sections |-> <<>>] : name \in Names \cup {Cut}}
  \cup UNION {{Prefix(c, whole, last, b) :
                  whole \in SUBSET DOMAIN c.sections, b \in Beginnings(c.sections[last])} :
                 last \in DOMAIN c.sections}

\* The themes of a file are read as they were written.
Kept(f) == f.current \notin Padded /\ get_theme_names(f) \cap Bracketed = {}

\* Mutations of the definitions that follow, each the mark of a plausible slip
\* in the code, have an underscore in their names and are used by no other
\* definition: TLC refutes a property with each of them.

\* The sections are removed and not put back.
remove_themes_gone(c) ==
  [c EXCEPT !.sections = Restrict(@, DOMAIN @ \ get_theme_names(c))]

\* Sections stay, with is-active = False, or the defaults would come back.
remove_themes(c) ==
  [c EXCEPT !.sections = [n \in DOMAIN @ |->
     IF @[n].active = TRUE THEN [active |-> FALSE, options |-> <<>>] ELSE @[n]]]

\* set_theme of all the themes of the dialog.
set_themes(c, new, t, s) ==
  [c EXCEPT !.sections =
     Over([n \in DOMAIN t |-> [active |-> TRUE, options |-> Restrict(s[t[n]], tag_desc(new))]], @)]

\* The themes that the user has by a configuration.
ThemesOf(c) ==
  [current |-> c.current, themes |-> [n \in get_theme_names(c) |-> c.sections[n].options]]

\* get_theme() gets all that it reads.
HasAll(c, n) ==
  /\ n \in get_theme_names(c) /\ DOMAIN c.sections[n].options = tag_desc(newer)
  /\ Cut \notin Range(c.sections[n].options)

NoDialog ==
  /\ themes = <<>> /\ store = <<>> /\ rows = {} /\ cursor = None
  /\ cur_theme = None

Init ==
  /\ newer = FALSE /\ pc = "off" /\ file = Empty /\ config = Empty /\ NoDialog
  /\ seen = ThemesOf(default_config(FALSE))

\* Config(): it is loaded, and saved at once; a last line that cannot be read raises, and there
\* is no DreamPie. save() opens the file, which makes it empty, and writes it. What a newer
\* version brings the user gets, but for what has the name of a theme that is there or was removed.
Start ==
  /\ pc = "off" /\ file # Unreadable /\ pc' = "starting"
  /\ config' = Loaded(newer, file) /\ file' = Empty
  /\ seen' = (IF Kept(file) THEN seen ELSE None)
  /\ UNCHANGED <<newer, dialog>>

\* get_theme() raises if the theme that is to be shown is not there, was removed, or lacks an
\* element, and there is no window.
Written ==
  /\ pc \in {"starting", "saving"} /\ file' = config
  /\ IF HasAll(config, config.current)
     THEN pc' = "running" /\ UNCHANGED config
     ELSE pc' = "off" /\ config' = Empty
  /\ UNCHANGED <<newer, dialog, seen>>

\* It is stopped while the file is written: if it is empty, the user has the defaults.
Crash ==
  /\ pc \in {"starting", "saving"} /\ pc' = "off"
  /\ config' = Empty
  /\ \E f \in Prefixes(config) :
       /\ file' = f
       /\ seen' = IF f = Empty THEN ThemesOf(default_config(newer))
                   ELSE IF f = config THEN seen ELSE None
  /\ UNCHANGED <<newer, dialog>>

Quit ==
  /\ pc = "running" /\ pc' = "off" /\ config' = Empty
  /\ UNCHANGED <<newer, file, dialog, seen>>

\* A newer version is installed. Its new elements come to the themes of default_config.
Upgrade ==
  /\ pc = "off" /\ ~newer /\ newer' = TRUE
  /\ IF seen = None THEN UNCHANGED seen
     ELSE LET removed == DOMAIN file.sections \ DOMAIN seen.themes
              old == [n \in DOMAIN seen.themes |->
                        IF n \in DefaultThemes(TRUE) THEN Over(seen.themes[n], DefaultColors(TRUE))
                        ELSE seen.themes[n]]
              new == [n \in NewThemes \ removed |-> DefaultColors(TRUE)]
          IN  seen' = [current |-> seen.current, themes |-> Over(old, new)]
  /\ UNCHANGED <<pc, file, config, dialog>>

-------------------------------------------------------------------------------
(* config_dialog.py *)

\* The dialog shows up with the active themes, each a dictionary of its own, the
\* cursor on the current one; get_theme_names() or get_theme() raises, and there is
\* no dialog, if any lacks is-active or an element.
Open ==
  /\ pc = "running"
  /\ \A n \in DOMAIN config.sections : config.sections[n].active # Cut
  /\ \A n \in get_theme_names(config) : HasAll(config, n)
  /\ pc' = "dialog"
  /\ LET names == get_theme_names(config)
     IN  /\ themes' = [n \in names |-> n]
         /\ store' = [n \in names |-> config.sections[n].options]
         /\ rows' = names /\ cursor' = config.current
         /\ cur_theme' = config.current
  /\ UNCHANGED <<newer, file, config, seen>>

\* The user goes to an element, and with it cur_tag, and sets it with the radio buttons and
\* the colour button; the default element's radio buttons are not sensitive.
ChangeElement(cur_tag, c) ==
  /\ pc = "dialog" /\ (c = Unset => cur_tag # DEFAULT)
  /\ store' = [store EXCEPT ![cur_theme][cur_tag] = c]
  /\ UNCHANGED <<newer, pc, file, config, themes, rows, cursor, cur_theme, seen>>

on_themes_trv_cursor_changed(n) ==
  /\ pc = "dialog" /\ n \in rows
  /\ cursor' = n /\ cur_theme' = themes[n]
  /\ UNCHANGED <<newer, pc, file, config, themes, store, rows, seen>>

\* The dictionary is not copied.
on_copy_theme_btn_clicked_same(n) ==
  /\ pc = "dialog" /\ n \notin DOMAIN themes
  /\ themes' = [m \in DOMAIN themes \cup {n} |-> themes[IF m = n THEN cursor ELSE m]]
  /\ rows' = rows \cup {n} /\ cursor' = n /\ cur_theme' = themes'[n]
  /\ UNCHANGED <<newer, pc, file, config, store, seen>>

\* n: the name of the theme with a number that makes it new.
on_copy_theme_btn_clicked(n) ==
  /\ pc = "dialog" /\ n \notin DOMAIN themes
  /\ LET i == CHOOSE i \in Names : i \notin Range(themes)
     IN  /\ themes' = [m \in DOMAIN themes \cup {n} |-> IF m = n THEN i ELSE themes[m]]
         /\ store' = [j \in DOMAIN store \cup {i} |-> store[IF j = i THEN themes[cursor] ELSE j]]
  /\ rows' = rows \cup {n} /\ cursor' = n /\ cur_theme' = themes'[n]
  /\ UNCHANGED <<newer, pc, file, config, seen>>

\* The button is sensitive, and the key obeyed, with two themes or more. The
\* cursor goes to the first row, n, and with it the current theme.
delete_theme(n) ==
  /\ pc = "dialog" /\ Cardinality(rows) > 1 /\ n \in rows \ {cursor}
  /\ themes' = Restrict(themes, DOMAIN themes \ {cursor})
  /\ store' = Restrict(store, Range(themes'))
  /\ rows' = rows \ {cursor} /\ cursor' = n /\ cur_theme' = themes'[n]
  /\ UNCHANGED <<newer, pc, file, config, seen>>

\* The name of the cursor's row was edited.
on_theme_renamed(n) ==
  /\ pc = "dialog" /\ n \notin rows
  /\ themes' = [m \in (DOMAIN themes \ {cursor}) \cup {n} |-> themes[IF m = n THEN cursor ELSE m]]
  /\ rows' = (rows \ {cursor}) \cup {n} /\ cursor' = n
  /\ UNCHANGED <<newer, pc, file, config, store, cur_theme, seen>>

Close ==
  /\ themes' = <<>> /\ store' = <<>> /\ rows' = {} /\ cursor' = None
  /\ cur_theme' = None

Cancel ==
  /\ pc = "dialog" /\ pc' = "running" /\ Close
  /\ UNCHANGED <<newer, file, config, seen>>

\* The name of the current theme is not set.
Ok_current ==
  /\ pc = "dialog" /\ pc' = "saving" /\ file' = Empty /\ Close
  /\ config' = set_themes(remove_themes(config), newer, themes, store)
  /\ seen' = [current |-> config.current, themes |-> [n \in rows |-> store[themes[n]]]]
  /\ UNCHANGED newer

\* run(): the themes are written over the ones before, the current one is the one
\* whose dictionary is cur_theme, and the configuration is saved. What the user
\* has now is what the dialog showed.
Ok ==
  /\ pc = "dialog" /\ pc' = "saving" /\ file' = Empty /\ Close
  /\ config' = [set_themes(remove_themes(config), newer, themes, store) EXCEPT
                  !.current = CHOOSE n \in DOMAIN themes : themes[n] = cur_theme]
  /\ seen' = [current |-> cursor, themes |-> [n \in rows |-> store[themes[n]]]]
  /\ UNCHANGED newer

Next ==
  \/ Start \/ Written \/ Crash \/ Quit \/ Upgrade
  \/ Open \/ Cancel \/ Ok
  \/ \E e \in tag_desc(newer), c \in Colors \cup {Unset} : ChangeElement(e, c)
  \/ \E n \in Names :
       \/ on_themes_trv_cursor_changed(n) \/ on_copy_theme_btn_clicked(n)
       \/ delete_theme(n) \/ on_theme_renamed(n)

Spec == Init /\ [][Next]_vars

-------------------------------------------------------------------------------
\* What is seen in the dialog is what is changed: the rows are the names of the
\* themes, the current theme is the cursor's, and no two names are of one theme.
DialogAgrees ==
  pc = "dialog" =>
    /\ rows = DOMAIN themes /\ cursor \in rows /\ cur_theme = themes[cursor]
    /\ IsInjective(themes)

\* "Upon initialization, the loaded file is updated with the default values" (the
\* docstring of Config): if the file is not a beginning of what was written, the current theme
\* is one of the active ones, and those have all the elements that get_theme reads, after every
\* start of any version; only a theme that has not the name of one of default_config may have
\* those of the older version.  Whatever the file is, the theme that is shown has them all.
ThemesAreComplete ==
  /\ pc # "off" /\ seen # None =>
       /\ config.current \in get_theme_names(config)
       /\ \A n \in get_theme_names(config) :
            \/ HasAll(config, n)
            \/ n \notin DefaultThemes(newer) /\ DOMAIN config.sections[n].options = tag_desc(FALSE)
  /\ pc \in {"running", "dialog"} => HasAll(config, config.current)

\* The themes are those that the user saw last, over cancelled dialogs, restarts and a new
\* version: what was deleted or renamed does not come back.  They are not, until the next dialog,
\* if DreamPie was stopped while it wrote some of the file, or started with a name that is
\* not read as it is written.
ThemesAreTheUsers == pc \in {"running", "dialog", "saving"} /\ seen # None => ThemesOf(config) = seen
===============================================================================
