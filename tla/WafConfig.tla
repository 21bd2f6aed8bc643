------------------------------ MODULE WafConfig ------------------------------
(***************************************************************************)
(* api/config_routes.py, set_proxy_config: the settings of the web         *)
(* firewall in a file that the API rewrites and the firewall reads.        *)
(*                                                                         *)
(* A request reads the file, changes some settings and writes the whole    *)
(* under another name, the same for all requests, before it moves it into  *)
(* place.  The process may stop in between.  Whatever goes wrong when the  *)
(* file is read, the request goes on with the defaults.                    *)
(***************************************************************************)
EXTENDS Naturals

CONSTANTS
  Savers,        \* requests
  Settings,      \* names of settings
  Bodies,        \* what requests ask for: settings -> values
  DefaultValue,  \* _WAF_DEFAULTS
  Torn,          \* the content of a file somebody is still writing
  NoFile

Values == {DefaultValue} \cup UNION {{body[s] : s \in DOMAIN body} : body \in Bodies}

ASSUME WafAssumption ==
  /\ \A body \in Bodies : DOMAIN body \subseteq Settings
  /\ Torn # NoFile /\ Torn \notin [Settings -> Values] /\ NoFile \notin [Settings -> Values]

VARIABLES
  file,          \* runtime.json: setting -> value, Torn or NoFile
  tmp,           \* runtime.json.tmp
  saver,         \* request -> [step, named: settings of its body, misread: did reading fail?,
                 \*             config, into: the file it has open]
  wanted,        \* history: setting -> the value it was last given by a request that succeeded
  dropped,       \* history: settings that a request which could not read the file wrote over since
  met            \* history: requests that overlapped

wafVars == <<file, tmp, saver, wanted, dropped, met>>

Defaults == [s \in Settings |-> DefaultValue]
NotSaving ==
  [step |-> "none", named |-> {}, misread |-> FALSE, config |-> Defaults, into |-> "none"]

WafInit ==
  /\ file = NoFile /\ tmp = NoFile
  /\ saver = [r \in Savers |-> NotSaving]
  /\ wanted = Defaults /\ dropped = {} /\ met = FALSE

\* _read_waf_config: defaults for what cannot be read.
ReadFile == IF file \in {Torn, NoFile} THEN Defaults ELSE file

\* What a request gets: an error of any kind, of a file that is whole too, is logged
\* and gives the defaults.
Read(misread) == IF misread THEN Defaults ELSE ReadFile

\* Mutant: settings that are not named go back to their defaults.
ChangedOnly(changes, misread) ==
  [s \in Settings |-> IF s \in DOMAIN changes THEN changes[s] ELSE DefaultValue]

Changed(changes, misread) ==
  [s \in Settings |-> IF s \in DOMAIN changes THEN changes[s] ELSE Read(misread)[s]]

\* Invalid values are refused before anything happens.
BeginSave(r, changes, misread) ==
  /\ saver[r] = NotSaving
  /\ misread => file # NoFile
  /\ saver' = [saver EXCEPT ![r] = [step |-> "open", named |-> DOMAIN changes, misread |-> misread,
                                     config |-> Changed(changes, misread), into |-> "none"]]
  /\ met' = (met \/ \E q \in Savers : saver[q] # NotSaving)
  /\ UNCHANGED <<file, tmp, wanted, dropped>>

OpenTmp(r) ==
  /\ saver[r].step = "open" /\ tmp' = Torn
  /\ saver' = [saver EXCEPT ![r].step = "write", ![r].into = "tmp"]
  /\ UNCHANGED <<file, wanted, dropped, met>>

\* A text written over another, or beside another, may mix with it.
Over(r, content) ==
  IF content # Torn \/ \E q \in Savers \ {r} : saver[q].step \in {"write", "move"}
  THEN {saver[r].config, Torn} ELSE {saver[r].config}

\* The text goes into the file that was opened, wherever that has been moved since.
WriteTmp(r) ==
  /\ saver[r].step = "write"
  /\ tmp' \in IF saver[r].into = "tmp" THEN Over(r, tmp) ELSE {tmp}
  /\ file' \in IF saver[r].into = "file" THEN Over(r, file) ELSE {file}
  /\ saver' = [saver EXCEPT ![r].step = "move", ![r].into = "none"]
  /\ UNCHANGED <<wanted, dropped, met>>

Moved == [tmp |-> "file", file |-> "gone", gone |-> "gone", none |-> "none"]

\* os.replace fails when another request has moved the file away.
MoveTmp(r) ==
  /\ saver[r].step = "move"
  /\ IF tmp = NoFile THEN saver' = [saver EXCEPT ![r] = NotSaving] /\ UNCHANGED <<file, tmp, wanted, dropped>>
     ELSE /\ file' = tmp /\ tmp' = NoFile
          /\ saver' = [q \in Savers |-> IF q = r THEN [NotSaving EXCEPT !.step = "reload"]
                                       ELSE [saver[q] EXCEPT !.into = Moved[@]]]
          /\ wanted' = [s \in Settings |-> IF s \in saver[r].named THEN saver[r].config[s] ELSE wanted[s]]
          /\ dropped' = (dropped \cup IF saver[r].misread THEN Settings ELSE {}) \ saver[r].named
  /\ UNCHANGED <<met>>

\* The disk is full: an error, and the file as it was.
SaveFails(r) ==
  /\ saver[r].step \in {"open", "write"}
  /\ saver' = [saver EXCEPT ![r] = NotSaving]
  /\ UNCHANGED <<file, tmp, wanted, dropped, met>>

\* The firewall is asked to read the file, and may not answer; either way the
\* request has succeeded.
ReloadWaf(r) ==
  /\ saver[r].step = "reload"
  /\ saver' = [saver EXCEPT ![r] = NotSaving]
  /\ UNCHANGED <<file, tmp, wanted, dropped, met>>

RestartApi ==
  /\ saver' = [r \in Savers |-> NotSaving]
  /\ UNCHANGED <<file, tmp, wanted, dropped, met>>

WafNext ==
  \/ \E r \in Savers :
       \/ \E changes \in Bodies, misread \in BOOLEAN : BeginSave(r, changes, misread)
       \/ OpenTmp(r) \/ WriteTmp(r) \/ MoveTmp(r) \/ SaveFails(r) \/ ReloadWaf(r)
  \/ RestartApi

WafSpec == WafInit /\ [][WafNext]_wafVars

-----------------------------------------------------------------------------
(* Property *)

\* What the file should hold: the last value saved for a setting, unless a later
\* request that could not read the file wrote the default over it unasked.
LastSaved == [s \in Settings |-> IF s \in dropped THEN DefaultValue ELSE wanted[s]]

\* As long as no two requests overlapped, whatever failed or stopped half way: the
\* file holds for every setting the last value a request saved for it, of whichever
\* settings later requests spoke, and nobody ever reads a torn one.  The settings
\* excepted are those that a request lost which could not read the file: it is
\* answered "success" all the same, and what it did not name is the default again
\* until somebody saves it.
SettingsAreKept == ~met => ReadFile = LastSaved /\ file # Torn
=============================================================================
