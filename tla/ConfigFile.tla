----------------------------- MODULE ConfigFile -----------------------------
(***************************************************************************)
(* config.ini and the settings that can be changed at run time             *)
(* (stmp2log/src/config.rs): what a file means, what a change asks for,    *)
(* and how it is written into the file, by update.                         *)
(*                                                                         *)
(* A text is a sequence of characters.  A line of the file is what stands  *)
(* before its first "=", without case or blanks around it, and what stands *)
(* after it; a line with key "" is none of a setting (empty, a comment, a  *)
(* section, or without "=").  Line ends, byte order marks and warnings are *)
(* left out, and no value has a line end in it.                            *)
(*                                                                         *)
(* A definition marked "Slip" is no part of the model.                     *)
(***************************************************************************)
EXTENDS Integers, SequencesExt

CONSTANTS
    Kilo, \* 1024
    Word, \* 2^64, the values of a usize
    Host  \* the name of the machine

(* Assumed by the module that instantiates this one.                       *)
FileAssumption == Kilo \in Nat \ {0, 1} /\ Word \in Nat \ {0} /\ Kilo * Kilo * Kilo < Word

None == -1

Digit == <<"0", "1", "2", "3", "4", "5", "6", "7", "8", "9">>
Quotes == {"'", "''"}
Remark == {"#", ";"}

TrimEnd(text, chars) ==
    SubSeq(text, 1, SelectLastInSeq(text, LAMBDA c : c \notin chars))
TrimOf(text, chars) == Reverse(TrimEnd(Reverse(TrimEnd(text, chars)), chars))
Trim(text) == TrimOf(text, {" "})

RemarkAt(text) ==
    LET at == SelectInSeq(text, LAMBDA c : c \in Remark)
    IN  IF at = 0 THEN Len(text) + 1 ELSE at
BeforeRemark(text) == SubSeq(text, 1, RemarkAt(text) - 1)

StripInlineComment(text) == TrimOf(Trim(BeforeRemark(text)), Quotes)

NormalizeUrl(text) == TrimEnd(Trim(BeforeRemark(text)), {"/"})

IniSafe(text) == ToSet(text) \cap Remark = {}

-----------------------------------------------------------------------------
(* Numbers and sizes.  A number too large for a usize is none; a product   *)
(* wraps around, as it does in a release build.                            *)

Number(text) ==
    LET n == FoldLeft(LAMBDA sum, c : 10 * sum + SelectInSeq(Digit, LAMBDA d : d = c) - 1, 0, text)
    IN  IF text = <<>> \/ ~ ToSet(text) \subseteq ToSet(Digit) \/ n >= Word THEN None ELSE n

DigitsOf[n \in Nat] == IF n < 10 THEN <<Digit[n + 1]>> ELSE Append(DigitsOf[n \div 10], Digit[(n % 10) + 1])

Units == [g |-> Kilo * Kilo * Kilo, m |-> Kilo * Kilo, k |-> Kilo]

Times(n, unit) == IF n = None THEN None ELSE (n * Units[unit]) % Word

SizeIn(v) ==
    IF v # <<>> /\ Last(v) \in DOMAIN Units THEN Times(Number(Trim(Front(v))), Last(v)) ELSE Number(v)

WithoutB(text) == IF IsSuffix(<<"b">>, text) THEN Trim(Front(text)) ELSE text

ParseSize(text) == SizeIn(WithoutB(Trim(text)))

HumanSize(bytes) ==
    LET fit == SelectSeq(<<"g", "m", "k">>, LAMBDA u : bytes >= Units[u] /\ (bytes % Units[u]) = 0)
    IN  IF fit = <<>> THEN DigitsOf[bytes] ELSE Append(DigitsOf[bytes \div Units[fit[1]]], fit[1])

-----------------------------------------------------------------------------
(* What a file means.                                                      *)

Numbers   == {"max_entries", "max_days", "retry_queue"}
Switches  == {"keep_raw", "keep_attachments"}
Listeners == {"stmp_listen", "stmp_tls_listen", "web_listen"}

Settings == <<"max_entries", "max_days", "keep_raw", "keep_attachments", "retry_queue", "web_url",
              "push_url", "stmp_hostname", "stmp_user", "stmp_pass", "stmp_maxsize">>

Off == <<>>
AnyIp == "0"

(* Config::default, of which the numbers only have to be some.             *)
Default ==
    [max_entries |-> 9, max_days |-> 0, retry_queue |-> 0, keep_raw |-> FALSE, keep_attachments |-> FALSE,
     web_url |-> <<>>, push_url |-> <<>>, stmp_hostname |-> Host, stmp_user |-> <<>>, stmp_pass |-> <<>>,
     stmp_maxsize |-> 2 * Kilo, data |-> <<"d">>, web_pass |-> <<>>, web_path |-> <<"/">>,
     stmp_listen |-> Off, stmp_tls_listen |-> Off, web_listen |-> Off]

(* A value that the setting before it survives.                            *)
Ignored(key, value) ==
    \/ key \notin DOMAIN Default
    \/ key = "stmp_hostname" /\ value = <<>>
    \/ key \in Numbers /\ Number(value) = None
    \/ key = "max_entries" /\ Number(value) = 0
    \/ key = "stmp_maxsize" /\ ParseSize(value) = None

IsAddress(value) == Len(value) = 3 /\ value[2] = ":" /\ Number(<<value[3]>>) # None

Meaning(key, value) ==
    CASE key \in Numbers         -> Number(value)
      [] key \in Switches        -> value \in {<<"1">>, <<"t", "r", "u", "e">>, <<"y", "e", "s">>, <<"o", "n">>}
      [] key = "stmp_maxsize"    -> ParseSize(value)
      [] key = "web_url"         -> NormalizeUrl(value)
      [] key = "push_url"        -> TrimEnd(value, {"/"})
      [] key \in {"data", "web_path"} -> IF value = <<>> THEN Default[key] ELSE value
      [] key \in Listeners       -> IF IsAddress(value) THEN value ELSE Off
      [] OTHER                   -> value

(* A listener with a port only is left to the end of the file.             *)
IsBare(key, value) == key \in Listeners /\ Number(value) # None

ReadLine(read, line) ==
    LET value == StripInlineComment(line.rest)
    IN  CASE IsBare(line.key, value)  -> [read EXCEPT !.bare = Append(@, <<line.key, value>>)]
          [] Ignored(line.key, value) -> read
          [] OTHER                    -> [read EXCEPT !.config[line.key] = Meaning(line.key, value)]

(* Its address is that of stmp_listen for stmp_tls_listen, any otherwise.  *)
ResolveBarePort(config, bare) ==
    LET ip == IF bare[1] = "stmp_tls_listen" /\ config.stmp_listen # Off
              THEN config.stmp_listen[1] ELSE AnyIp
    IN  [config EXCEPT ![bare[1]] = <<ip, ":">> \o bare[2]]

Resolved(read) == FoldLeft(ResolveBarePort, read.config, read.bare)

Parse(file) == Resolved(FoldLeft(ReadLine, [config |-> Default, bare |-> <<>>], file))

SettingsOf(config) ==
    [key \in ToSet(Settings) |->
        IF key = "stmp_maxsize" THEN HumanSize(config[key]) ELSE config[key]]

-----------------------------------------------------------------------------
(* A change: SettingsPatch::apply, with the settings it names.             *)

Refused(patch) ==
    \E key \in DOMAIN patch :
        \/ key = "max_entries" /\ patch[key] = 0
        \/ key = "stmp_hostname" /\ ~ IniSafe(patch[key])
        \/ key = "stmp_hostname" /\ " " \in ToSet(Trim(patch[key]))
        \/ key \in {"stmp_user", "stmp_pass"} /\ ~ IniSafe(patch[key])
        \/ key = "stmp_maxsize" /\ ParseSize(patch[key]) \in {None, 0}

Wanted(key, value) ==
    CASE key \in {"web_url", "push_url"} -> NormalizeUrl(value)
      [] key = "stmp_hostname" -> IF Trim(value) = <<>> THEN Host ELSE Trim(value)
      [] key = "stmp_maxsize"  -> HumanSize(ParseSize(value))
      [] OTHER                 -> value

Apply(patch, settings) ==
    [key \in DOMAIN settings |->
        IF key \in DOMAIN patch THEN Wanted(key, patch[key]) ELSE settings[key]]

AsIni(settings) ==
    [key \in DOMAIN settings |->
        CASE key \in Numbers  -> DigitsOf[settings[key]]
          [] key \in Switches -> IF settings[key] THEN <<"1">> ELSE <<"0">>
          [] OTHER            -> settings[key]]

Comment(text) ==
    IF RemarkAt(text) > Len(text) THEN <<>>
    ELSE <<" ">> \o TrimEnd(SubSeq(text, RemarkAt(text), Len(text)), {" "})

(* (Slip: only the first line of a setting.)                               *)
RewrittenOnce(file, ini) ==
    [i \in DOMAIN file |->
        IF file[i].key \in DOMAIN ini /\ \A j \in 1 .. i - 1 : file[j].key # file[i].key
        THEN [file[i] EXCEPT !.rest = ini[file[i].key] \o Comment(@)] ELSE file[i]]

(* Every line of a setting gets the new value, and keeps its comment.      *)
Rewritten(file, ini) ==
    [i \in DOMAIN file |->
        IF file[i].key \in DOMAIN ini
        THEN [file[i] EXCEPT !.rest = ini[file[i].key] \o Comment(@)] ELSE file[i]]

(* The settings that the file does not have yet are added below a note.    *)
Update(file, ini) ==
    LET missing == SelectSeq(Settings, LAMBDA key : \A i \in DOMAIN file : file[i].key # key)
        Empty   == [key |-> "", rest |-> <<>>]
    IN  Rewritten(file, ini)
        \o (IF missing # <<>> /\ file # <<>> /\ Last(file) # Empty THEN <<Empty>> ELSE <<>>)
        \o (IF missing # <<>> THEN <<[key |-> "", rest |-> <<"#">>]>> ELSE <<>>)
        \o [i \in DOMAIN missing |-> [key |-> missing[i], rest |-> ini[missing[i]]]]

-----------------------------------------------------------------------------
(* What the properties ask.                                                *)

(* A text that the file can hold: without blanks or quotes at its ends.    *)
Holdable(text) == StripInlineComment(text) = text

(* What put_settings leaves behind: the settings in memory and the file.   *)
Written(want, file) == [settings |-> want, file |-> Update(file, AsIni(want))]

Saved(before, patch) ==
    IF Refused(patch) THEN before ELSE Written(Apply(patch, before.settings), before.file)

Started(file) == [settings |-> SettingsOf(Parse(file)), file |-> file]

After(file, patches) == FoldLeft(Saved, Started(file), patches)

(* After any changes to any file, the settings in memory are those that    *)
(* the file means at the next start, unless a text has blanks or quotes at *)
(* its ends, which apply lets pass and the file cannot hold.               *)
ComesBack(file, patches) ==
    \A now \in {After(file, patches)} :
        (\A key \in {"web_url", "push_url", "stmp_user", "stmp_pass", "stmp_hostname"} :
             Holdable(now.settings[key]))
        => SettingsOf(Parse(now.file)) = now.settings

(* What is no run-time setting keeps its meaning, and every line that is   *)
(* none of a setting its place.                                            *)
RestIsKept(file, patches) ==
    LET Own(lines) == SelectSeq(lines, LAMBDA l : l.key \notin ToSet(Settings))
    IN  \A now \in {After(file, patches).file} :
            /\ \A key \in DOMAIN Default \ ToSet(Settings) : Parse(now)[key] = Parse(file)[key]
            /\ IsPrefix(Own(file), Own(now))

(* The order of the lines does not matter, when no setting has two.        *)
OrderIsFree(file) ==
    (\A i, j \in DOMAIN file : file[i].key = file[j].key => i = j \/ file[i].key = "")
    => Parse(Reverse(file)) = Parse(file)
=============================================================================
