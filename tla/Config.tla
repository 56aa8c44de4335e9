------------------------------- MODULE Config -------------------------------
(***************************************************************************)
(* Loading the configuration (src/config.cpp): what the constructors of    *)
(* params_t, group_t, section_t and their parts accept, which error they   *)
(* throw, in which order, and the value they build.                        *)
(*                                                                         *)
(* An XML node is a record of its attributes and children.  A text is      *)
(* Absent, Empty or a name; a number is what as_int() or as_double() makes *)
(* of the text, 0 if it is not one, or NotThere if the node is not.  A     *)
(* parser is an operator for its error, Fine if there is none, and one for *)
(* its value.                                                              *)
(***************************************************************************)
EXTENDS Checks, FiniteSets

Absent == "absent"
Empty == ""
NotThere == -1

(* error() of an expected that holds a value: what was thrown is made of   *)
(* the bytes of a std::string.                                             *)
Undefined == "undefined"

-----------------------------------------------------------------------------
(* Targets: a list split at commas, of which the last token is dropped if  *)
(* it is empty.                                                            *)
SplitLine(fields) ==
    IF fields[Len(fields)] = Empty THEN SubSeq(fields, 1, Len(fields) - 1) ELSE fields

TargetsValue(fields) == {SplitLine(fields)[i] : i \in DOMAIN SplitLine(fields)}

TargetsError(fields) ==
    Check(TargetsValue(fields) = {} \/ ~ TargetsValue(fields) \subseteq {"cpu", "gpu"},
          "sec_invalid_target")

target_multiple(targets) == {"cpu", "gpu"} \subseteq targets

-----------------------------------------------------------------------------
(* Bounds.                                                                 *)
AddressError(text) == Check(text = NotThere, "addr_range_invalid_value")

AddressRangeError(n) ==
    FirstError(<<Check(~n.hasStart, "addr_range_no_start"), Check(~n.hasEnd, "addr_range_no_end"),
                 AddressError(n.start), AddressError(n.end)>>)

(* Of <cu/> and <line/> an attribute goes before the child node.           *)
Either(attribute, child) == IF attribute # Absent THEN attribute ELSE child

EitherNumber(attribute, child) == IF attribute # NotThere THEN attribute ELSE child

CuError(n) ==
    LET cu == Either(n.cuAttribute, n.cuChild) IN
    FirstError(<<Check(cu = Absent, "pos_no_comp_unit"), Check(cu = Empty, "pos_invalid_comp_unit")>>)

LinenoError(n) ==
    LET line == EitherNumber(n.lineAttribute, n.lineChild) IN
    FirstError(<<Check(line = NotThere, "pos_no_line"), Check(line <= 0, "pos_invalid_line")>>)

(* A bad line throws the error of the compilation unit, which has none.    *)
PositionError(n) ==
    FirstError(<<CuError(n), Check(LinenoError(n) # Fine, Undefined)>>)

PositionValue(n) ==
    [cu |-> Either(n.cuAttribute, n.cuChild),
     line |-> EitherNumber(n.lineAttribute, n.lineChild)]

FunctionError(n) ==
    FirstError(<<Check(n.cu = Empty, "func_invalid_comp_unit"),
                 Check(n.name = Absent, "func_no_name"), Check(n.name = Empty, "func_invalid_name")>>)

(* <bounds/>: the children it has, and the nodes they are.                 *)
BoundsError(n) ==
    LET has == n.has IN
    CASE Cardinality(has \cap {"func", "addr"}) = 2
         \/ (has \cap {"start", "end"} # {} /\ has \cap {"func", "addr"} # {}) -> "bounds_too_many"
      [] has = {"start"}        -> "bounds_no_end"
      [] has = {"end"}          -> "bounds_no_start"
      [] has = {"start", "end"} -> FirstError(<<PositionError(n.start), PositionError(n.end)>>)
      [] has = {"func"}         -> FunctionError(n.func)
      [] has = {"addr"}         -> AddressRangeError(n.addr)
      [] OTHER                  -> "bounds_empty"

BoundsValue(n) ==
    CASE n.has = {"func"} -> [kind |-> "function", cu |-> n.func.cu, name |-> n.func.name]
      [] n.has = {"addr"} -> [kind |-> "addresses", start |-> n.addr.start, end |-> n.addr.end]
      [] OTHER            -> [kind |-> "positions", start |-> PositionValue(n.start),
                                                    end |-> PositionValue(n.end)]

-----------------------------------------------------------------------------
(* Methods.                                                                *)
MethodError(n) ==
    FirstError(<<Check(n.method = Absent, "sec_no_method"),
                 Check(n.method \notin {"profile", "total"}, "sec_invalid_method")>>)

(* <interval/> overrides <freq/>.                                          *)
IntervalError(n) ==
    FirstError(<<Check(n.interval = NotThere /\ n.freq = NotThere, "sec_no_interval"),
                 Check(n.interval # NotThere /\ n.interval <= 0, "sec_invalid_interval"),
                 Check(n.interval = NotThere /\ n.freq <= 0, "sec_invalid_freq")>>)

(* The bounds of clamp(1000 / freq, 1, 1000 / freq) are out of order if    *)
(* the frequency is above 1000: it then gives one of them, as the library  *)
(* has it, and the conversion to whole milliseconds makes 0 of the other.  *)
IntervalValue(n, clamped) ==
    IF n.interval # NotThere THEN n.interval
    ELSE IF n.freq <= 1000 THEN 1000 \div n.freq ELSE clamped

(* <duration/> overrides <samples/>; it is divided by the interval.        *)
SamplesError(n, interval) ==
    FirstError(<<Check(n.duration # NotThere /\ n.duration <= 0, "sec_invalid_duration"),
                 Check(n.duration # NotThere /\ interval = 0, Undefined),
                 Check(n.duration = NotThere /\ n.samples # NotThere /\ n.samples <= 0,
                       "sec_invalid_samples")>>)

SamplesValue(n, interval) ==
    IF n.duration # NotThere
    THEN n.duration \div interval + (IF n.duration % interval # 0 THEN 1 ELSE 0)
    ELSE n.samples

MiscError(n, clamped) ==
    FirstError(<<MethodError(n),
                 Check(n.method = "total" /\ n.short /\ n.long, "sec_both_short_and_long"),
                 IF n.method # "profile" THEN Fine
                 ELSE FirstError(<<IntervalError(n),
                         IF IntervalError(n) # Fine THEN Fine
                         ELSE SamplesError(n, IntervalValue(n, clamped))>>)>>)

MiscValue(n, clamped) ==
    IF n.method = "total" THEN [method |-> "total", short |-> n.short]
    ELSE [method |-> "profile", interval |-> IntervalValue(n, clamped),
          samples |-> SamplesValue(n, IntervalValue(n, clamped))]

-----------------------------------------------------------------------------
(* Sections, groups and the document.                                      *)
SectionError(n, clamped) ==
    FirstError(<<MiscError(n, clamped), BoundsError(n.bounds),
                 Check(n.label = Empty, "sec_invalid_label"),
                 Check(n.extra = Empty, "sec_invalid_extra"),
                 IF n.targets = <<>> THEN Fine ELSE TargetsError(n.targets)>>)

SectionValue(n, clamped) ==
    [label |-> n.label, extra |-> n.extra,
     targets |-> IF n.targets = <<>> THEN {"cpu"} ELSE TargetsValue(n.targets),
     misc |-> MiscValue(n, clamped), bounds |-> BoundsValue(n.bounds),
     allow_concurrency |-> n.allow_concurrency]

(* Mutant: a label is only compared with labels.                           *)
LabelTakenLax(labels, i) ==
    \E j \in 1..(i - 1) : labels[i] # Absent /\ labels[j] = labels[i]

(* The i-th of several labels: is it needed and missing, or taken before.  *)
LabelTaken(labels, i) ==
    \E j \in 1..(i - 1) : Absent \in {labels[i], labels[j]} \/ labels[j] = labels[i]

LabelsOf(nodes) == [i \in DOMAIN nodes |-> nodes[i].label]

GroupError(n, clamped) ==
    FirstError(<<Check(n.label = Empty, "group_invalid_label"),
                 Check(n.extra = Empty, "group_invalid_extra"),
                 FirstError([i \in DOMAIN n.sections |->
                     FirstError(<<SectionError(n.sections[i], clamped),
                                  Check(LabelTaken(LabelsOf(n.sections), i),
                                        "sec_label_already_exists")>>)]),
                 Check(n.sections = <<>>, "group_empty")>>)

GroupValue(n, clamped) ==
    [label |-> n.label, extra |-> n.extra,
     sections |-> [i \in DOMAIN n.sections |-> SectionValue(n.sections[i], clamped)]]

(* A mask: whether there is one, whether it is hexadecimal, and its bits.  *)
BadMask(mask) == mask.given /\ ~mask.valid

ParamsError(n) ==
    FirstError(<<Check(BadMask(n.domain_mask), "param_invalid_domain_mask"),
                 Check(BadMask(n.socket_mask), "param_invalid_socket_mask"),
                 Check(BadMask(n.device_mask), "param_invalid_device_mask")>>)

ParseError(status) ==
    CASE status = "ok"             -> Fine
      [] status = "file_not_found" -> "config_not_found"
      [] status = "io_error"       -> "config_io_error"
      [] status = "out_of_memory"  -> "config_out_of_mem"
      [] OTHER                     -> "config_bad_format"

ConfigError(doc, clamped) ==
    FirstError(<<ParseError(doc.status),
                 Check(~doc.hasConfig, "config_no_config"),
                 ParamsError(doc.params),
                 FirstError([i \in DOMAIN doc.groups |->
                     FirstError(<<GroupError(doc.groups[i], clamped),
                                  Check(LabelTaken(LabelsOf(doc.groups), i),
                                        "group_label_already_exists")>>)])>>)

ConfigValue(doc, clamped) ==
    [parameters |-> doc.params,
     groups |-> [i \in DOMAIN doc.groups |-> GroupValue(doc.groups[i], clamped)]]
=============================================================================
