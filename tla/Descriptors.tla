---------------------------- MODULE Descriptors ----------------------------
(***************************************************************************)
(* The parsing of what a device says of itself (src/libusb/libusb/         *)
(* descriptor.c): a configuration, a BOS, an endpoint's companion, and the *)
(* search of linux_usbfs.c for the end of a configuration.                 *)
(*                                                                         *)
(* Every loop walks the buffer by the bLength it finds, so a buffer is     *)
(* modelled as the headers the walk meets, each chosen when it is reached, *)
(* and the number of bytes left. seen keeps what was walked over.          *)
(***************************************************************************)
EXTENDS Naturals, Sequences, FiniteSets

CONSTANTS
    Parsers,    \* what is parsed: of "config", "bos", "companion", "next"
    Sizes,      \* sizes of the buffer
    Headers,    \* descriptors each parser may find: [type, len, num, cnt]
    MaxDescs,   \* bound: descriptors in a buffer
    MayFail     \* may malloc fail?

DESC_HEADER_LENGTH == 2
CONFIG_SIZE == 9
INTERFACE_SIZE == 9
ENDPOINT_SIZE == 7
BOS_SIZE == 5
CAPABILITY_SIZE == 3
COMPANION_SIZE == 6
USB_MAXENDPOINTS == 32
USB_MAXINTERFACES == 32

ASSUME ConstantsAssumption ==
    /\ Parsers \subseteq {"config", "bos", "companion", "next"}
    /\ Sizes \subseteq Nat /\ MaxDescs \in Nat /\ MayFail \in BOOLEAN
    /\ \A p \in Parsers : \A h \in Headers[p] : {h.len, h.num, h.cnt} \subseteq 0..255

VARIABLES
    parser,  \* what is parsed
    pc,      \* where the parser is
    left,    \* size: bytes left
    next,    \* the descriptor at buffer
    seen,    \* the descriptors behind it
    config,  \* bNumInterfaces (or bNumDeviceCaps), as parsed, and the interfaces
    extra,   \* unknown descriptors since begin
    mem,     \* what is allocated
    misused, \* freed twice, or used when freed
    result   \* "none" while parsing

vars == <<parser, pc, left, next, seen, config, extra, mem, misused, result>>

Max(S) == CHOOSE n \in S : \A k \in S : k <= n

ParsersAt == {"config", "config extra", "interface", "interface extra", "endpoint",
              "endpoint extra", "alternate", "bos", "capability", "companion",
              "next", "done", "freed"}

\* An alternate setting: where it was seen, bNumEndpoints, the endpoints parsed
\* and whether there is an array for them.
Alts == [at : Nat, n : Nat, eps : Seq(Nat), array : BOOLEAN]

TypeOK ==
    /\ parser \in Parsers /\ pc \in ParsersAt
    /\ left \in 0..Max(Sizes)
    /\ next \in Headers[parser]
    /\ Len(seen) <= MaxDescs
    /\ config.n \in 0..255
    /\ \A i \in DOMAIN config.ifs, a \in 1..255 :
          a \in DOMAIN config.ifs[i] => config.ifs[i][a] \in Alts
    /\ extra \in Nat /\ misused \in BOOLEAN
    /\ result \in {"none", "SUCCESS", "NOT_FOUND", "IO", "NO_MEM"}

Init ==
    /\ parser \in Parsers
    /\ pc = parser
    /\ left \in Sizes
    /\ next \in Headers[parser]
    /\ seen = <<>>
    /\ config = [n |-> 0, ifs |-> <<>>]
    /\ extra = 0
    /\ mem = {}
    /\ misused = FALSE
    /\ result = "none"

----------------------------------------------------------------------------
(* Steps the parsers share.                                                *)

\* buffer += bLength, size -= bLength.
Consume ==
    /\ Len(seen) < MaxDescs
    /\ left' = left - next.len
    /\ seen' = Append(seen, next)
    /\ IF left' < DESC_HEADER_LENGTH THEN UNCHANGED next ELSE next' \in Headers[parser]

Stay == UNCHANGED <<left, next, seen>>

Proper == next.type \in {"config", "interface", "endpoint"}

\* Mutation: a descriptor that is cut off is skipped too.
SkipsOne_cut == left >= DESC_HEADER_LENGTH /\ next.len >= DESC_HEADER_LENGTH /\ ~Proper

\* A loop over unknown descriptors goes on with this one ...
SkipsOne == left >= DESC_HEADER_LENGTH /\ next.len >= DESC_HEADER_LENGTH
               /\ next.len <= left /\ ~Proper
\* ... fails, ...
BadLength == left >= DESC_HEADER_LENGTH /\ next.len < DESC_HEADER_LENGTH
\* ... finds a descriptor that is cut off, ...
CutOff == left >= DESC_HEADER_LENGTH /\ next.len >= DESC_HEADER_LENGTH
             /\ next.len > left
\* ... or ends.
SkipEnds == left < DESC_HEADER_LENGTH
               \/ (next.len >= DESC_HEADER_LENGTH /\ next.len <= left /\ Proper)

i == Len(config.ifs)                \* the interface being parsed
alt == Len(config.ifs[i])           \* its setting being parsed
Alt == config.ifs[i][alt]

\* Mutation: what the endpoints have is forgotten.
InterfaceMem_shallow(c, k) ==
    {<<"altsetting", k>>}
       \cup UNION {{<<"extra", k, a>>, <<"endpoint", k, a>>} : a \in DOMAIN c.ifs[k]}

\* What clear_interface and clear_configuration free.
InterfaceMem(c, k) ==
    {<<"altsetting", k>>}
       \cup UNION {{<<"extra", k, a>>, <<"endpoint", k, a>>}
                      \cup (IF c.ifs[k][a].array
                            THEN {<<"epextra", k, a, e>> : e \in 1..c.ifs[k][a].n}
                            ELSE {}) : a \in DOMAIN c.ifs[k]}

ConfigMem(c) == {<<"interface">>, <<"extra">>}
    \cup UNION {InterfaceMem(c, k) : k \in DOMAIN c.ifs \cap 1..c.n}

\* goto err: what was parsed of the interface and of the configuration is freed.
Fail(r) ==
    /\ result' = r
    /\ pc' = "done"
    /\ mem' = mem \ ((IF i > 0 THEN InterfaceMem(config, i) ELSE {}) \cup ConfigMem(config))
    /\ UNCHANGED <<config, extra>>

\* A malloc of what x names.
Alloc(x) == mem' = mem \cup {x}
AllocIf(c, x) == mem' = IF c THEN mem \cup {x} ELSE mem

Succeed == pc' = "done" /\ result' = "SUCCESS"

OutOfMemory == MayFail /\ Fail("NO_MEM") /\ Stay /\ UNCHANGED misused

----------------------------------------------------------------------------
(* parse_configuration.                                                    *)

Configuration ==
    /\ pc = "config"
    /\ IF \/ left < CONFIG_SIZE \/ next.type # "config" \/ next.len < CONFIG_SIZE
          \/ next.len > left \/ next.cnt > USB_MAXINTERFACES
       THEN result' = "IO" /\ pc' = "done" /\ Stay /\ UNCHANGED <<config, mem>>
       ELSE \/ /\ Consume
               /\ Alloc(<<"interface">>)
               /\ config' = [n |-> next.cnt, ifs |-> <<>>]
               /\ IF next.cnt = 0 THEN Succeed
                                  ELSE pc' = "config extra" /\ UNCHANGED result
            \/ /\ MayFail
               /\ result' = "NO_MEM" /\ pc' = "done" /\ Stay /\ UNCHANGED <<config, mem>>
    /\ UNCHANGED <<extra, misused>>

\* What is unknown before an interface is kept once in the configuration.
ConfigExtra ==
    /\ pc = "config extra"
    /\ \/ /\ SkipsOne /\ Consume
          /\ extra' = extra + next.len
          /\ UNCHANGED <<pc, config, mem, result>>
       \/ BadLength /\ Fail("IO") /\ Stay
       \/ /\ CutOff
          /\ config' = [config EXCEPT !.n = i]
          /\ Succeed /\ Stay /\ UNCHANGED <<extra, mem>>
       \/ /\ SkipEnds /\ Stay
          /\ AllocIf(extra > 0, <<"extra">>)
          /\ extra' = 0
          /\ config' = [config EXCEPT !.ifs = Append(@, <<>>)]
          /\ pc' = "interface"
          /\ UNCHANGED result
       \/ SkipEnds /\ extra > 0 /\ <<"extra">> \notin mem /\ OutOfMemory
    /\ UNCHANGED misused

\* parse_interface is over: with nothing parsed the configuration ends before
\* this interface, and the number of interfaces is cut.
InterfaceEnds(c) ==
    /\ IF c.ifs[i] = <<>> THEN config' = [c EXCEPT !.n = i - 1] /\ Succeed
       ELSE IF i = c.n THEN config' = c /\ Succeed
       ELSE config' = c /\ pc' = "config extra" /\ UNCHANGED result
    /\ extra' = 0

----------------------------------------------------------------------------
(* parse_interface.                                                        *)

\* realloc of altsetting frees what it had when it fails, and the error path
\* frees that again.
AltSetting ==
    /\ pc = "interface"
    /\ \/ left < INTERFACE_SIZE /\ InterfaceEnds(config) /\ Stay
             /\ UNCHANGED <<mem, misused>>
       \/ /\ left >= INTERFACE_SIZE
          /\ next.type # "interface" \/ (next.len >= INTERFACE_SIZE /\ next.len > left)
          /\ Alloc(<<"altsetting", i>>)
          /\ InterfaceEnds(config) /\ Stay /\ UNCHANGED misused
       \/ /\ left >= INTERFACE_SIZE /\ next.type = "interface"
          /\ next.len < INTERFACE_SIZE
                \/ (next.len <= left /\ next.cnt > USB_MAXENDPOINTS)
          /\ Fail("IO") /\ Stay /\ UNCHANGED misused
       \/ /\ left >= INTERFACE_SIZE /\ next.type = "interface"
          /\ next.len \in INTERFACE_SIZE..left /\ next.cnt <= USB_MAXENDPOINTS
          /\ Consume
          /\ Alloc(<<"altsetting", i>>)
          /\ config' = [config EXCEPT !.ifs[i] =
                Append(@, [at |-> Len(seen) + 1, n |-> next.cnt, eps |-> <<>>,
                           array |-> FALSE])]
          /\ extra' = 0
          /\ pc' = "interface extra"
          /\ UNCHANGED <<result, misused>>
       \/ /\ left >= INTERFACE_SIZE /\ MayFail
          /\ misused' = (misused \/ <<"altsetting", i>> \in mem)
          /\ Fail("NO_MEM") /\ Stay

\* A setting whose unknown descriptors are cut off ends the interface.
InterfaceExtra ==
    /\ pc = "interface extra"
    /\ \/ /\ SkipsOne /\ Consume
          /\ extra' = extra + next.len
          /\ UNCHANGED <<pc, config, mem, result>>
       \/ BadLength /\ Fail("IO") /\ Stay
       \/ CutOff /\ InterfaceEnds(config) /\ Stay /\ UNCHANGED mem
       \/ /\ SkipEnds /\ Stay
          /\ mem' = mem \cup (IF extra > 0 THEN {<<"extra", i, alt>>} ELSE {})
                        \cup (IF Alt.n > 0 THEN {<<"endpoint", i, alt>>} ELSE {})
          /\ config' = [config EXCEPT !.ifs[i][alt].array = (Alt.n > 0)]
          /\ extra' = 0
          /\ pc' = IF Alt.n > 0 THEN "endpoint" ELSE "alternate"
          /\ UNCHANGED result
       \/ SkipEnds /\ (extra > 0 \/ Alt.n > 0) /\ OutOfMemory
    /\ UNCHANGED misused

\* Mutation: any interface is taken for another setting.
FirstNumber_any == next.num

\* The next descriptor is another setting of the interface, or not.
FirstNumber == seen[config.ifs[i][1].at].num
Alternate ==
    /\ pc = "alternate"
    /\ IF \/ left < INTERFACE_SIZE \/ next.type # "interface"
          \/ next.num # FirstNumber
       THEN InterfaceEnds(config)
       ELSE pc' = "interface" /\ UNCHANGED <<config, extra, result>>
    /\ Stay /\ UNCHANGED <<mem, misused>>

----------------------------------------------------------------------------
(* parse_endpoint.                                                         *)

\* Mutation: one endpoint less than there are.
AfterEndpoint_less(c) == pc' = IF Len(c.ifs[i][alt].eps) < c.ifs[i][alt].n - 1
                               THEN "endpoint" ELSE "alternate"

AfterEndpoint(c) == pc' = IF Len(c.ifs[i][alt].eps) < c.ifs[i][alt].n
                          THEN "endpoint" ELSE "alternate"

Endpoint ==
    /\ pc = "endpoint"
    /\ \/ left < DESC_HEADER_LENGTH /\ Fail("IO") /\ Stay
       \/ /\ left >= DESC_HEADER_LENGTH
          /\ next.type # "endpoint" \/ next.len > left
          /\ config' = [config EXCEPT !.ifs[i][alt].n = Len(Alt.eps)]
          /\ pc' = "alternate"
          /\ Stay /\ UNCHANGED <<extra, mem, result>>
       \/ /\ left >= DESC_HEADER_LENGTH /\ next.type = "endpoint"
          /\ next.len < ENDPOINT_SIZE /\ next.len <= left
          /\ Fail("IO") /\ Stay
       \/ /\ next.type = "endpoint" /\ next.len \in ENDPOINT_SIZE..left
          /\ Consume
          /\ config' = [config EXCEPT !.ifs[i][alt].eps = Append(@, Len(seen) + 1)]
          /\ extra' = 0
          /\ pc' = "endpoint extra"
          /\ UNCHANGED <<mem, result>>
    /\ UNCHANGED misused

EndpointExtra ==
    /\ pc = "endpoint extra"
    /\ \/ /\ SkipsOne /\ Consume
          /\ extra' = extra + next.len
          /\ UNCHANGED <<pc, config, mem, result>>
       \/ BadLength /\ Fail("IO") /\ Stay
       \/ CutOff /\ AfterEndpoint(config) /\ extra' = 0 /\ Stay
             /\ UNCHANGED <<config, mem, result>>
       \/ /\ SkipEnds /\ Stay
          /\ AllocIf(extra > 0, <<"epextra", i, alt, Len(Alt.eps)>>)
          /\ extra' = 0
          /\ AfterEndpoint(config)
          /\ UNCHANGED <<config, result>>
       \/ SkipEnds /\ extra > 0 /\ OutOfMemory
    /\ UNCHANGED misused

----------------------------------------------------------------------------
(* parse_bos, the endpoint companion, and seek_to_next_descriptor.         *)

Bos ==
    /\ pc = "bos"
    /\ IF \/ left < BOS_SIZE \/ next.type # "bos" \/ next.len < BOS_SIZE
          \/ next.len > left
       THEN result' = "IO" /\ pc' = "done" /\ Stay /\ UNCHANGED <<config, mem>>
       ELSE \/ /\ Consume
               /\ Alloc(<<"bos">>)
               /\ config' = [config EXCEPT !.n = next.cnt]
               /\ pc' = "capability"
               /\ UNCHANGED result
            \/ /\ MayFail
               /\ result' = "NO_MEM" /\ pc' = "done" /\ Stay /\ UNCHANGED <<config, mem>>
    /\ UNCHANGED <<extra, misused>>

caps == Len(seen) - 1
BosMem(c) == {<<"bos">>} \cup {<<"capability", k>> : k \in 1..c.n}

Capability ==
    /\ pc = "capability"
    /\ \/ /\ \/ caps = config.n \/ left < CAPABILITY_SIZE
             \/ next.type # "capability"
             \/ (next.len >= CAPABILITY_SIZE /\ next.len > left)
          /\ config' = [config EXCEPT !.n = caps]
          /\ Succeed /\ Stay /\ UNCHANGED mem
       \/ /\ caps < config.n /\ left >= CAPABILITY_SIZE /\ next.type = "capability"
          /\ \/ next.len < CAPABILITY_SIZE /\ result' = "IO"
             \/ next.len \in CAPABILITY_SIZE..left /\ MayFail /\ result' = "NO_MEM"
          /\ mem' = mem \ BosMem(config)
          /\ pc' = "done" /\ Stay /\ UNCHANGED config
       \/ /\ caps < config.n /\ next.type = "capability"
          /\ next.len \in CAPABILITY_SIZE..left
          /\ Consume
          /\ Alloc(<<"capability", caps + 1>>)
          /\ UNCHANGED <<pc, config, result>>
    /\ UNCHANGED <<extra, misused>>

\* The buffer is the extra of an endpoint.
Companion ==
    /\ pc = "companion"
    /\ \/ /\ left < DESC_HEADER_LENGTH
          /\ result' = "NOT_FOUND" /\ pc' = "done" /\ Stay /\ UNCHANGED mem
       \/ /\ left >= DESC_HEADER_LENGTH
          /\ \/ next.len < DESC_HEADER_LENGTH \/ next.len > left
             \/ next.type = "companion" /\ next.len < COMPANION_SIZE
          /\ result' = "IO" /\ pc' = "done" /\ Stay /\ UNCHANGED mem
       \/ /\ next.len \in DESC_HEADER_LENGTH..left /\ next.type # "companion"
          /\ Consume /\ UNCHANGED <<pc, mem, result>>
       \/ /\ next.len \in COMPANION_SIZE..left /\ next.type = "companion"
          /\ Alloc(<<"companion">>) /\ Succeed /\ Stay
       \/ /\ next.len \in COMPANION_SIZE..left /\ next.type = "companion"
          /\ MayFail
          /\ result' = "NO_MEM" /\ pc' = "done" /\ Stay /\ UNCHANGED mem
    /\ UNCHANGED <<config, extra, misused>>

\* The next configuration in a file of sysfs, for which the kernel has checked
\* that each bLength is 2 at least. The last bLength may exceed the file.
NextConfig ==
    /\ pc = "next"
    /\ \/ /\ left = 0
          /\ result' = "NOT_FOUND" /\ pc' = "done" /\ Stay
       \/ /\ left = 1
          /\ result' = "IO" /\ pc' = "done" /\ Stay
       \/ /\ left >= DESC_HEADER_LENGTH /\ next.len >= DESC_HEADER_LENGTH
          /\ IF seen # <<>> /\ next.type = "config" THEN Succeed /\ Stay
             ELSE IF next.len > left THEN result' = "IO" /\ pc' = "done" /\ Stay
             ELSE Consume /\ UNCHANGED <<pc, result>>
    /\ UNCHANGED <<config, extra, mem, misused>>

\* libusb_free_config_descriptor and its like.
Free ==
    /\ pc = "done" /\ result = "SUCCESS"
    /\ pc' = "freed"
    /\ mem' = mem \ (ConfigMem(config) \cup BosMem(config) \cup {<<"companion">>})
    /\ UNCHANGED <<left, next, seen, config, extra, misused, result>>

----------------------------------------------------------------------------
Parse == Configuration \/ ConfigExtra \/ AltSetting \/ InterfaceExtra \/ Alternate
            \/ Endpoint \/ EndpointExtra \/ Bos \/ Capability \/ Companion \/ NextConfig

Next == (Parse \/ Free) /\ UNCHANGED parser

Spec == Init /\ [][Next]_vars

----------------------------------------------------------------------------
(* Properties.                                                             *)

\* What a sound configuration may begin with: one configuration descriptor,
\* settings of no more interfaces than it declares, and after each of them the
\* endpoints it declares (fewer if it is the last).
Ifs(s) == {k \in DOMAIN s : s[k].type = "interface"}
EpsOf(s, k) == {e \in DOMAIN s : /\ s[e].type = "endpoint" /\ e > k
                                 /\ \A j \in Ifs(s) : ~(j \in (k + 1)..e)}
Groups(s) == {k \in Ifs(s) : \/ \A j \in Ifs(s) : j >= k
                             \/ s[Max({j \in Ifs(s) : j < k})].num # s[k].num}
SoundPrefix(s) ==
    /\ \A k \in DOMAIN s : s[k].type = "config" <=> k = 1
    /\ \A e \in DOMAIN s : s[e].type = "endpoint" => \E k \in Ifs(s) : k < e
    /\ Cardinality(Groups(s)) <= s[1].cnt
    /\ \A k \in Ifs(s) :
          \/ Cardinality(EpsOf(s, k)) = s[k].cnt
          \/ Cardinality(EpsOf(s, k)) < s[k].cnt /\ \A j \in Ifs(s) : j <= k
Sound(s) ==
    /\ s # <<>> /\ SoundPrefix(s)
    /\ Cardinality(Groups(s)) = s[1].cnt
    /\ \A k \in Ifs(s) : Cardinality(EpsOf(s, k)) = s[k].cnt

LengthOf(t) == CASE t = "config"    -> CONFIG_SIZE
                 [] t = "interface" -> INTERFACE_SIZE
                 [] t = "endpoint"  -> ENDPOINT_SIZE
                 [] OTHER           -> DESC_HEADER_LENGTH
Damaged == \/ left = 0 /\ ~Sound(seen)
           \/ left = 1
           \/ left > 1 /\ \/ next.len > left \/ next.len < LengthOf(next.type)
                           \/ ~SoundPrefix(Append(seen, next))

\* A configuration that is what it declares is parsed to its end, and the tree
\* has all of its descriptors: a parse stops, or fails, only at a descriptor
\* that is cut off, too short, out of place or more or less than declared.
ParsedToTheEnd ==
    parser = "config" /\ result \in {"SUCCESS", "IO"} =>
       \/ Damaged
       \/ /\ result = "SUCCESS" /\ (left = 0 \/ config.n = 0) /\ config.n = seen[1].cnt
          /\ Ifs(seen) = UNION {{config.ifs[k][a].at : a \in DOMAIN config.ifs[k]} :
                                k \in 1..config.n}

\* However damaged the input: in the tree that is returned the settings of an
\* interface have one number, and a setting has the endpoints that follow it.
WellNested ==
    result = "SUCCESS" =>
       \A k \in 1..config.n \cap DOMAIN config.ifs : \A a \in DOMAIN config.ifs[k] :
          LET x == config.ifs[k][a]
          IN /\ seen[x.at].num = seen[config.ifs[k][1].at].num
             /\ {x.eps[e] : e \in DOMAIN x.eps} \subseteq EpsOf(seen, x.at)

\* The tree is all of a sound configuration and, of a damaged one, never a
\* descriptor in the wrong place.
ParsedRight == ParsedToTheEnd /\ WellNested

\* Nothing that was parsed is lost by a parse that fails; when the tree of one
\* that succeeds is freed only the settings of the interface at which it
\* stopped remain (an array of one that no count covers).
OnlyTheCutLeaks ==
    /\ pc = "done" /\ result \notin {"SUCCESS", "none"} => mem = {}
    /\ pc = "freed" => mem \subseteq {<<"altsetting", config.n + 1>>}

\* Memory is freed once, also when realloc fails (usbi_reallocf frees it).
NothingFreedTwice == ~misused

\* libusb.h says of libusb_interface_descriptor.endpoint: "Array of endpoint
\* descriptors. This length of this array is determined by the bNumEndpoints
\* field."
EndpointsPresent ==
    result = "SUCCESS" =>
       \A k \in 1..config.n \cap DOMAIN config.ifs : \A a \in DOMAIN config.ifs[k] :
          /\ config.ifs[k][a].array <=> config.ifs[k][a].n > 0
          /\ Len(config.ifs[k][a].eps) = config.ifs[k][a].n
============================================================================
