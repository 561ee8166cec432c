------------------------------ MODULE Platform ------------------------------
(***************************************************************************)
(* PlatformManager, which reads a directory of ini files into one          *)
(* PlatformConfigs for each SoC version, and PlatformInfo, which finds the *)
(* one of the device once and answers from its copy.                       *)
(***************************************************************************)
EXTENDS IniFile, FiniteSets, SequencesExt

CONSTANTS
  Directories,  \* sequences of ini files, in the order of readdir
  SocVersions   \* what rtGetSocVersion may say; "" if it fails

(* What is read of each of the files there may be.  The value of an entry   *)
(* is the text before its `|`, the text after it, "" if there is none, and  *)
(* the number the text starts with: [text, rest, number].                   *)
Files == UNION {ToSet(d) : d \in Directories}
Contents == [file \in Files |-> ParseIniFileToMap(file)]

ASSUME PlatformAssumption ==
  /\ \A d \in Directories : d \in Seq(Files)
  /\ \A file \in Files : IsFile(file)

VARIABLES
  directory,   \* ASDOPS_HOME_PATH's configs/platform_configs
  socVersion,  \* of the device
  initFlag,    \* PlatformManager's initFlag_
  configsMap,  \* its platformConfigsMap_: by SoC version
  info         \* PlatformInfo: constructed?, inited_, platformType_,
               \* platformName_, platformConfigs_

platform == <<directory, socVersion, initFlag, configsMap, info>>

NewInfo == [constructed |-> FALSE, inited |-> FALSE, type |-> "INVALID", name |-> "",
            configs |-> Nothing]

PlatformInit ==
  /\ directory \in Directories /\ socVersion \in SocVersions
  /\ initFlag = FALSE /\ configsMap = Nothing /\ info = NewInfo

-----------------------------------------------------------------------------
Intrinsics == {"AICoreintrinsicDtypeMap", "VectorCoreintrinsicDtypeMap"}

(***************************************************************************)
(* A section of intrinsics, whose entries are key=name|dtypes: the dtypes  *)
(* by the names, of which no two are the same in a file.                   *)
(***************************************************************************)
WellFormed(entries) == \A k \in DOMAIN entries : entries[k].rest # ""
ByName(entries) ==
  [n \in {entries[k].text : k \in DOMAIN entries} |->
     LET k == CHOOSE k \in DOMAIN entries : entries[k].text = n
     IN [text |-> entries[k].rest, rest |-> "", number |-> 0]]

(* ParsePlatformInfo: a PlatformConfigs of the content of a file.           *)
ParsePlatformInfo(content) ==
  [label \in DOMAIN content |->
     IF label \in Intrinsics THEN ByName(content[label]) ELSE content[label]]

(* GetPlatformSpec: what it finds, if anything.                             *)
GetPlatformSpec(configs, label, key) ==
  IF label \in DOMAIN configs /\ key \in DOMAIN configs[label] THEN {configs[label][key]} ELSE {}

(* AssemblePlatformInfoVector, of a file that could be read, into a map     *)
(* that may be left from a call that failed.                                *)
Assemble(r, file) ==
  LET content == Contents[file]
      configs == ParsePlatformInfo(content)
      wrong == \E label \in DOMAIN content \cap Intrinsics : ~WellFormed(content[label])
      version == GetPlatformSpec(content, "version", "SoC_version")
      twice == \E v \in version : v.text \in DOMAIN r.map
  IN CASE ~r.ok \/ (~wrong /\ version = {}) -> r
       [] r.ok /\ (wrong \/ twice) -> [r EXCEPT !.ok = FALSE]
       [] OTHER -> LET v == CHOOSE v \in version : TRUE
                   IN [r EXCEPT !.map = Emplaced(@, v.text, configs)]

(* LoadConfigFile, when the file after the first n cannot be read.          *)
LoadConfigFile(n) ==
  LET after[i \in 0 .. n] ==
        IF i = 0 THEN [ok |-> TRUE, map |-> configsMap] ELSE Assemble(after[i - 1], directory[i])
  IN [after[n] EXCEPT !.ok = @ /\ directory # <<>> /\ n = Len(directory)]

(***************************************************************************)
(* InitializePlatformManager: the initFlag and the map it may leave.  It   *)
(* fails before it reads a file if the path is not one, and after some if  *)
(* one cannot be read, is not well-formed, or has a version there was; the *)
(* map keeps what was read.                                                *)
(***************************************************************************)
Initialized ==
  IF initFlag THEN {[flag |-> TRUE, map |-> configsMap]}
  ELSE {[flag |-> FALSE, map |-> configsMap]}
         \cup {[flag |-> LoadConfigFile(n).ok, map |-> LoadConfigFile(n).map] : n \in 0 .. Len(directory)}

InitializePlatformManager ==
  /\ \E i \in Initialized : initFlag' = i.flag /\ configsMap' = i.map
  /\ UNCHANGED <<directory, socVersion, info>>

Finalize ==
  /\ initFlag /\ initFlag' = FALSE /\ configsMap' = Nothing
  /\ UNCHANGED <<directory, socVersion, info>>

-----------------------------------------------------------------------------
Real(version) == IF version = "Ascend910" THEN "Ascend910A" ELSE version

supportedPlatform ==
  [Ascend310P     |-> [type |-> "310P", name |-> "ascend310p"],
   Ascend910      |-> [type |-> "910A", name |-> "ascend910"],
   Ascend910B     |-> [type |-> "910B", name |-> "ascend910b"],
   Ascend910_93   |-> [type |-> "910B", name |-> "ascend910b"],
   Ascend910D     |-> [type |-> "910D", name |-> "ascend910_95"],
   Ascend910_9599 |-> [type |-> "910_9599", name |-> "ascend910_95"],
   Ascend910_95   |-> [type |-> "910_95", name |-> "ascend910_95"]]

(* Init's end: the name by which the binaries go.                           *)
Named(configs) ==
  LET short == {s.text : s \in GetPlatformSpec(configs, "version", "Short_SoC_version")}
      known == short \cap DOMAIN supportedPlatform
  IN IF known = {}
     THEN [NewInfo EXCEPT !.constructed = TRUE, !.configs = configs, !.name = "unrecognized"]
     ELSE LET s == supportedPlatform[CHOOSE s \in known : TRUE]
          IN [NewInfo EXCEPT !.constructed = TRUE, !.configs = configs,
                !.inited = TRUE, !.type = s.type, !.name = s.name]

(* PlatformInfo's constructor, in the first call of Instance.               *)
ConstructPlatformInfo ==
  /\ ~info.constructed
  /\ IF socVersion = ""
     THEN info' = [info EXCEPT !.constructed = TRUE] /\ UNCHANGED <<initFlag, configsMap>>
     ELSE \E i \in Initialized :
            /\ initFlag' = i.flag /\ configsMap' = i.map
            /\ info' = IF i.flag /\ Real(socVersion) \in DOMAIN i.map
                       THEN Named(i.map[Real(socVersion)])
                       ELSE [info EXCEPT !.constructed = TRUE]
  /\ UNCHANGED <<directory, socVersion>>

-----------------------------------------------------------------------------
MAX_CORE_NUM == 128

(* The number of a specification; the value of one that is not there.       *)
Number(specs, none) == IF specs = {} THEN none ELSE (CHOOSE s \in specs : TRUE).number

(* GetCoreNumByType.                                                        *)
CoreNumByType(key) ==
  LET n == Number(GetPlatformSpec(info.configs, "SoCInfo", key), 1)
  IN IF n > MAX_CORE_NUM THEN 1 ELSE n

GetCoreNum(type) ==
  IF info.type \in {"910B", "910D"} /\ type = "vector"
  THEN CoreNumByType("vector_core_cnt") ELSE CoreNumByType("ai_core_cnt")

(* GetUbSize, GetL2Size and the other sizes, by GetLocalMemSize.            *)
GetLocalMemSize(label, key) == Number(GetPlatformSpec(info.configs, label, key), 0)

SupportL0c2out ==
  GetPlatformSpec(info.configs, "AICoreintrinsicDtypeMap", "Intrinsic_fix_pipe_l0c2out") # {}

-----------------------------------------------------------------------------
(* What each file says, without regard to how it is read.                    *)
Said == [file \in Files |-> Says(file)]

SectionSaid(file, label) == IF label \in DOMAIN Said[file] THEN Said[file][label] ELSE Nothing
Texts(specs) == {s.text : s \in specs}
Versions(file) == Texts(GetPlatformSpec(Said[file], "version", "SoC_version"))
FilesOf(version) == {file \in ToSet(directory) : version \in Versions(file)}

(* Once PlatformManager is initialised, also by a second call after one     *)
(* that failed, it has the configurations of every file that has a version, *)
(* with what the file says and nothing else, and no two files had the same. *)
(* PlatformInfo's numbers are those of the device's file, whatever          *)
(* PlatformManager forgets later.                                           *)
PlatformAsConfigured ==
  /\ initFlag =>
       /\ DOMAIN configsMap = UNION {Versions(file) : file \in ToSet(directory)}
       /\ \A v \in DOMAIN configsMap :
            /\ Cardinality({i \in DOMAIN directory : v \in Versions(directory[i])}) = 1
            /\ \E file \in FilesOf(v) : configsMap[v] = ParsePlatformInfo(Said[file])
  /\ info.inited =>
       \E file \in FilesOf(Real(socVersion)) :
         LET says(label, key, none) == Number(GetPlatformSpec(Said[file], label, key), none)
             cores(key) == IF says("SoCInfo", key, 1) > MAX_CORE_NUM THEN 1 ELSE says("SoCInfo", key, 1)
         IN /\ GetCoreNum("cube") = cores("ai_core_cnt")
            /\ info.name = "ascend910b" => GetCoreNum("vector") = cores("vector_core_cnt")
            /\ GetLocalMemSize("AICoreSpec", "ub_size") = says("AICoreSpec", "ub_size", 0)
            /\ SupportL0c2out <=>
                 \E key \in DOMAIN SectionSaid(file, "AICoreintrinsicDtypeMap") :
                   SectionSaid(file, "AICoreintrinsicDtypeMap")[key].text = "Intrinsic_fix_pipe_l0c2out"
=============================================================================
