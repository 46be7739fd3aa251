---------------------------- MODULE BuildRecipe ----------------------------
(***************************************************************************)
(* The Conan recipe of the gateway build (src/conanfile.py), driven by    *)
(* `conan install` the way Conan calls a recipe's methods:                *)
(*   config_options -> requirements -> layout -> generate -> imports      *)
(* where imports() is a Conan 1 hook that Conan 2 no longer calls.        *)
(*                                                                         *)
(* Simplifications:                                                       *)
(*  - The environment is chosen in Init: the host OS and Conan's major    *)
(*    version; both are settings the recipe does not fix.                 *)
(*  - A package is its name; versions are left out.  A dependency option  *)
(*    pattern "pkg/*" is the package name.                                *)
(*  - Only the dependency options the properties tell apart are kept:     *)
(*    sharedness, Arrow's Flight and gflags switches, actor-zeta's fPIC.  *)
(*    Arrow's codecs, Boost's charconv and actor-zeta's language switches *)
(*    are set by the same method and left out.                            *)
(*  - An override requirement adds nothing to the graph by itself; it is  *)
(*    in the graph when another package pulls it.  Arrow pulls gflags     *)
(*    when with_gflags is set; which overrides the other packages pull    *)
(*    is chosen in Init.                                                  *)
(*  - Package layout follows the Conan Center convention: a shared        *)
(*    library lives in bin/ on Windows (DLL) and in lib/ elsewhere.       *)
(***************************************************************************)
EXTENDS FiniteSets

CONSTANTS
    OSes,           \* values of settings.os
    ConanMajors     \* the Conan major versions that run the recipe

VARIABLES
    stage,       \* the recipe method Conan calls next, or "done"
    os,          \* settings.os
    conan,       \* the Conan major version
    pulled,      \* override packages that some other package requires
    options,     \* the recipe's own options: name -> value
    depOptions,  \* options set for dependencies: package -> record
    requires,    \* direct requirements
    overrides,   \* requirements declared with override=True
    generated,   \* packages CMakeDeps wrote a config for
    deployed     \* packages whose shared libraries imports() put in bin/

vars == <<stage, os, conan, pulled, options, depOptions, requires,
          overrides, generated, deployed>>

Stages == {"config_options", "requirements", "layout", "generate",
           "imports", "done"}

\* Every package requirements() names, direct or override.
Packages == {"arrow", "openssl", "boost", "fmt", "spdlog", "msgpack-cxx",
             "catch2", "grpc", "gflags", "abseil", "benchmark", "zlib",
             "bzip2", "otterbrix", "magic_enum", "actor-zeta"}

\* class attributes options / default_options
DefaultOptions == [shared |-> FALSE, fPIC |-> TRUE]

\* The packages in the dependency graph: the direct requirements and the
\* overrides something pulls in.
Graph ==
    requires \cup
        {o \in overrides :
            o \in pulled
            \/ (o = "gflags" /\ "arrow" \in requires
                /\ depOptions["arrow"].with_gflags)}

\* Packages of the graph built as shared libraries.
SharedDeps ==
    {d \in Graph \cap DOMAIN depOptions :
        "shared" \in DOMAIN depOptions[d] /\ depOptions[d].shared}

\* Where a package keeps its shared libraries, and their suffix.
LibFolder(o) == IF o = "Windows" THEN "bin" ELSE "lib"
LibSuffix(o) ==
    CASE o = "Windows" -> "dll" [] o = "Macos" -> "dylib" [] OTHER -> "so"

\* Mutant of ArrowOptions: the with_grpc assignment is dropped, leaving
\* Arrow's default.
ArrowOptionsNoGrpc ==
    [shared |-> TRUE, with_flight_sql |-> TRUE, with_protobuf |-> TRUE,
     with_grpc |-> FALSE, with_flight_rpc |-> TRUE, with_gflags |-> TRUE,
     use_system_gflags |-> TRUE]

\* self.options["arrow/*"].<option> = True, for the options kept.
ArrowOptions ==
    [shared |-> TRUE, with_flight_sql |-> TRUE, with_protobuf |-> TRUE,
     with_grpc |-> TRUE, with_flight_rpc |-> TRUE, with_gflags |-> TRUE,
     use_system_gflags |-> TRUE]

\* Mutant of DependencyOptions: the pattern of otterbrix is misspelt.
DependencyOptionsTypo ==
    [p \in {"gflags", "arrow", "otterbrx", "boost", "actor-zeta"} |->
        CASE p = "arrow" -> ArrowOptions
          [] p = "actor-zeta" -> [fPIC |-> TRUE]
          [] OTHER -> [shared |-> TRUE]]

\* The options config_options sets for the packages matching "pkg/*".
DependencyOptions ==
    [p \in {"gflags", "arrow", "otterbrix", "boost", "actor-zeta"} |->
        CASE p = "arrow" -> ArrowOptions
          [] p = "actor-zeta" -> [fPIC |-> TRUE]
          [] OTHER -> [shared |-> TRUE]]

\* config_options: fPIC is deleted on Windows, then the dependencies'
\* options are set.
ConfigOptions ==
    /\ stage = "config_options"
    /\ options' = IF os = "Windows"
                     THEN [n \in {"shared"} |-> options[n]] ELSE options
    /\ depOptions' = DependencyOptions
    /\ stage' = "requirements"
    /\ UNCHANGED <<os, conan, pulled, requires, overrides, generated, deployed>>

\* Mutant of Requirements: the otterbrix requirement is dropped.
RequirementsNoOtterbrix ==
    /\ stage = "requirements"
    /\ overrides' = {"boost", "gflags"}
    /\ requires' = Packages \ (overrides' \cup {"otterbrix"})
    /\ stage' = "layout"
    /\ UNCHANGED <<os, conan, pulled, options, depOptions, generated, deployed>>

\* requirements: sixteen self.requires calls, boost and gflags with
\* override=True.
Requirements ==
    /\ stage = "requirements"
    /\ overrides' = {"boost", "gflags"}
    /\ requires' = Packages \ overrides'
    /\ stage' = "layout"
    /\ UNCHANGED <<os, conan, pulled, options, depOptions, generated, deployed>>

\* layout: cmake_layout(self) sets the source and build folders.
Layout ==
    /\ stage = "layout"
    /\ stage' = "generate"
    /\ UNCHANGED <<os, conan, pulled, options, depOptions, requires,
                   overrides, generated, deployed>>

\* generate: CMakeToolchain writes the toolchain, CMakeDeps a config file
\* for every package of the graph.  Conan 2 is done after it.
Generate ==
    /\ stage = "generate"
    /\ generated' = Graph
    /\ stage' = IF conan = 1 THEN "imports" ELSE "done"
    /\ UNCHANGED <<os, conan, pulled, options, depOptions, requires,
                   overrides, deployed>>

\* imports (Conan 1): self.copy("*.dll" | "*.dylib*" | "*.so*",
\* src="lib", dst="bin") from every package of the graph.
Imports ==
    /\ stage = "imports"
    /\ deployed' = {d \in SharedDeps :
                      LibFolder(os) = "lib"
                      /\ LibSuffix(os) \in {"dll", "dylib", "so"}}
    /\ stage' = "done"
    /\ UNCHANGED <<os, conan, pulled, options, depOptions, requires,
                   overrides, generated>>

Init ==
    /\ stage = "config_options"
    /\ os \in OSes
    /\ conan \in ConanMajors
    /\ pulled \in SUBSET {"boost", "gflags"}
    /\ options = DefaultOptions
    /\ depOptions = [p \in {} |-> [shared |-> FALSE]]
    /\ requires = {}
    /\ overrides = {}
    /\ generated = {}
    /\ deployed = {}

Next ==
    \/ ConfigOptions \/ Requirements \/ Layout \/ Generate \/ Imports

Spec == Init /\ [][Next]_vars

(***************************************************************************)
(* Properties                                                             *)
(***************************************************************************)
TypeOK ==
    /\ stage \in Stages
    /\ os \in OSes
    /\ conan \in ConanMajors
    /\ DOMAIN options \in {{"shared"}, {"shared", "fPIC"}}
    /\ DOMAIN depOptions \subseteq Packages
    /\ requires \cup overrides \subseteq Packages
    /\ generated \subseteq Packages
    /\ deployed \subseteq generated

\* Once Conan has the whole recipe, every package config_options gives
\* options to is one requirements() names: an option set on a pattern no
\* requirement matches is silently ignored by Conan.
DepOptionsTargetRequired ==
    stage \in {"layout", "generate", "imports", "done"} =>
        DOMAIN depOptions \subseteq requires \cup overrides

\* The Arrow the gateway links is buildable as configured: Flight SQL
\* needs Flight RPC, which needs gRPC and protobuf; and a shared Arrow
\* built on the system gflags finds gflags in the graph, built shared
\* too (a static gflags linked into two shared libraries registers its
\* flags twice).
ArrowBuildCoherent ==
    stage \in {"layout", "generate", "imports", "done"} =>
        LET a == depOptions["arrow"] IN
        /\ a.with_flight_sql => a.with_flight_rpc
        /\ a.with_flight_rpc => a.with_grpc /\ a.with_protobuf
        /\ a.shared /\ a.with_gflags /\ a.use_system_gflags =>
              "gflags" \in SharedDeps

\* The comment of imports(): after `conan install` the shared libraries
\* of every shared dependency are next to the binaries, in bin/.
RuntimeLibrariesDeployed ==
    stage = "done" => SharedDeps \subseteq deployed
====
