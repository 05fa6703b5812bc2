--------------------------- MODULE BrowserLaunch ---------------------------
(***************************************************************************)
(* What the agent decides when it launches a browser: which executable,    *)
(* what the Doke Chromium binary itself takes over, and what is left to    *)
(* the extension, to CDP and to the proxy mapper.  A request says which    *)
(* fields of the fingerprint it sets, not to what.                         *)
(***************************************************************************)
EXTENDS Naturals, FiniteSets

\* "hardware" stands for the fields that only the injected script can set.
Fields == {"language", "userAgent", "timezone", "touch", "hardware", "resolution"}

\* native_proxy and native_humanize decide nothing yet and are left out.
Capabilities == {"native_fingerprint", "native_geoip"}

Engines == {"system_chrome", "doke_chromium", "cef"}

\* parseStartRequest with the engine's config in it: its executable, and the
\* features it declares.
Requests ==
  [engine : Engines, executable : {"unset", "good", "bad"}, features : SUBSET Capabilities,
   fields : SUBSET Fields, geo : BOOLEAN, url : BOOLEAN, capture : BOOLEAN,
   proxy : {"none", "http", "socks5"}, auth : BOOLEAN, compat : BOOLEAN]

\* What the machine has: DOKE_CHROMIUM_PATH, a name in PATH, Chrome, what the
\* binary can do and whether it says so; and what goes well in this launch.
Worlds ==
  [path : {"unset", "good", "bad"}, named : BOOLEAN, chrome : BOOLEAN,
   supports : SUBSET Capabilities, probed : BOOLEAN,
   written : BOOLEAN, extension : BOOLEAN, port : BOOLEAN, listens : BOOLEAN]

-----------------------------------------------------------------------------
(* The executable and what it can do                                       *)

(* An explicit path is used or refused, and nothing else is tried. *)
resolve(r, w) ==
  IF r.executable # "unset" THEN r.executable = "good"
  ELSE IF w.path # "unset" THEN w.path = "good" ELSE w.named

hasExecutable(r, w) ==
  \/ r.engine = "system_chrome" /\ w.chrome
  \/ r.engine = "doke_chromium" /\ resolve(r, w)

(* nativeCapabilities: empty when the probe cannot be started, crashes,     *)
(* exits with an error, takes too long, or prints nothing that is JSON.     *)
probe(r, w) == IF r.engine = "doke_chromium" /\ w.probed THEN w.supports ELSE {}

(* Mutant: what the profile declares is believed. *)
declared(r, w) == r.features

(* Declared by the profile and reported by the binary. *)
native(r, w) == r.features \cap probe(r, w)

-----------------------------------------------------------------------------
(* What is left to the agent                                               *)

fingerprintFallbackNeeded(r, w) ==
  "native_fingerprint" \notin native(r, w) /\ r.fields \ {"resolution"} # {}

geoFallbackNeeded(r, w) == r.geo /\ "native_geoip" \notin native(r, w)

needInject(r, w) == fingerprintFallbackNeeded(r, w) \/ geoFallbackNeeded(r, w)

fallbackFields(r, w) == IF fingerprintFallbackNeeded(r, w) THEN r.fields ELSE {}

(* buildProxyConfig: SOCKS takes the credentials in the argument; for HTTP  *)
(* a mapper adds them, or the extension if the mapper cannot listen.        *)
proxyMapper(r, w) == r.proxy = "http" /\ r.auth /\ w.listens
enableProxyAuth(r, w) == r.proxy = "http" /\ r.auth /\ ~w.listens

debugPort(r, w) == (needInject(r, w) \/ r.capture) /\ w.port

needsExtension(r, w) == needInject(r, w) \/ enableProxyAuth(r, w)

(* The fields its inject.js sets; its files may not be written. *)
createProfileExtension(r, w) ==
  IF needsExtension(r, w) /\ w.extension THEN fallbackFields(r, w) ELSE {}

(* Doke/runtime.json: what the binary shall do, and what the agent does.    *)
runtimeConfig(r, w) ==
  [native   |-> native(r, w),
   fallback |-> [fingerprint |-> fingerprintFallbackNeeded(r, w),
                 geoip       |-> geoFallbackNeeded(r, w),
                 proxyAuth   |-> enableProxyAuth(r, w)],
   debugPortRequired |-> needInject(r, w) \/ r.capture]

(* Fields that are also given as arguments; a relaunch gives them again.    *)
buildArguments(r) == r.fields \ {"hardware"}

(* An unsupported engine, no executable, or no runtime.json. *)
refused(r, w) ==
  ~hasExecutable(r, w) \/ (r.engine = "doke_chromium" /\ ~w.written)

NoPlan ==
  [native |-> {}, fields |-> {}, geo |-> FALSE, override |-> {}, overrideGeo |-> FALSE,
   metrics |-> FALSE, url |-> FALSE, cdp |-> FALSE, extension |-> FALSE, injected |-> {},
   mapper |-> FALSE, compat |-> FALSE]

(* The launch, as the browser and the CDP client see it.  The binary does  *)
(* what runtime.json asks of it, if it can.                                 *)
plan(r, w) ==
  [native      |-> runtimeConfig(r, w).native \cap w.supports,
   fields      |-> r.fields,
   geo         |-> r.geo,
   override    |-> fallbackFields(r, w),
   overrideGeo |-> geoFallbackNeeded(r, w),
   metrics     |-> r.engine # "doke_chromium",
   url         |-> r.url,
   cdp         |-> needInject(r, w) /\ debugPort(r, w),
   extension   |-> w.extension,
   injected    |-> buildArguments(r) \cup createProfileExtension(r, w),
   mapper      |-> proxyMapper(r, w),
   compat      |-> r.compat]
=============================================================================
