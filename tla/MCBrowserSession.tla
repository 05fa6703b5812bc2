------------------------- MODULE MCBrowserSession --------------------------
EXTENDS BrowserSession

\* A fingerprint for Chrome, with geolocation.
Request ==
  [engine |-> "system_chrome", executable |-> "unset", features |-> {},
   fields |-> Fields, geo |-> TRUE, url |-> TRUE, capture |-> FALSE,
   proxy |-> "none", auth |-> FALSE, compat |-> FALSE]

\* The same, for a Doke Chromium that the profile names and vouches for.
Doke ==
  [Request EXCEPT !.engine = "doke_chromium", !.executable = "good",
                  !.features = Capabilities, !.url = FALSE, !.compat = TRUE]

\* Nothing but a proxy.
Proxied == [Request EXCEPT !.fields = {}, !.geo = FALSE, !.proxy = "http", !.auth = TRUE]

World ==
  [path |-> "unset", named |-> FALSE, chrome |-> TRUE, supports |-> Capabilities,
   probed |-> TRUE, written |-> TRUE, extension |-> TRUE, port |-> TRUE, listens |-> TRUE]

\* Refused launches, and what goes wrong one after the other.
MCOffered ==
  {<<Request, World>>,
   <<Request, [World EXCEPT !.extension = FALSE]>>,
   <<Request, [World EXCEPT !.port = FALSE]>>,
   <<Doke, World>>,
   <<Doke, [World EXCEPT !.supports = {}]>>,
   <<Doke, [World EXCEPT !.supports = {"native_fingerprint"}]>>,
   <<Doke, [World EXCEPT !.supports = {"native_geoip"}]>>,
   <<Doke, [World EXCEPT !.probed = FALSE]>>,
   <<Doke, [World EXCEPT !.written = FALSE]>>,
   <<[Doke EXCEPT !.executable = "bad"], World>>,
   <<[Doke EXCEPT !.executable = "unset"], [World EXCEPT !.path = "bad", !.named = TRUE]>>,
   <<[Doke EXCEPT !.features = {}, !.fields = {"resolution", "timezone"}], World>>,
   <<[Request EXCEPT !.engine = "cef"], World>>,
   <<Proxied, World>>,
   <<Proxied, [World EXCEPT !.listens = FALSE]>>}
=============================================================================
