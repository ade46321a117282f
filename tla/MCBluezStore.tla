------------------------------ MODULE MCBluezStore ------------------------------
EXTENDS BluezStore

\* Records with one key, a key in another spelling, a repeated field, a key
\* section without a key, a vendor's section, a malformed key, a malformed line
\* and a field that no section precedes; several differ in one half only.
MCDocuments == [
  cache |-> { <<Section("General"), Field("Name", "a"), Field("Alias", "a")>>,
              <<Section("General"), Field("Name", "b"), Field("Alias", "b")>> },
  info |-> {
    <<Section("LongTermKey"), Field("Key", "hex")>>,
    <<Section("LongTermKey"), Field("key", "hex"), Section("LinkKey"), Field("Key", "hex")>>,
    <<Section("LongTermKey"), Field("Key", "hex"),
      Section("SetIdentityResolvingKey"), Field("EncSize", "16")>>,
    <<Section("Vendor"), Field("Key", "hex"), Field("Key", "hex")>>,
    <<Section("LinkKey"), Field("Key", "short")>>,
    <<Section("LinkKey"), Malformed, Field("Key", "hex")>>,
    <<Field("Key", "hex")>> } ]
=============================================================================
