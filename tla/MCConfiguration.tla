--------------------------- MODULE MCConfiguration ---------------------------
(* Files of a few lines, with room for two entries in a new dictionary.      *)
EXTENDS Configuration

Section(s) == [kind |-> "section", name |-> s, val |-> 0, more |-> FALSE]
Value(k, v) == [kind |-> "value", name |-> k, val |-> v, more |-> FALSE]
Other(kind) == [kind |-> kind, name |-> "", val |-> 0, more |-> FALSE]
Continued(l) == [l EXCEPT !.more = TRUE]

SomeLines == {Section("motion control"), Section("socket"),
              Value("max_left_position", -9),
              Continued(Value("max_left_position", Text)), Value("server_port", 7),
              Value("imme_acceleration_time", -1),
              Other("noise"), Continued(Other("noise")), Other("bad"), Other("long")}

ExampleLines == <<Section("motion control"), Value("max_left_position", -1),
                  Value("max_right_position", 1), Value("imme_acceleration_time", 2),
                  Section("socket"), Value("server_port", 5)>>

Defaults == [s \in Settings |->
    CASE s = "max_left_position" -> -1 [] s = "max_right_position" -> 1
      [] s = "imme_acceleration_time" -> 2 [] s = "server_port" -> 5]

=============================================================================
