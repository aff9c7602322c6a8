--------------------------- MODULE MessageElements ---------------------------
(***************************************************************************)
(* How the entries of a DeviceEmulation become the attributes of elements  *)
(* (_device_emulation_types.py, _types.py) and what Device makes of these  *)
(* (_device.py).  A dictionary is a function, a message a function from    *)
(* the ids of its elements.  Where its type matters a Python object is a   *)
(* pair of its type and its value; the text of an attribute is the object  *)
(* that it was written from.                                               *)
(***************************************************************************)
EXTENDS ValueProperties
LOCAL INSTANCE Functions

CONSTANTS
  Raised,      \* the conversion raises an exception
  RADIO_MODE   \* the one type id whose value is an enumeration

\* The entries of an object or a dictionary that are not None.
Present(fields) == {k \in DOMAIN fields : fields[k] # None}

-----------------------------------------------------------------------------
(* Device description: info elements *)

\* BaseValueElement.toetree: the name of the attribute says the type.
KeyOf(object) ==
  CASE object[1] \in {"int", "float"} -> "number"
    [] object[1] = "str" -> "string"
    [] object[1] = "Hex" -> "hex"

InfoElement(object) == IF object = None THEN <<>> ELSE <<KeyOf(object), object>>

ReportDeviceDescription(dict) == [k \in DOMAIN dict |-> InfoElement(dict[k])]

\* _convert_attrib: a number is an int, which the text of a float is not; an
\* element without a value is None.
ConvertedAttribute(attribute) ==
  IF attribute = <<>> THEN None
  ELSE IF attribute[1] = "number" /\ attribute[2][1] = "float" THEN Raised
  ELSE attribute[2]

RadioModes == {<<"int", n>> : n \in 0..4}

\* One entry that cannot be converted, and there is no description.
ParseDeviceDescription(report) ==
  LET dict == [k \in DOMAIN report |-> ConvertedAttribute(report[k])] IN
  IF Raised \in Range(dict) \/ (RADIO_MODE \in DOMAIN dict /\ dict[RADIO_MODE] \notin RadioModes)
  THEN Raised
  ELSE dict

-----------------------------------------------------------------------------
(* Value description *)

\* BaseElement.toetree knows no type for these attributes and raises, in the
\* listener thread of the device, which then answers nothing.
Serializable(d) == {"min_log_interval", "max_log_values", "virtual"} \cap Present(d) = {}

\* The tag of the child element keeps the type, but numbers are alike.
FormatOf(type) == IF type \in {"int", "float"} THEN "number" ELSE type

ValueDescriptionElement(d) ==
  [format |-> FormatOf(d.type), attributes |-> Restrict(d, Present(d) \ {"type"})]

\* All limits are there, and are integers.
Integral(attributes) ==
  \A k \in {"min", "max", "step"} : k \in DOMAIN attributes /\ attributes[k] % One = 0

ParseValueDescription(element) ==
  LET attributes == element.attributes
      type == CASE element.format # "number" -> element.format
                [] element.format = "number" /\ Integral(attributes) -> "int"
                [] element.format = "number" /\ ~Integral(attributes) -> "float"
  IN  [k \in DOMAIN attributes \cup {"type"} |-> IF k = "type" THEN type ELSE attributes[k]]

-----------------------------------------------------------------------------
(* Service description and memory information: elements with integers only *)

\* The device keeps the version of a service; the client gets a dictionary with it.
ReportServiceDescription(dict) == [k \in DOMAIN dict |-> [version |-> dict[k]]]

\* What is left for other partners may well be a negative number, and what is
\* mocked replaces what was counted.
ReportMemoryInformation(device) ==
  LET counted ==
        [VALUE |-> [count |-> device.values, free_count |-> 0],
         PARTNER_INFORMATION |->
           [count |-> device.partner_information_count,
            free_count |-> device.partner_information_count - device.partners]]
      mocked == device.mock_memory_information
  IN  [k \in DOMAIN counted \cup DOMAIN mocked |->
         IF k \in DOMAIN mocked THEN mocked[k] ELSE counted[k]]
=============================================================================
