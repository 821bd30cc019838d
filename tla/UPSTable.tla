------------------------------ MODULE UPSTable ------------------------------
(***************************************************************************)
(* The data of docs/website/scripts/ups_data.js: the array literal that    *)
(* initialises the global UPSData.  Each element is itself an array       *)
(* literal [supportLevel, vendor, model, note, driver]; it is written here *)
(* as the 5-tuple <<level, vendor, model, note, driver>> of the values the *)
(* JavaScript literals evaluate to (the one escape in the file, "\/" on    *)
(* line 210, evaluates to "/").  The literal is split into four segments  *)
(* by source line so that every segment names the lines it transcribes;  *)
(* within a segment the rows are listed two to a line, in source order.   *)
(***************************************************************************)
EXTENDS Naturals, Sequences

(* Rows authored on lines 3-150 of ups_data.js. *)
UPSDataA ==
  << <<3, "Ablerex", "MS-RT", "", "megatec">>, <<3, "Ablerex", "625L", "USB", "megatec_usb">>
   , <<3, "Ablerex", "Hope Office 400/600", "", "megatec">>, <<3, "ActivePower", "400VA", "", "megatec">>
   , <<3, "ActivePower", "1400VA", "", "megatec">>, <<3, "ActivePower", "2000VA", "", "megatec">>
   , <<3, "Advice", "TopGuard 2000", "", "megatec">>, <<3, "AEC", "MiniGuard UPS 700", "Megatec M2501 cable", "genericups upstype=21">>
   , <<1, "APC", "Back-UPS Pro", "", "apcsmart">>, <<1, "APC", "Matrix-UPS", "", "apcsmart">>
   , <<1, "APC", "Smart-UPS", "", "apcsmart">>, <<1, "APC", "Back-UPS Pro USB", "USB", "usbhid-ups">>
   , <<1, "APC", "Back-UPS USB", "USB", "usbhid-ups">>, <<1, "APC", "Back-UPS RS USB", "USB", "usbhid-ups">>
   , <<1, "APC", "Back-UPS LS USB", "USB", "usbhid-ups">>, <<1, "APC", "Back-UPS ES/CyberFort 350", "USB", "usbhid-ups">>
   , <<1, "APC", "Back-UPS BF500", "USB", "usbhid-ups">>, <<1, "APC", "BACK-UPS XS LCD", "USB", "usbhid-ups">>
   , <<1, "APC", "Smart-UPS USB", "USB", "usbhid-ups">>, <<1, "APC", "Back-UPS", "940-0095A/C cables", "genericups upstype=1">>
   , <<1, "APC", "Back-UPS", "940-0020B/C cables", "genericups upstype=2">>, <<1, "APC", "Back-UPS", "940-0023A cable", "genericups upstype=9">>
   , <<1, "APC", "Back-UPS Office", "940-0119A cable", "genericups upstype=12">>, <<1, "APC", "Back-UPS RS 500", "custom non-USB cable", "genericups upstype=20">>
   , <<1, "APC", "Masterswitch", "Not a UPS - 940-0020 cable", "genericups upstype=12">>, <<1, "APC", "AP9210", "8 outlets", "powerman-pdu (experimental)">>
   , <<1, "APC", "AP79xx", "8 to 24 outlets", "powerman-pdu (experimental)">>, <<1, "APC", "(various)", "SNMP monitoring card", "snmp-ups (experimental)">>
   , <<3, "Aphel", "PDU", "no report, but various models should be supported", "snmp-ups (experimental)">>, <<3, "Apollo", "1000A", "", "genericups upstype=4">>
   , <<3, "Apollo", "1000F", "", "genericups upstype=4">>, <<3, "Appro", "SWPDU", "48 outlets", "powerman-pdu (experimental)">>
   , <<3, "Atlantis Land", "A03-P826", "", "megatec">>, <<3, "Baytech", "RPC3", "8 outlets", "powerman-pdu (experimental)">>
   , <<3, "Baytech", "RPC3-20NC", "8 outlets", "powerman-pdu (experimental)">>, <<3, "Baytech", "RPC28-30NC", "20 outlets", "powerman-pdu (experimental)">>
   , <<3, "Baytech", "various RPC", "", "snmp-ups">>, <<3, "Belkin", "Active Battery Backup BU30 series", "USB", "megatec_usb">>
   , <<3, "Belkin", "Home Office F6H350-SER", "", "genericups upstype=7">>, <<3, "Belkin", "Home Office F6H500-SER", "", "genericups upstype=7">>
   , <<3, "Belkin", "Home Office F6H650-SER", "", "genericups upstype=7">>, <<3, "Belkin", "F6H375-USB", "USB (<= 2005 models, vendor id: 050d)", "usbhid-ups">>
   , <<3, "Belkin", "F6H375-USB", "USB (2007 models, vendor id: 0665)", "megatec_usb">>, <<3, "Belkin", "Office Series F6C550-AVR", "USB", "usbhid-ups">>
   , <<3, "Belkin", "Regulator Pro", "F6C525-SER, F6C625-SER", "belkin">>, <<3, "Belkin", "Resource", "", "genericups upstype=4">>
   , <<3, "Belkin", "Small Enterprise F6C1500-TW-RK", "serial port", "belkin">>, <<3, "Belkin", "Small Enterprise F6C1500-TW-RK", "USB", "usbhid-ups">>
   , <<3, "Belkin", "Universal UPS F6C100-UNV", "USB", "usbhid-ups">>, <<3, "Belkin", "Universal UPS F6C120-UNV", "serial port", "belkinunv">>
   , <<3, "Belkin", "Universal UPS F6C120-UNV", "USB", "usbhid-ups">>, <<3, "Belkin", "Universal UPS F6C800-UNV", "serial port", "belkinunv">>
   , <<3, "Belkin", "Universal UPS F6C800-UNV", "USB", "usbhid-ups">>, <<3, "Belkin", "Universal UPS F6C1100-UNV", "serial port (<= 2005 models)", "belkinunv">>
   , <<3, "Belkin", "Universal UPS F6C1100-UNV", "USB (<= 2005 models, vendor id: 050d)", "usbhid-ups">>, <<3, "Belkin", "Universal UPS F6C1100-UNV", "USB (2007 models, vendor id: 0665)", "megatec_usb">>
   , <<3, "Belkin", "Universal UPS F6C1200-UNV", "USB (<= 2005 models, vendor id: 050d)", "usbhid-ups">>, <<3, "Belkin", "Universal UPS F6C1200-UNV", "USB (2007 models, vendor id: 0665)", "megatec_usb">>
   , <<3, "Belkin", "Universal UPS F6H350deUNV", "serial port", "megatec">>, <<3, "Belkin", "Universal UPS F6H350ukUNV", "serial port", "megatec">>
   , <<3, "Belkin", "Universal UPS F6H500ukUNV", "serial port", "megatec">>, <<3, "Belkin", "Universal UPS F6H650ukUNV", "serial port", "megatec">>
   , <<3, "Best Power", "Fortress (newer)", "", "bestups">>, <<3, "Best Power", "Fortress Telecom", "", "bestups">>
   , <<3, "Best Power", "Axxium Rackmount", "", "bestups">>, <<3, "Best Power", "Patriot Pro", "", "bestups">>
   , <<3, "Best Power", "Patriot Pro II", "", "bestups">>, <<3, "Best Power", "Patriot", "INT51 cable", "genericups upstype=6">>
   , <<3, "Best Power", "Micro-Ferrups", "", "bestuferrups">>, <<3, "Best Power", "Fortress/Ferrups", "f-command support", "bestfcom">>
   , <<3, "Chloride", "Desk Power 650", "serial port", "megatec">>, <<3, "Cito Power", "CPG-SR1000", "", "megatec">>
   , <<3, "Clary", "ST-800", "", "gamatronic">>, <<3, "Compaq", "T1500h", "", "upscode2 use_pre_lf">>
   , <<3, "Compaq", "R3000h", "", "upscode2">>, <<3, "Compaq", "R3000 XR", "", "bcmxcp">>
   , <<3, "Compaq", "R5500 XR", "", "bcmxcp">>, <<3, "Cyber Power Systems", "320AVR", "", "powerpanel or cyberpower">>
   , <<3, "Cyber Power Systems", "500AVR", "", "powerpanel or cyberpower">>, <<3, "Cyber Power Systems", "650AVR", "", "powerpanel or cyberpower">>
   , <<3, "Cyber Power Systems", "700AVR", "", "powerpanel or cyberpower">>, <<3, "Cyber Power Systems", "800AVR", "", "powerpanel or cyberpower">>
   , <<3, "Cyber Power Systems", "850AVR", "", "powerpanel or cyberpower">>, <<3, "Cyber Power Systems", "900AVR", "", "powerpanel or cyberpower">>
   , <<3, "Cyber Power Systems", "1250AVR", "", "powerpanel or cyberpower">>, <<3, "Cyber Power Systems", "1500AVR", "", "powerpanel or cyberpower">>
   , <<3, "Cyber Power Systems", "Power99", "", "genericups upstype=7">>, <<3, "Cyber Power Systems", "550SL", "", "genericups upstype=7">>
   , <<3, "Cyber Power Systems", "725SL", "", "genericups upstype=7">>, <<3, "Cyber Power Systems", "CPS825VA", "", "powerpanel">>
   , <<3, "Cyber Power Systems", "1100AVR", "", "powerpanel">>, <<3, "Cyber Power Systems", "1200AVR", "", "powerpanel">>
   , <<3, "Cyber Power Systems", "1500AVR-HO", "", "powerpanel">>, <<3, "Cyber Power Systems", "PR2200", "", "powerpanel">>
   , <<3, "Cyber Power Systems", "PR3000E", "", "powerpanel (experimental)">>, <<3, "Cyber Power Systems", "685AVR", "USB", "usbhid-ups">>
   , <<3, "Cyber Power Systems", "800AVR", "USB", "usbhid-ups">>, <<3, "Cyber Power Systems", "AE550", "USB", "usbhid-ups">>
   , <<3, "Cyber Power Systems", "CP 1500C", "USB", "usbhid-ups">>, <<3, "Cyber Power Systems", "Value 400E", "USB", "usbhid-ups">>
   , <<3, "Cyber Power Systems", "Value 600E", "USB", "usbhid-ups">>, <<3, "Cyber Power Systems", "Value 800E", "USB", "usbhid-ups">>
   , <<3, "Cyclades", "PM8", "8 outlets", "powerman-pdu (experimental)">>, <<3, "Cyclades", "PM10", "10 outlets", "powerman-pdu (experimental)">>
   , <<3, "Delta", "GES602N", "", "belkin">>, <<3, "Deltec", "PowerRite Pro II", "", "genericups upstype=15">>
   , <<3, "Digital Loggers", "LPC, EPCR2, DIN", "8 outlets", "powerman-pdu (experimental)">>, <<3, "Digitus", "DN-170020", "", "megatec">>
   , <<3, "Dynamix", "UPS1700D", "", "megatec">>, <<3, "Dynamix", "UPS-650VA", "", "megatec ignoreoff">>
   , <<3, "Dynex", "975AVR", "", "genericups upstype=7">>, <<3, "Dynex", "DX-800U", "USB", "usbhid-ups">>
   , <<5, "Eaton", "Protection Station 500/650/800 VA", "USB", "usbhid-ups">>, <<5, "Eaton", "Ellipse ASR USBS 600/750/1000/1500 VA", "USB cable", "usbhid-ups">>
   , <<5, "Eaton", "Ellipse MAX USBS 600/850/1100/1500 VA", "USB cable", "usbhid-ups">>, <<5, "Eaton", "Evolution 650/850/1150/1550/2000 VA", "USB port", "usbhid-ups">>
   , <<5, "Eaton", "Evolution S 1250/1750/2500/3000 VA", "USB port", "usbhid-ups">>, <<5, "Eaton", "EX 700/1000/1500 VA", "USB port", "usbhid-ups">>
   , <<5, "Eaton", "EX 2200/3000/3000 XL VA", "USB port", "usbhid-ups">>, <<5, "Eaton", "EX 1000 RT2U / 1500 RT2U", "USB port", "usbhid-ups">>
   , <<5, "Eaton", "MX 5/8/10/15/20 kVA", "USB port", "usbhid-ups">>, <<5, "Eaton", "Nova AVR 625/1250", "USB", "usbhid-ups">>
   , <<5, "Eaton", "Ellipse ASR USBS 600/750/1000/1500 VA", "Serial cable", "mge-shut or newmge-shut">>, <<5, "Eaton", "Ellipse MAX USBS 600/850/1100/1500 VA", "Serial cable", "mge-shut or newmge-shut">>
   , <<5, "Eaton", "Evolution 650/850/1150/1550/2000 VA", "Serial port", "mge-shut or newmge-shut">>, <<5, "Eaton", "Evolution S 1250/1750/2500/3000 VA", "Serial port", "mge-shut or newmge-shut">>
   , <<5, "Eaton", "EX 700/1000/1500 VA", "Serial port", "mge-shut or newmge-shut">>, <<5, "Eaton", "EX 2200/3000/3000 XL VA", "Serial port", "mge-shut or newmge-shut">>
   , <<5, "Eaton", "EX 1000 RT2U / 1500 RT2U", "Serial port", "mge-shut or newmge-shut">>, <<5, "Eaton", "MX 5/8/10/15/20 kVA", "Serial port", "mge-shut or newmge-shut">>
   , <<5, "Eaton", "EX RT 1:1 7/11 kVA", "", "mge-shut or newmge-shut">>, <<5, "Eaton", "EX RT 3:1 5/7/11 kVA", "", "mge-shut or newmge-shut">>
   , <<5, "Eaton", "EX RT (XML/HTTP)", "NMC Transverse card (ref 66074)", "netxml-ups (experimental)">>, <<5, "Eaton", "EX RT (SNMP)", "NMC Transverse card (ref 66074)", "snmp-ups (experimental)">>
   , <<5, "Eaton", "BladeUPS (SNMP)", "ConnectUPS Web/SNMP Card", "snmp-ups (experimental)">>, <<5, "Eaton", "various models (XML/HTTP mode)", "NMC Minislot (Ref 66102)", "netxml-ups (experimental)">>
   , <<5, "Eaton", "various models (SNMP mode)", "NMC Minislot (Ref 66102)", "snmp-ups (experimental)">>, <<5, "Eaton", "various models (XML/HTTP mode)", "SNMP/Web Minislot card (ref 66244)", "netxml-ups (experimental)">>
   , <<5, "Eaton", "various models (SNMP mode)", "SNMP/Web Minislot card (ref 66244)", "snmp-ups (experimental)">>, <<5, "Eaton", "Powerware ePDU Managed", "", "snmp-ups (experimental)">>
   , <<5, "Eaton", "Powerware ePDU Monitored", "", "snmp-ups (experimental)">>, <<5, "Eaton", "Powerware 9130", "", "bcmxcp or usbhid-ups">>
   , <<3, "Effekta", "MI/MT/MH", "2502 cable", "megatec">>, <<3, "Effekta", "RM2000MH", "", "megatec">>
   , <<3, "Energy Sistem", "(various)", "", "megatec">>, <<3, "ETA", "mini+UPS", "WinNT/Upsoft cable", "genericups upstype=7">>
   , <<3, "ETA", "mini+UPS PRO", "UPS Explorer cable", "etapro">>, <<3, "Ever UPS", "NET *-DPC", "", "everups">>
  >>

(* Rows authored on lines 151-300 of ups_data.js. *)
UPSDataB ==
  << <<3, "Ever UPS", "AP *-PRO", "", "everups">>, <<3, "Ever-Power", "625/1000", "", "safenet">>
   , <<3, "Exide", "NetUPS SE", "", "genericups upstype=15">>, <<3, "Fenton Technologies", "PowerPal", "P-series", "safenet">>
   , <<3, "Fenton Technologies", "PowerPal", "L-series", "megatec">>, <<3, "Fenton Technologies", "PowerOn", "", "megatec">>
   , <<3, "Fenton Technologies", "PowerPure", "", "megatec">>, <<3, "Fairstone", "L525/L625/L750", "", "safenet">>
   , <<3, "Fideltronik", "Ares 700 and larger", "", "genericups upstype=6">>, <<3, "Fideltronik", "Other Ares models", "", "genericups upstype=19">>
   , <<3, "Fiskars", "PowerRite MAX", "", "upscode2">>, <<3, "Fiskars", "PowerServer 10", "", "upscode2">>
   , <<3, "Fiskars", "PowerServer 30", "", "upscode2">>, <<3, "Fiskars", "9200", "UPS Information Unit", "upscode2">>
   , <<3, "Forza Power Technologies", "SL-1001", "USB", "megatec_usb">>, <<3, "Gamatronic", "All models with alarm interface", "", "genericups upstype=22">>
   , <<3, "Gamatronic", "G-SmartCompact 2000", "", "megatec">>, <<3, "Gamatronic", "MP110/210", "", "gamatronic">>
   , <<3, "Gamatronic", "MS-T", "", "gamatronic">>, <<3, "Gamatronic", "MS", "", "gamatronic">>
   , <<3, "Gamatronic", "µPS3/1", "", "gamatronic">>, <<3, "Geek Squad", "GS1285U", "USB", "usbhid-ups">>
   , <<3, "Gemini", "UPS625/UPS1000", "", "safenet">>, <<3, "HP", "PowerTrust 2997A", "HP 5061-2575 cable", "apcsmart">>
   , <<3, "HP", "R3000 XR", "", "bcmxcp">>, <<3, "HP", "R5500 XR", "", "bcmxcp">>
   , <<3, "HP", "R/T 2200 G2", "", "usbhid-ups">>, <<3, "HP", "T750 INTL", "", "usbhid-ups">>
   , <<3, "HP", "HP3488 Switch/Control Unit", "", "powerman-pdu (experimental)">>, <<3, "IBM", "Blade Center Management Module", "15 outlets", "powerman-pdu (experimental)">>
   , <<3, "ICS", "8064 Ethernet Relay Interface", "16 outlets", "powerman-pdu (experimental)">>, <<3, "INELT", "Monolith 1000LT", "", "megatec">>
   , <<3, "Inform", "GUARD", "Line Interactive AP model", "powercom">>, <<3, "Inform", "Guard S 1500AP", "", "megatec">>
   , <<3, "Inform", "Informer Compact 1000VA", "", "megatec">>, <<3, "Infosec", "iPEL 350", "", "megatec">>
   , <<3, "Infosec", "iPEL 500", "", "megatec">>, <<3, "Infosec", "iPEL 750", "", "megatec">>
   , <<3, "Infosec", "iPEL 1000", "", "megatec">>, <<3, "Infosec", "500XP", "", "megatec">>
   , <<3, "Infosec", "XP 500", "USB", "megatec_usb">>, <<3, "Infosec", "XP 1000", "", "megatec">>
   , <<3, "IPMI", "", "", "powerman-pdu (experimental)">>, <<3, "Ippon", "(various)", "", "megatec">>
   , <<3, "Ippon", "Back Power Pro", "", "megatec">>, <<3, "Ippon", "Back Power Pro 700", "USB", "megatec_usb">>
   , <<3, "Jageson Technology", "Jasuny USPS", "", "genericups upstype=4">>, <<3, "Kebo", "1200D/D Series", "", "megatec">>
   , <<3, "Krauler", "UP-D1200VA", "USB", "megatec_usb ignoreoff">>, <<3, "Krauler", "UP-M500VA", "USB", "megatec_usb">>
   , <<3, "Lestar", "MD-800E", "", "megatec">>, <<3, "Liebert", "ITON 600VA", "", "megatec">>
   , <<3, "Liebert", "UPStation GXT2", "contact-closure cable", "liebert">>, <<3, "Liebert", "PowerSure Personal XT", "USB", "usbhid-ups">>
   , <<3, "LNXI", "Icebox", "10 outlets", "powerman-pdu (experimental)">>, <<3, "Masterguard", "(various)", "", "masterguard">>
   , <<3, "Maxxtro", "UPS 600 VA", "serial port", "megatec">>, <<3, "Mecer", "ME-2000", "", "megatec">>
   , <<3, "Meta System", "HF Line", "1..4 boards", "metasys">>, <<3, "Meta System", "HF Line /2", "5..8 boards", "metasys">>
   , <<3, "Meta System", "HF Millennium 810", "", "metasys">>, <<3, "Meta System", "HF Millennium 820", "", "metasys">>
   , <<3, "Meta System", "HF TOP Line 910", "", "metasys">>, <<3, "Meta System", "HF TOP Line 920", "", "metasys">>
   , <<3, "Meta System", "HF TOP Line 930", "", "metasys">>, <<3, "Meta System", "HF TOP Line 940", "", "metasys">>
   , <<3, "Meta System", "HF TOP Line 950", "", "metasys">>, <<3, "Meta System", "HF TOP Line 960", "", "metasys">>
   , <<3, "Meta System", "HF TOP Line 970", "", "metasys">>, <<3, "Meta System", "HF TOP Line 980", "", "metasys">>
   , <<3, "Meta System", "ECO Network 750", "", "metasys">>, <<3, "Meta System", "ECO Network 1000", "", "metasys">>
   , <<3, "Meta System", "ECO Network 1050", "", "metasys">>, <<3, "Meta System", "ECO Network 1500", "", "metasys">>
   , <<3, "Meta System", "ECO Network 1800", "", "metasys">>, <<3, "Meta System", "ECO Network 2000", "", "metasys">>
   , <<3, "Meta System", "ECO Network 2100", "", "metasys">>, <<3, "Meta System", "ECO Network 2500", "", "metasys">>
   , <<3, "Meta System", "ECO Network 3000", "", "metasys">>, <<3, "Meta System", "ECO 305", "", "metasys">>
   , <<3, "Meta System", "ECO 308", "", "metasys">>, <<3, "Meta System", "ECO 311", "", "metasys">>
   , <<3, "Meta System", "ECO 511", "", "metasys">>, <<3, "Meta System", "ECO 516", "", "metasys">>
   , <<3, "Meta System", "ECO 519", "", "metasys">>, <<3, "Meta System", "ECO 522", "", "metasys">>
   , <<3, "Meta System", "ally HF 800", "", "metasys">>, <<3, "Meta System", "ally HF 1000", "", "metasys">>
   , <<3, "Meta System", "ally HF 1250", "", "metasys">>, <<3, "Meta System", "ally HF 1600", "", "metasys">>
   , <<3, "Meta System", "ally HF 2000", "", "metasys">>, <<3, "Meta System", "ally HF 2500", "", "metasys">>
   , <<3, "Meta System", "Megaline 1250", "", "metasys">>, <<3, "Meta System", "Megaline 2500", "", "metasys">>
   , <<3, "Meta System", "Megaline 3750", "", "metasys">>, <<3, "Meta System", "Megaline 5000", "", "metasys">>
   , <<3, "Meta System", "Megaline 6250", "", "metasys">>, <<3, "Meta System", "Megaline 7500", "", "metasys">>
   , <<3, "Meta System", "Megaline 8750", "", "metasys">>, <<3, "Meta System", "Megaline 10000", "", "metasys">>
   , <<4, "MGE Office Protection Systems", "Protection Center 500/675 VA", "USB", "usbhid-ups">>, <<4, "MGE Office Protection Systems", "Protection Station 500/650/800 VA", "USB", "usbhid-ups">>
   , <<4, "MGE Office Protection Systems", "Ellipse ASR USBS 600/750/1000/1500 VA", "USB cable", "usbhid-ups">>, <<4, "MGE Office Protection Systems", "Ellipse MAX USBS 600/850/1100/1500 VA", "USB cable", "usbhid-ups">>
   , <<4, "MGE Office Protection Systems", "Evolution 650/850/1150/1550/2000 VA", "USB port", "usbhid-ups">>, <<4, "MGE Office Protection Systems", "Evolution S 1250/1750/2500/3000 VA", "USB port", "usbhid-ups">>
   , <<4, "MGE Office Protection Systems", "Pulsar 700/1000/1500 VA", "USB port", "usbhid-ups">>, <<4, "MGE Office Protection Systems", "Pulsar M 2200/3000 VA", "USB port", "usbhid-ups">>
   , <<4, "MGE Office Protection Systems", "Pulsar MX 5/8/10/15/20 kVA", "USB port", "usbhid-ups">>, <<4, "MGE Office Protection Systems", "Ellipse ASR USBS 600/750/1000/1500 VA", "Serial cable", "mge-shut or newmge-shut">>
   , <<4, "MGE Office Protection Systems", "Ellipse MAX USBS 600/850/1100/1500 VA", "Serial cable", "mge-shut or newmge-shut">>, <<4, "MGE Office Protection Systems", "Evolution 650/850/1150/1550/2000 VA", "Serial port", "mge-shut or newmge-shut">>
   , <<4, "MGE Office Protection Systems", "Evolution S 1250/1750/2500/3000 VA", "Serial port", "mge-shut or newmge-shut">>, <<4, "MGE Office Protection Systems", "Pulsar 700/1000/1500 VA", "Serial port", "mge-shut or newmge-shut">>
   , <<4, "MGE Office Protection Systems", "Pulsar M 2200/3000 VA", "Serial port", "mge-shut or newmge-shut">>, <<4, "MGE Office Protection Systems", "Pulsar MX 5/8/10/15/20 kVA", "Serial port", "mge-shut or newmge-shut">>
   , <<4, "MGE Office Protection Systems", "Comet EX RT 1:1 7/11 kVA", "", "mge-shut or newmge-shut">>, <<4, "MGE Office Protection Systems", "Comet EX RT 3:1 5/7/11 kVA", "", "mge-shut or newmge-shut">>
   , <<4, "MGE Office Protection Systems", "Comet EX RT (XML/HTTP)", "NMC Transverse card (ref 66074)", "netxml-ups (experimental)">>, <<4, "MGE Office Protection Systems", "Comet EX RT (SNMP)", "NMC Transverse card (ref 66074)", "snmp-ups (experimental)">>
   , <<4, "MGE Office Protection Systems", "various models (XML/HTTP mode)", "NMC Minislot (Ref 66102)", "netxml-ups (experimental)">>, <<4, "MGE Office Protection Systems", "various models (SNMP mode)", "NMC Minislot (Ref 66102)", "snmp-ups (experimental)">>
   , <<4, "MGE Office Protection Systems", "various models (XML/HTTP mode)", "SNMP/Web Minislot card (ref 66244)", "netxml-ups (experimental)">>, <<4, "MGE Office Protection Systems", "various models (SNMP mode)", "SNMP/Web Minislot card (ref 66244)", "snmp-ups (experimental)">>
   , <<4, "MGE UPS SYSTEMS", "Comet EX RT", "USB", "usbhid-ups">>, <<4, "MGE UPS SYSTEMS", "Comet EX RT 3:1", "USB", "usbhid-ups">>
   , <<4, "MGE UPS SYSTEMS", "Protection Center 420", "USB", "usbhid-ups">>, <<4, "MGE UPS SYSTEMS", "Protection Center 500", "USB", "usbhid-ups">>
   , <<4, "MGE UPS SYSTEMS", "Protection Center 675", "USB", "usbhid-ups">>, <<4, "MGE UPS SYSTEMS", "NOVA AVR 600 USB", "USB", "usbhid-ups">>
   , <<4, "MGE UPS SYSTEMS", "NOVA AVR 1100 USB", "USB", "usbhid-ups">>, <<4, "MGE UPS SYSTEMS", "Pulsar Ellipse USBS", "USB", "usbhid-ups">>
   , <<4, "MGE UPS SYSTEMS", "Pulsar Ellipse USB", "USB", "usbhid-ups">>, <<4, "MGE UPS SYSTEMS", "Pulsar Ellipse Premium USBS", "USB", "usbhid-ups">>
   , <<4, "MGE UPS SYSTEMS", "Pulsar Ellipse Premium USB", "USB", "usbhid-ups">>, <<4, "MGE UPS SYSTEMS", "Ellipse Office 600", "USB", "usbhid-ups">>
   , <<4, "MGE UPS SYSTEMS", "Ellipse Office 750", "USB", "usbhid-ups">>, <<4, "MGE UPS SYSTEMS", "Ellipse Office 1000", "USB", "usbhid-ups">>
   , <<4, "MGE UPS SYSTEMS", "Ellipse Office 1500", "USB", "usbhid-ups">>, <<4, "MGE UPS SYSTEMS", "Ellipse MAX 600", "USB", "usbhid-ups">>
   , <<4, "MGE UPS SYSTEMS", "Ellipse MAX 850", "USB", "usbhid-ups">>, <<4, "MGE UPS SYSTEMS", "Ellipse MAX 1100", "USB", "usbhid-ups">>
   , <<4, "MGE UPS SYSTEMS", "Ellipse MAX 1500", "USB", "usbhid-ups">>, <<4, "MGE UPS SYSTEMS", "Pulsar Evolution", "USB", "usbhid-ups">>
   , <<4, "MGE UPS SYSTEMS", "Evolution 650", "USB", "usbhid-ups">>, <<4, "MGE UPS SYSTEMS", "Evolution 850", "USB", "usbhid-ups">>
   , <<4, "MGE UPS SYSTEMS", "Evolution 1150", "USB", "usbhid-ups">>, <<4, "MGE UPS SYSTEMS", "Evolution S 1250", "USB", "usbhid-ups">>
   , <<4, "MGE UPS SYSTEMS", "Evolution 1550", "USB", "usbhid-ups">>, <<4, "MGE UPS SYSTEMS", "Evolution S 1750", "USB", "usbhid-ups">>
  >>

(* Rows authored on lines 301-450 of ups_data.js. *)
UPSDataC ==
  << <<4, "MGE UPS SYSTEMS", "Evolution 2000", "USB", "usbhid-ups">>, <<4, "MGE UPS SYSTEMS", "Evolution S 2500", "USB", "usbhid-ups">>
   , <<4, "MGE UPS SYSTEMS", "Evolution S 3000", "USB", "usbhid-ups">>, <<4, "MGE UPS SYSTEMS", "Pulsar M 2200", "USB", "usbhid-ups">>
   , <<4, "MGE UPS SYSTEMS", "Pulsar M 3000", "USB", "usbhid-ups">>, <<4, "MGE UPS SYSTEMS", "Pulsar M 3000 XL", "USB", "usbhid-ups">>
   , <<4, "MGE UPS SYSTEMS", "Pulsar 700", "USB", "usbhid-ups">>, <<4, "MGE UPS SYSTEMS", "Pulsar 1000", "USB", "usbhid-ups">>
   , <<4, "MGE UPS SYSTEMS", "Pulsar 1500", "USB", "usbhid-ups">>, <<4, "MGE UPS SYSTEMS", "Pulsar 1000 RT2U", "USB", "usbhid-ups">>
   , <<4, "MGE UPS SYSTEMS", "Pulsar 1500 RT2U", "USB", "usbhid-ups">>, <<4, "MGE UPS SYSTEMS", "Pulsar MX 4000 RT", "USB", "usbhid-ups">>
   , <<4, "MGE UPS SYSTEMS", "Pulsar MX 5000 RT", "USB", "usbhid-ups">>, <<4, "MGE UPS SYSTEMS", "Comet / Galaxy (USB)", "USB Card (ref 66067)", "usbhid-ups">>
   , <<4, "MGE UPS SYSTEMS", "NOVA AVR 600 Serial", "", "mge-shut or newmge-shut">>, <<4, "MGE UPS SYSTEMS", "NOVA AVR 1100 Serial", "", "mge-shut or newmge-shut">>
   , <<4, "MGE UPS SYSTEMS", "Pulsar Ellipse USBS", "Serial cable", "mge-shut or newmge-shut">>, <<4, "MGE UPS SYSTEMS", "Pulsar Ellipse S", "", "mge-shut or newmge-shut">>
   , <<4, "MGE UPS SYSTEMS", "Pulsar Ellipse Premium USBS", "Serial cable", "mge-shut or newmge-shut">>, <<4, "MGE UPS SYSTEMS", "Pulsar Ellipse Premium S", "", "mge-shut or newmge-shut">>
   , <<4, "MGE UPS SYSTEMS", "Ellipse Office 600", "Serial cable", "mge-shut or newmge-shut">>, <<4, "MGE UPS SYSTEMS", "Ellipse Office 750", "Serial cable", "mge-shut or newmge-shut">>
   , <<4, "MGE UPS SYSTEMS", "Ellipse Office 1000", "Serial cable", "mge-shut or newmge-shut">>, <<4, "MGE UPS SYSTEMS", "Ellipse Office 1500", "Serial cable", "mge-shut or newmge-shut">>
   , <<4, "MGE UPS SYSTEMS", "Ellipse MAX 600", "Serial cable", "mge-shut or newmge-shut">>, <<4, "MGE UPS SYSTEMS", "Ellipse MAX 850", "Serial cable", "mge-shut or newmge-shut">>
   , <<4, "MGE UPS SYSTEMS", "Ellipse MAX 1100", "Serial cable", "mge-shut or newmge-shut">>, <<4, "MGE UPS SYSTEMS", "Ellipse MAX 1500", "Serial cable", "mge-shut or newmge-shut">>
   , <<4, "MGE UPS SYSTEMS", "Pulsar EXtreme C / EX RT", "", "mge-shut or newmge-shut">>, <<4, "MGE UPS SYSTEMS", "Comet EX RT", "Serial port", "mge-shut or newmge-shut">>
   , <<4, "MGE UPS SYSTEMS", "Comet EX RT 3:1", "Serial port", "mge-shut or newmge-shut">>, <<4, "MGE UPS SYSTEMS", "Pulsar Esprit", "", "mge-shut or newmge-shut">>
   , <<4, "MGE UPS SYSTEMS", "Evolution 650", "Serial port", "mge-shut or newmge-shut">>, <<4, "MGE UPS SYSTEMS", "Evolution 850", "Serial port", "mge-shut or newmge-shut">>
   , <<4, "MGE UPS SYSTEMS", "Evolution 1150", "Serial port", "mge-shut or newmge-shut">>, <<4, "MGE UPS SYSTEMS", "Evolution S 1250", "Serial port", "mge-shut or newmge-shut">>
   , <<4, "MGE UPS SYSTEMS", "Evolution 1550", "Serial port", "mge-shut or newmge-shut">>, <<4, "MGE UPS SYSTEMS", "Evolution S 1750", "Serial port", "mge-shut or newmge-shut">>
   , <<4, "MGE UPS SYSTEMS", "Evolution 2000", "Serial port", "mge-shut or newmge-shut">>, <<4, "MGE UPS SYSTEMS", "Evolution S 2500", "Serial port", "mge-shut or newmge-shut">>
   , <<4, "MGE UPS SYSTEMS", "Evolution S 3000", "Serial port", "mge-shut or newmge-shut">>, <<4, "MGE UPS SYSTEMS", "Pulsar M 2200", "Serial port", "mge-shut or newmge-shut">>
   , <<4, "MGE UPS SYSTEMS", "Pulsar M 3000", "Serial port", "mge-shut or newmge-shut">>, <<4, "MGE UPS SYSTEMS", "Pulsar M 3000 XL", "Serial port", "mge-shut or newmge-shut">>
   , <<4, "MGE UPS SYSTEMS", "Pulsar 700", "Serial port", "mge-shut or newmge-shut">>, <<4, "MGE UPS SYSTEMS", "Pulsar 1000", "Serial port", "mge-shut or newmge-shut">>
   , <<4, "MGE UPS SYSTEMS", "Pulsar 1500", "Serial port", "mge-shut or newmge-shut">>, <<4, "MGE UPS SYSTEMS", "Pulsar 1000 RT2U", "Serial port", "mge-shut or newmge-shut">>
   , <<4, "MGE UPS SYSTEMS", "Pulsar 1500 RT2U", "Serial port", "mge-shut or newmge-shut">>, <<4, "MGE UPS SYSTEMS", "Pulsar MX 4000 RT", "Serial port", "mge-shut or newmge-shut">>
   , <<4, "MGE UPS SYSTEMS", "Pulsar MX 5000 RT", "Serial port", "mge-shut or newmge-shut">>, <<4, "MGE UPS SYSTEMS", "Pulsar Evolution", "Serial port", "mge-shut or newmge-shut or mge-utalk">>
   , <<4, "MGE UPS SYSTEMS", "Pulsar EXtreme C", "", "mge-shut or newmge-shut or mge-utalk">>, <<4, "MGE UPS SYSTEMS", "Pulsar ES+", "", "mge-utalk">>
   , <<4, "MGE UPS SYSTEMS", "Pulsar ESV+", "", "mge-utalk">>, <<4, "MGE UPS SYSTEMS", "Pulsar SV", "", "mge-utalk">>
   , <<4, "MGE UPS SYSTEMS", "Pulsar ESV", "", "mge-utalk">>, <<4, "MGE UPS SYSTEMS", "Pulsar EX", "", "mge-utalk">>
   , <<4, "MGE UPS SYSTEMS", "Pulsar EXL", "", "mge-utalk">>, <<4, "MGE UPS SYSTEMS", "Pulsar PSX", "", "mge-utalk">>
   , <<4, "MGE UPS SYSTEMS", "Pulsar SX", "", "mge-utalk">>, <<4, "MGE UPS SYSTEMS", "Pulsar EXtreme", "", "mge-utalk">>
   , <<4, "MGE UPS SYSTEMS", "Comet EXtreme", "", "mge-utalk">>, <<4, "MGE UPS SYSTEMS", "Comet / Galaxy (Serial)", "Utalk Serial Card (ref 66060)", "mge-utalk">>
   , <<4, "MGE UPS SYSTEMS", "Comet / Galaxy (Serial)", "HID COM Serial Card (ref 66066)", "mge-shut or newmge-shut">>, <<4, "MGE UPS SYSTEMS", "Pulsar / Comet / Galaxy (SNMP)", "SNMP/Web Transverse card (ref 66074)", "snmp-ups (experimental)">>
   , <<4, "MGE UPS SYSTEMS", "various models (XML/HTTP mode)", "NMC Minislot (Ref 66102)", "netxml-ups (experimental)">>, <<4, "MGE UPS SYSTEMS", "various models (SNMP mode)", "NMC Minislot (Ref 66102)", "snmp-ups (experimental)">>
   , <<4, "MGE UPS SYSTEMS", "Pulsar (XML/HTTP mode)", "SNMP/Web Minislot card (ref 66244)", "netxml-ups (experimental)">>, <<4, "MGE UPS SYSTEMS", "Pulsar (SNMP mode)", "SNMP/Web Minislot card (ref 66244)", "snmp-ups (experimental)">>
   , <<4, "MGE UPS SYSTEMS", "Pulsar / Comet / Galaxy (SNMP)", "SNMP card (ref 66062)", "snmp-ups (experimental)">>, <<4, "MGE UPS SYSTEMS", "Pulsar (SNMP)", "SNMP card (ref 66045)", "snmp-ups (experimental)">>
   , <<4, "MGE UPS SYSTEMS", "UM-Link (SNMP)", "Not a UPS (ref 66850)", "snmp-ups (experimental)">>, <<3, "MicroDowell", "B.Box BP 500", "", "powerpanel">>
   , <<3, "MicroDowell", "B.Box BP 750", "", "powerpanel">>, <<3, "MicroDowell", "B.Box BP 1000", "", "powerpanel">>
   , <<3, "MicroDowell", "B.Box BP 1500", "", "powerpanel">>, <<3, "MicroDowell", "Enterprise B8", "", "microdowell">>
   , <<3, "MicroDowell", "Enterprise B10", "", "microdowell">>, <<3, "MicroDowell", "Enterprise N8", "", "microdowell">>
   , <<3, "MicroDowell", "Enterprise N11", "", "microdowell">>, <<3, "MicroDowell", "Enterprise N15", "", "microdowell">>
   , <<3, "MicroDowell", "Enterprise N20", "", "microdowell">>, <<3, "MicroDowell", "Enterprise N22", "", "microdowell">>
   , <<3, "MicroDowell", "Enterprise N30", "", "microdowell">>, <<3, "MicroDowell", "Enterprise N40", "", "microdowell">>
   , <<3, "MicroDowell", "Enterprise N50", "", "microdowell">>, <<3, "MicroDowell", "Enterprise N60", "", "microdowell">>
   , <<3, "MicroDowell", "Enterprise HiBox ST", "", "microdowell">>, <<3, "Microsol", "Solis 1.0", "1000VA", "solis">>
   , <<3, "Microsol", "Solis 1.5", "1500VA", "solis">>, <<3, "Microsol", "Solis 2.0", "2000VA", "solis">>
   , <<3, "Microsol", "Solis 3.0", "3000VA", "solis">>, <<3, "Microsol", "Rhino 6.0", "6000VA", "rhino">>
   , <<3, "Microsol", "Rhino 7.5", "7500VA", "rhino">>, <<3, "Microsol", "Rhino 10.0", "10000VA", "rhino">>
   , <<3, "Microsol", "Rhino 20.0", "20000VA", "rhino">>, <<3, "Mustek", "Powermust", "400VA Plus", "megatec">>
   , <<3, "Mustek", "Powermust", "600VA Plus", "megatec">>, <<3, "Mustek", "Powermust", "800VA Pro", "megatec">>
   , <<3, "Mustek", "Powermust", "1000VA Plus", "megatec">>, <<3, "Mustek", "Powermust", "1400VA Plus", "megatec">>
   , <<3, "Mustek", "Powermust", "2000VA USB", "megatec">>, <<3, "Mustek", "Powermust Office 650", "USB", "megatec_usb">>
   , <<3, "Mustek", "PowerMust 424 / 636 / 848", "USB", "blazer_usb">>, <<3, "Mustek", "Various", "", "megatec">>
   , <<3, "Neus", "400va / 600va", "", "megatec">>, <<3, "Nitram", "Elite 500", "", "genericups upstype=8">>
   , <<3, "Nitram", "Elite 2002", "", "genericups upstype=16">>, <<3, "Nitram", "Elite 2005", "", "powerpanel">>
   , <<3, "Oneac", "ON400", "advanced interface", "oneac">>, <<3, "Oneac", "ON600", "advanced interface", "oneac">>
   , <<3, "Oneac", "ON900", "advanced interface", "oneac">>, <<3, "Oneac", "ON1300", "advanced interface", "oneac">>
   , <<3, "Oneac", "EG Series", "advanced interface", "oneac">>, <<3, "Oneac", "ON700", "advanced interface", "oneac">>
   , <<3, "Oneac", "ON700XAU", "advanced interface", "oneac">>, <<3, "Oneac", "ON700XIU", "advanced interface", "oneac">>
   , <<3, "Oneac", "ON1000", "advanced interface", "oneac">>, <<3, "Oneac", "ON1000XAU", "advanced interface", "oneac">>
   , <<3, "Oneac", "ON1000XIU", "advanced interface", "oneac">>, <<3, "Oneac", "ON1500", "advanced interface", "oneac">>
   , <<3, "Oneac", "ON1500XAU", "advanced interface", "oneac">>, <<3, "Oneac", "ON1500XIU", "advanced interface", "oneac">>
   , <<3, "Oneac", "ON2000", "advanced interface", "oneac">>, <<3, "Oneac", "ON2000XAU", "advanced interface", "oneac">>
   , <<3, "Oneac", "ON2000XIU", "advanced interface", "oneac">>, <<3, "Online", "P-Series", "", "genericups upstype=14">>
   , <<3, "Online", "Zinto D", "", "optiups">>, <<3, "OnLite", "AQUA", "50", "megatec">>
   , <<3, "Opti-UPS", "PowerES", "420E", "optiups">>, <<3, "Orvaldi Power Protection", "various", "not 400 or 600", "megatec">>
   , <<3, "Phasak", "400VA / 600VA", "", "megatec">>, <<3, "Plexus", "500VA", "USB", "megatec_usb ignoreoff">>
   , <<3, "Plexus", "1000VA Pro", "USB", "megatec_usb ignoreoff">>, <<3, "Powercom", "SMK", "", "megatec">>
   , <<3, "Powercom", "SXL", "", "megatec">>, <<3, "Powercom", "ULT", "", "megatec">>
   , <<3, "Powercom", "Trust 425/625", "", "powercom">>, <<3, "Powercom", "Advice Partner/King Pr750", "", "powercom">>
   , <<3, "Powercom", "Black Knight PRO", "", "powercom">>, <<3, "Powercom", "King PRO", "", "powercom">>
   , <<3, "Powercom", "Imperial", "", "powercom">>, <<3, "Powercom", "Vanguard 6000", "", "megatec">>
   , <<3, "PowerGuard", "PG-600", "", "megatec">>, <<3, "PowerKinetics", "9001", "", "genericups upstype=17">>
   , <<3, "PowerKinetics", "BlackOut Buster", "", "megatec">>, <<3, "PowerMan", "RealSmart 800", "", "megatec">>
   , <<3, "PowerMan", "RealSmart 1000", "", "megatec">>, <<3, "PowerMan", "BackPro", "", "genericups upstype=4">>
  >>

(* Rows authored on lines 451-554 of ups_data.js. *)
UPSDataD ==
  << <<3, "PowerTech", "Comp1000", "DTR cable power", "genericups upstype=3">>, <<3, "PowerTech", "SMK-800", "", "megatec">>
   , <<3, "PowerWalker", "Line-Interactive VI 1000", "", "megatec">>, <<3, "PowerWalker", "Line-Interactive VI 400/800", "", "megatec">>
   , <<3, "PowerWalker", "Line-Interactive VI 600", "", "megatec battvolts=9:13">>, <<3, "Powerware", "3110", "", "genericups upstype=7">>
   , <<3, "Powerware", "3115", "", "genericups upstype=11">>, <<3, "Powerware", "5119, 5125", "", "genericups upstype=15">>
   , <<3, "Powerware", "5119 RM", "", "genericups upstype=20">>, <<3, "Powerware", "PW3105", "", "bcmxcp_usb">>
   , <<3, "Powerware", "PW5110", "", "bcmxcp_usb">>, <<3, "Powerware", "PW5115", "Serial port", "bcmxcp">>
   , <<3, "Powerware", "PW5115", "USB port", "bcmxcp_usb">>, <<3, "Powerware", "PW5125", "", "bcmxcp">>
   , <<3, "Powerware", "PW9120", "Serial port", "bcmxcp">>, <<3, "Powerware", "PW9120", "USB port", "bcmxcp_usb">>
   , <<3, "Powerware", "PW9125", "", "bcmxcp">>, <<3, "Powerware", "PW9315", "3-phase", "bcmxcp">>
   , <<3, "Powerware", "9110", "", "upscode2">>, <<3, "Powerware", "9120", "", "upscode2">>
   , <<3, "Powerware", "9150", "", "upscode2">>, <<3, "Powerware", "9305", "", "upscode2">>
   , <<3, "Powerware", "BladeUPS (SNMP)", "ConnectUPS Web/SNMP Card", "snmp-ups (experimental)">>, <<3, "Powerware", "(various)", "ConnectUPS Web/SNMP card", "snmp-ups (experimental)">>
   , <<3, "Powerwell", "PM525A/-625A/-800A/-1000A/-1250A", "", "safenet">>, <<3, "Phantom", "Rackable Systems", "1 outlets", "powerman-pdu (experimental)">>
   , <<3, "Raritan", "Intelligent PDU - Dominion PX", "no report, but should be supported", "snmp-ups (experimental)">>, <<3, "Raritan", "Metered PDU - Raritan PM", "no report, but should be supported", "snmp-ups (experimental)">>
   , <<3, "Raritan", "Switched PDU - Raritan RPC", "no report, but should be supported", "snmp-ups (experimental)">>, <<3, "Repotec", "RPF525/625/800/1000", "", "safenet">>
   , <<3, "Repotec", "RPT-800A", "", "genericups upstype=13">>, <<3, "Repotec", "RPT-162A", "", "genericups upstype=13">>
   , <<3, "SmartLabs", "2412S Power Line Modem", "for X10/Insteon", "powerman-pdu (experimental)">>, <<3, "SMS (Brazil)", "Manager III", "", "megatec">>
   , <<3, "SOLA", "305", "cable INT-0025C", "genericups upstype=7">>, <<3, "SOLA", "325", "", "bestups">>
   , <<3, "SOLA", "520", "", "bestups">>, <<3, "SOLA", "610", "use ID= in ups.conf", "bestups">>
   , <<3, "SOLA", "620", "", "bestups">>, <<3, "SOLA", "330", "", "megatec">>
   , <<3, "SOLA/BASIC Mexico", "various", "ISBMEX protocol", "isbmex">>, <<3, "Socomec", "NeTYS-PE", "600VA", "megatec">>
   , <<3, "Socomec Sicon", "Egys", "420 VA", "powercom">>, <<3, "Socomec Sicon", "Netvision", "UPS equipped with Netvision WEB/SNMP card/external box", "snmp-ups (experimental)">>
   , <<3, "Soltec", "Winmate 525/625/800/1000", "", "safenet">>, <<3, "Soyntec", "Sekury C 500", "", "megatec">>
   , <<3, "Soyntec", "Sekury C 800", "", "megatec">>, <<3, "SquareOne Power", "QP1000", "", "megatec">>
   , <<3, "Sun", "ILOM Management Module", "1 outlet", "powerman-pdu (experimental)">>, <<3, "SuperPower", "HP360, Hope-550", "", "megatec">>
   , <<3, "SVEN", "Power Pro+ series", "USB", "megatec_usb">>, <<3, "SVEN", "Power Smart RM 2000", "USB", "megatec_usb">>
   , <<3, "Sweex", "500/1000", "smart - shipped with SafeNet", "safenet">>, <<3, "Sweex", "500/1000", "", "genericups upstype=7">>
   , <<3, "Sweex", "1000", "USB", "richcomm_usb">>, <<3, "Sweex", "(various)", "", "megatec">>
   , <<3, "Sysgration", "UPGUARDS Pro650", "", "megatec">>, <<3, "Tecnoware", "Easy Power 1200", "", "megatec">>
   , <<3, "Tripp-Lite", "INTERNETOFFICE700", "USB", "tripplite_usb">>, <<3, "Tripp-Lite", "OMNIVS1000", "USB", "tripplite_usb">>
   , <<3, "Tripp-Lite", "OMNIVS1500XL", "USB", "tripplite_usb">>, <<3, "Tripp-Lite", "SMART700USB", "USB", "tripplite_usb">>
   , <<3, "Tripp-Lite", "SMART1500RM2U", "USB", "tripplite_usb">>, <<3, "Tripp-Lite", "SMART550USB", "USB", "tripplite_usb">>
   , <<3, "Tripp-Lite", "SMART2200RMXL2U", "USB, older models", "tripplite_usb (experimental)">>, <<3, "Tripp-Lite", "SmartUPS", "", "tripplite">>
   , <<3, "Tripp-Lite", "SmartOnline", "", "tripplitesu">>, <<3, "Tripp-Lite", "(various)", "Lan 2.2 interface - black 73-0844 cable", "genericups upstype=5">>
   , <<3, "Tripp-Lite", "OMNI1000LCD", "USB", "usbhid-ups">>, <<3, "Tripp-Lite", "OMNI900LCD", "USB", "usbhid-ups">>
   , <<3, "Tripp-Lite", "OMNI650LCD", "USB", "usbhid-ups">>, <<3, "Tripp-Lite", "1500 LCD", "USB", "usbhid-ups">>
   , <<3, "Tripp-Lite", "AVR550U", "USB", "usbhid-ups">>, <<3, "Tripp-Lite", "AVR750U", "USB", "usbhid-ups">>
   , <<3, "Tripp-Lite", "SmartOnline SU1500RTXL2ua", "USB", "usbhid-ups">>, <<3, "Tripp-Lite", "smart2200RMXL2U", "USB, newer models", "usbhid-ups">>
   , <<3, "Trust", "UPS 1000 Management PW-4105", "", "megatec">>, <<3, "Trust", "UPS 1200VA Management PW-4120M", "", "megatec">>
   , <<3, "Trust", "UPS 1300VA Management PW-4130M", "", "megatec">>, <<3, "UNITEK", "ALPHA 500 IC", "", "megatec dtr=0 rts=1">>
   , <<3, "UNITEK", "Alpha 1000is", "", "megatec">>, <<3, "UNITEK", "Alpha 500", "", "megatec">>
   , <<3, "UNITEK", "Alpha 500 ipE", "", "megatec">>, <<3, "UNITEK", "Alpha 2600", "", "megatec">>
   , <<3, "UNITEK", "Alpha 1200Sx", "USB", "megatec_usb">>, <<3, "UNITEK", "Alpha 1250xD", "USB", "megatec_usb">>
   , <<3, "UPSonic", "CXR1000", "", "megatec">>, <<3, "UPSonic", "LAN Saver 600", "", "genericups upstype=0">>
   , <<3, "UPSonic", "Power Guardian", "", "genericups upstype=7">>, <<3, "UPSonic", "PrOffice 650", "USB", "megatec_usb">>
   , <<3, "UPSonic", "DS-800", "USB", "megatec_usb">>, <<3, "Various", "(various)", "SEC protocol", "gamatronic">>
   , <<3, "Various", "(various)", "Generic RUPS model", "genericups upstype=4">>, <<3, "Various", "(various)", "Generic RUPS 2000 (Megatec M2501 cable)", "genericups upstype=21">>
   , <<3, "Various", "(various)", "Q1 / Megatec protocol", "megatec">>, <<3, "Various", "(various)", "PhoenixTec protocol", "bestups">>
   , <<3, "Various", "(various)", "SNMP - RFC 1628", "snmp-ups (experimental)">>, <<3, "Various", "(various)", "Safenet software", "safenet">>
   , <<3, "Victron/IMV", "(various)", "", "victronups">>, <<3, "Victron/IMV", "Lite", "crack cable", "genericups upstype=10">>
   , <<3, "Viewsonic", "PowerES", "420E", "optiups">>, <<3, "WinPower", "CPM-800", "", "megatec">>
   , <<3, "WTI", "RPS-10", "10 outlets", "powerman-pdu (experimental)">>, <<3, "WTI", "NPS", "8 outlets", "powerman-pdu (experimental)">>
  >>
(***************************************************************************)
(* Authoring slips a maintainer of this hand-edited file can make in the  *)
(* rows; each is a variant of UPSDataLiteral used to show that a property *)
(* of the table notices it.                                               *)
(***************************************************************************)

\* A row pasted twice.
LiteralDuplicatedRow ==
  << UPSDataA[1] >> \o UPSDataA \o UPSDataB \o UPSDataC \o UPSDataD

\* An APC row (APC rows carry level 1) added with level 3.
LiteralLevelConflict ==
  SubSeq(UPSDataA, 1, 9) \o << <<3, "APC", "Back-UPS CS", "USB", "usbhid-ups">> >>
    \o SubSeq(UPSDataA, 10, Len(UPSDataA)) \o UPSDataB \o UPSDataC \o UPSDataD

\* A new APC row appended at the bottom instead of inside the APC block.
LiteralRowOutOfBlock ==
  UPSDataA \o UPSDataB \o UPSDataC \o UPSDataD
    \o << <<1, "APC", "Back-UPS CS", "USB", "usbhid-ups">> >>

\* The row literals of `var UPSData = [ ... ]`, lines 3-554, in order.
UPSDataLiteral == UPSDataA \o UPSDataB \o UPSDataC \o UPSDataD

(***************************************************************************)
(* Slips in the separators, as variants of UPSDataCommas.                 *)
(***************************************************************************)

\* The comma ending line 12 (after row 10) forgotten: rows 10 and 11 joined.
CommasOneMissing ==
  [i \in 1..Len(UPSDataLiteral) |->
     IF i < Len(UPSDataLiteral) /\ i # 10 THEN 1 ELSE 0]

\* The comma ending line 12 (after row 10) typed twice.
CommasOneDoubled ==
  [i \in 1..Len(UPSDataLiteral) |->
     IF i = 10 THEN 2 ELSE IF i < Len(UPSDataLiteral) THEN 1 ELSE 0]

\* The commas after rows 10 and 11 both forgotten: three rows joined.
CommasTwoMissing ==
  [i \in 1..Len(UPSDataLiteral) |->
     IF i < Len(UPSDataLiteral) /\ i \notin {10, 11} THEN 1 ELSE 0]

\* The commas typed after each row literal, lines 3-554: one after every
\* row but the last (line 554 ends without a trailing comma).
UPSDataCommas ==
  [i \in 1..Len(UPSDataLiteral) |-> IF i < Len(UPSDataLiteral) THEN 1 ELSE 0]
=============================================================================
